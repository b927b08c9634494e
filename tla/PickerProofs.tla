----------------------------- MODULE PickerProofs -----------------------------
(***************************************************************************)
(* Proofs about Picker, for any source, any payload sizes and any limits,  *)
(* and about the limiter that the pickers share.                           *)
(***************************************************************************)
EXTENDS Picker, RateLimit, SequenceTheorems, WellFoundedInduction, TLAPS

-----------------------------------------------------------------------------
(* The inductive invariant *)

Events == DOMAIN Bytes

PickerType ==
  /\ mode \in [blocking : BOOLEAN, fixed : BOOLEAN, limit : Limits]
  /\ srcPos \in 0 .. Len(Script)
  /\ taken \in Seq(Events) /\ posted \in Seq(Events)
  /\ pending \in Seq(Seq(Events)) /\ pendingBytes \in Nat
  /\ skip \in 0 .. MaxBackoff /\ backoff \in 1 .. MaxBackoff
  /\ budget \in Nat /\ left \in Nat

\* The source gave a batch too long for a payload.
Oversize == \E i \in 1 .. srcPos : Len(Script[i]) > CoalesceMax

\* Only a batch as long as the source gave one is longer than a payload.
LongIsOversize == (\E j \in 1 .. Len(pending) : Len(pending[j]) > CoalesceMax) => Oversize

\* A fetch has room for what it may still take.
FetchHasRoom ==
  pc = "fetch" => /\ pendingBytes < MaxBytes /\ budget > 0
                  /\ ~mode.fixed => Len(pending) + budget <= Hi

\* Above the watermark the queue starts with a full payload, which the next
\* post takes as it is.
FullPayloadFirst ==
  ~mode.fixed => \/ Len(pending) <= Hi
                 \/ Len(pending) = Hi + 1 /\ Len(pending[1]) = CoalesceMax /\ Oversize

BytesBounded ==
  \/ pendingBytes < MaxBytes
  \/ \E i \in 1 .. srcPos : pendingBytes - batch_bytes(Script[i]) < MaxBytes

PickerInv ==
  /\ PickerType /\ NothingLeaksFromPending /\ LongIsOversize
  /\ FetchHasRoom /\ FullPayloadFirst /\ BytesBounded

-----------------------------------------------------------------------------
(* Induction, and the two recursions of the model *)

\* Every non-empty set of natural numbers has a least element: the induction
\* principle used below.
LEMMA LeastNumber ==
  ASSUME NEW T, T \subseteq Nat, T # {}
  PROVE  \E n \in T : \A m \in T : n <= m
<1> DEFINE less == OpToRel(<, Nat)
<1>1. IsWellFoundedOn(less, Nat)
  BY NatLessThanWellFounded
<1>2. \A m, n \in Nat : m < n => <<m, n>> \in less
  BY DEF OpToRel
<1> HIDE DEF less
<1>3. PICK n \in T : \A m \in T : ~ (<<m, n>> \in less)
  BY <1>1, WFMin
<1>4. \A m \in T : ~(m < n)
  BY <1>2, <1>3
<1> QED
  BY <1>4

\* The recursion of EventsOf, up to the n-th batch.
Joining(ss, n, f) ==
  f = [i \in 0 .. n |-> IF i = 0 THEN <<>> ELSE f[i - 1] \o ss[i]]

\* The recursion has a solution.
LEMMA JoiningExists ==
  ASSUME NEW ss, NEW n \in Nat
  PROVE  \E f : Joining(ss, n, f)
<1> DEFINE Bad == {m \in Nat : ~ \E f : Joining(ss, m, f)}
<1> SUFFICES ASSUME Bad # {} PROVE FALSE
  OBVIOUS
<1>1. PICK m \in Bad : \A k \in Bad : m <= k
  BY LeastNumber, Bad \subseteq Nat
<1>2. m # 0
  <2> DEFINE f == [i \in 0 .. 0 |-> <<>>]
  <2>1. Joining(ss, 0, f)
    BY DEF Joining
  <2> QED
    BY <2>1
<1>3. m - 1 \in Nat /\ m - 1 \notin Bad
  BY <1>1, <1>2
<1>4. PICK f : Joining(ss, m - 1, f)
  BY <1>3
<1> DEFINE g == [i \in 0 .. m |-> IF i < m THEN f[i] ELSE f[m - 1] \o ss[m]]
<1>5. Joining(ss, m, g)
  <2>1. \A i \in 0 .. (m - 1) : f[i] = IF i = 0 THEN <<>> ELSE f[i - 1] \o ss[i]
    BY <1>4 DEF Joining
  <2>2. \A i \in 0 .. m : g[i] = IF i = 0 THEN <<>> ELSE g[i - 1] \o ss[i]
    BY <1>2, <1>3, <2>1
  <2>3. g = [i \in 0 .. m |-> g[i]]
    OBVIOUS
  <2> HIDE DEF g
  <2> QED
    BY <2>2, <2>3 DEF Joining
<1> QED
  BY <1>5

\* EventsOf is what the recursion yields at the end.
LEMMA EventsOfIsJoining ==
  ASSUME NEW ss, Len(ss) \in Nat
  PROVE  \E f : Joining(ss, Len(ss), f) /\ EventsOf(ss) = f[Len(ss)]
<1> DEFINE k == CHOOSE upto : upto =
                  [i \in 0 .. Len(ss) |-> IF i = 0 THEN <<>> ELSE upto[i - 1] \o ss[i]]
<1>1. EventsOf(ss) = k[Len(ss)]
  BY DEF EventsOf
<1>2. Joining(ss, Len(ss), k)
  <2>1. k = CHOOSE f : Joining(ss, Len(ss), f)
    BY DEF Joining
  <2>2. \E f : Joining(ss, Len(ss), f)
    BY JoiningExists
  <2> HIDE DEF k
  <2> QED
    BY <2>1, <2>2
<1> QED
  BY <1>1, <1>2

\* Two solutions for queues that agree at the start agree there.
LEMMA JoiningAgrees ==
  ASSUME NEW S, NEW ss, NEW tt, NEW n \in Nat, NEW m \in Nat, m <= n, NEW f, NEW g,
         \A i \in 1 .. m : ss[i] = tt[i] /\ tt[i] \in Seq(S),
         Joining(ss, n, f), Joining(tt, m, g)
  PROVE  \A i \in 0 .. m : f[i] = g[i] /\ g[i] \in Seq(S)
<1> DEFINE Bad == {i \in 0 .. m : ~(f[i] = g[i] /\ g[i] \in Seq(S))}
<1> SUFFICES ASSUME Bad # {} PROVE FALSE
  OBVIOUS
<1>1. PICK i \in Bad : \A k \in Bad : i <= k
  BY LeastNumber, Bad \subseteq Nat
<1>2. /\ f[i] = IF i = 0 THEN <<>> ELSE f[i - 1] \o ss[i]
      /\ g[i] = IF i = 0 THEN <<>> ELSE g[i - 1] \o tt[i]
  <2>1. \A j \in 0 .. n : f[j] = IF j = 0 THEN <<>> ELSE f[j - 1] \o ss[j]
    BY DEF Joining
  <2>2. \A j \in 0 .. m : g[j] = IF j = 0 THEN <<>> ELSE g[j - 1] \o tt[j]
    BY DEF Joining
  <2>3. i \in 0 .. n /\ i \in 0 .. m
    OBVIOUS
  <2> QED
    BY Zenon, <2>1, <2>2, <2>3
<1>3. CASE i = 0
  <2>1. <<>> \in Seq(S)
    OBVIOUS
  <2> QED
    BY <1>2, <1>3, <2>1
<1>4. CASE i # 0
  <2>1. i - 1 \in 0 .. m /\ i - 1 \notin Bad /\ i \in 1 .. m
    BY <1>1, <1>4
  <2>2. f[i - 1] = g[i - 1] /\ g[i - 1] \in Seq(S) /\ tt[i] \in Seq(S) /\ ss[i] = tt[i]
    BY <2>1
  <2>3. g[i - 1] \o tt[i] \in Seq(S)
    BY <2>2, ConcatProperties
  <2> QED
    BY Zenon, <1>2, <1>4, <2>2, <2>3
<1> QED
  BY <1>3, <1>4

\* The events of no batch, and of one batch more.
LEMMA EventsOfAppend ==
  ASSUME NEW S, NEW ss \in Seq(Seq(S)), NEW b \in Seq(S)
  PROVE  /\ EventsOf(<<>>) = <<>>
         /\ EventsOf(ss) \in Seq(S)
         /\ EventsOf(Append(ss, b)) = EventsOf(ss) \o b
<1> DEFINE tt == Append(ss, b)
           n == Len(ss)
<1>1. /\ n \in Nat /\ n + 1 \in Nat /\ n <= n + 1 /\ Len(tt) = n + 1 /\ tt[n + 1] = b
      /\ \A i \in 1 .. n : tt[i] = ss[i] /\ ss[i] \in Seq(S)
  OBVIOUS
<1>2. EventsOf(<<>>) = <<>>
  <2>1. Len(<<>>) = 0
    OBVIOUS
  <2>2. PICK f : Joining(<<>>, 0, f) /\ EventsOf(<<>>) = f[0]
    BY <2>1, EventsOfIsJoining
  <2>3. \A j \in 0 .. 0 : f[j] = IF j = 0 THEN <<>> ELSE f[j - 1] \o <<>>[j]
    BY <2>2 DEF Joining
  <2> QED
    BY <2>2, <2>3
<1> HIDE DEF tt
<1>3. PICK f : Joining(tt, n + 1, f) /\ EventsOf(tt) = f[n + 1]
  BY <1>1, EventsOfIsJoining
<1>4. PICK g : Joining(ss, n, g) /\ EventsOf(ss) = g[n]
  BY <1>1, EventsOfIsJoining
<1>5. f[n + 1] = f[n] \o b
  <2>1. \A j \in 0 .. n + 1 : f[j] = IF j = 0 THEN <<>> ELSE f[j - 1] \o tt[j]
    BY <1>3 DEF Joining
  <2>2. n + 1 \in 0 .. n + 1 /\ n + 1 # 0 /\ (n + 1) - 1 = n
    BY <1>1
  <2> QED
    BY <1>1, <2>1, <2>2
<1>6. f[n] = g[n] /\ g[n] \in Seq(S)
  <2>1. n \in 0 .. n
    BY <1>1
  <2> HIDE DEF n
  <2> QED
    BY <1>1, <1>3, <1>4, <2>1, JoiningAgrees
<1> QED
  BY <1>2, <1>3, <1>4, <1>5, <1>6 DEF tt

\* One batch more, behind two queues.
LEMMA EventsOfConcatStep ==
  ASSUME NEW S, NEW ss \in Seq(Seq(S)), NEW p \in Seq(Seq(S)), NEW b \in Seq(S),
         EventsOf(ss \o p) = EventsOf(ss) \o EventsOf(p)
  PROVE  EventsOf(ss \o Append(p, b)) = EventsOf(ss) \o EventsOf(Append(p, b))
<1>1. ss \o p \in Seq(Seq(S))
  BY ConcatProperties
<1>2. ss \o Append(p, b) = Append(ss \o p, b)
  <2>1. Append(p, b) = p \o <<b>> /\ <<b>> \in Seq(Seq(S))
    BY AppendIsConcat
  <2>2. Append(ss \o p, b) = (ss \o p) \o <<b>>
    BY <1>1, AppendIsConcat
  <2> QED
    BY <2>1, <2>2, ConcatAssociative
<1>3. /\ EventsOf(Append(p, b)) = EventsOf(p) \o b
      /\ EventsOf(p) \in Seq(S) /\ EventsOf(ss) \in Seq(S)
  BY EventsOfAppend
<1>4. EventsOf(Append(ss \o p, b)) = EventsOf(ss \o p) \o b
  BY <1>1, EventsOfAppend
<1>5. (EventsOf(ss) \o EventsOf(p)) \o b = EventsOf(ss) \o (EventsOf(p) \o b)
  BY <1>3, ConcatAssociative
<1> QED
  BY <1>2, <1>3, <1>4, <1>5

\* A prefix grows by one element.
LEMMA PrefixGrows ==
  ASSUME NEW S, NEW s \in Seq(S), NEW k \in 1 .. Len(s)
  PROVE  /\ SubSeq(s, 1, k - 1) \in Seq(S) /\ s[k] \in S
         /\ SubSeq(s, 1, k) = Append(SubSeq(s, 1, k - 1), s[k])
<1>1. k - 1 \in Int /\ 1 \in Int /\ \A i \in 1 .. (k - 1) : s[i] \in S
  OBVIOUS
<1>2. SubSeq(s, 1, k - 1) \in Seq(S)
  BY <1>1, SubSeqProperties
<1>3. s[k] \in S
  OBVIOUS
<1>4. SubSeq(s, 1, k) = SubSeq(s, 1, k - 1) \o <<s[k]>>
  <2>1. 1 \in 1 .. Len(s) /\ k \in 1 .. Len(s)
    OBVIOUS
  <2> QED
    BY <2>1, SubSeqRecursiveSecond
<1> QED
  BY <1>2, <1>3, <1>4, AppendIsConcat

\* EventsOf distributes over a queue and a prefix of another.
EventsJoin(ss, tt, k) ==
  EventsOf(ss \o SubSeq(tt, 1, k)) = EventsOf(ss) \o EventsOf(SubSeq(tt, 1, k))

\* The events of two queues, one behind the other.
LEMMA EventsOfConcat ==
  ASSUME NEW S, NEW ss \in Seq(Seq(S)), NEW tt \in Seq(Seq(S))
  PROVE  EventsOf(ss \o tt) = EventsOf(ss) \o EventsOf(tt)
<1> DEFINE Bad == {k \in 0 .. Len(tt) : ~EventsJoin(ss, tt, k)}
<1>1. ASSUME NEW k \in Bad, \A j \in Bad : k <= j PROVE FALSE
  <2>1. CASE k = 0
    <3>1. SubSeq(tt, 1, 0) = <<>>
      BY SubSeqEmpty
    <3>2. ss \o <<>> = ss
      BY ConcatEmptySeq
    <3>3. EventsOf(ss) \in Seq(S) /\ EventsOf(<<>>) = <<>>
      BY EventsOfAppend, <<>> \in Seq(S)
    <3>4. EventsOf(ss) \o <<>> = EventsOf(ss)
      BY <3>3, ConcatEmptySeq
    <3> QED
      BY <2>1, <3>1, <3>2, <3>3, <3>4 DEF EventsJoin
  <2>2. CASE k # 0
    <3>1. k - 1 \in 0 .. Len(tt) /\ k \in 1 .. Len(tt) /\ ~(k <= k - 1)
      BY <2>2
    <3>2. EventsJoin(ss, tt, k - 1)
      BY <1>1, <3>1
    <3>3. /\ SubSeq(tt, 1, k - 1) \in Seq(Seq(S)) /\ tt[k] \in Seq(S)
          /\ SubSeq(tt, 1, k) = Append(SubSeq(tt, 1, k - 1), tt[k])
      BY <3>1, PrefixGrows
    <3>4. EventsJoin(ss, tt, k)
      BY <3>2, <3>3, EventsOfConcatStep DEF EventsJoin
    <3> QED
      BY <3>4
  <2> QED
    BY <2>1, <2>2
<1>2. Bad = {}
  BY <1>1, LeastNumber, Bad \subseteq Nat
<1>3. EventsJoin(ss, tt, Len(tt))
  BY <1>2, Len(tt) \in 0 .. Len(tt)
<1> QED
  BY <1>3, SubSeqFull DEF EventsJoin

\* The recursion of batch_bytes, up to the n-th event.
Summing(b, n, f) ==
  f = [i \in 0 .. n |-> IF i = 0 THEN 0 ELSE f[i - 1] + Bytes[b[i]]]

\* The recursion has a solution.
LEMMA SummingExists ==
  ASSUME NEW b, NEW n \in Nat
  PROVE  \E f : Summing(b, n, f)
<1> DEFINE Bad == {m \in Nat : ~ \E f : Summing(b, m, f)}
<1> SUFFICES ASSUME Bad # {} PROVE FALSE
  OBVIOUS
<1>1. PICK m \in Bad : \A k \in Bad : m <= k
  BY LeastNumber, Bad \subseteq Nat
<1>2. m # 0
  <2> DEFINE f == [i \in 0 .. 0 |-> 0]
  <2>1. Summing(b, 0, f)
    BY DEF Summing
  <2> QED
    BY <2>1
<1>3. m - 1 \in Nat /\ m - 1 \notin Bad
  BY <1>1, <1>2
<1>4. PICK f : Summing(b, m - 1, f)
  BY <1>3
<1> DEFINE g == [i \in 0 .. m |-> IF i < m THEN f[i] ELSE f[m - 1] + Bytes[b[m]]]
<1>5. Summing(b, m, g)
  <2>1. \A i \in 0 .. (m - 1) : f[i] = IF i = 0 THEN 0 ELSE f[i - 1] + Bytes[b[i]]
    BY <1>4 DEF Summing
  <2>2. \A i \in 0 .. m : g[i] = IF i = 0 THEN 0 ELSE g[i - 1] + Bytes[b[i]]
    BY <1>2, <1>3, <2>1
  <2>3. g = [i \in 0 .. m |-> g[i]]
    OBVIOUS
  <2> HIDE DEF g
  <2> QED
    BY <2>2, <2>3 DEF Summing
<1> QED
  BY <1>5

\* batch_bytes is what the recursion yields at the end.
LEMMA BatchBytesIsSumming ==
  ASSUME NEW b, Len(b) \in Nat
  PROVE  \E f : Summing(b, Len(b), f) /\ batch_bytes(b) = f[Len(b)]
<1> DEFINE k == CHOOSE sum : sum =
                  [i \in 0 .. Len(b) |-> IF i = 0 THEN 0 ELSE sum[i - 1] + Bytes[b[i]]]
<1>1. batch_bytes(b) = k[Len(b)]
  BY DEF batch_bytes
<1>2. Summing(b, Len(b), k)
  <2>1. k = CHOOSE f : Summing(b, Len(b), f)
    BY DEF Summing
  <2>2. \E f : Summing(b, Len(b), f)
    BY SummingExists
  <2> HIDE DEF k
  <2> QED
    BY <2>1, <2>2
<1> QED
  BY <1>1, <1>2

\* Two solutions for batches that agree at the start agree there.
LEMMA SummingAgrees ==
  ASSUME NEW b, NEW c, NEW n \in Nat, NEW m \in Nat, m <= n, NEW f, NEW g,
         \A i \in 1 .. m : b[i] = c[i] /\ c[i] \in Events,
         Summing(b, n, f), Summing(c, m, g)
  PROVE  \A i \in 0 .. m : f[i] = g[i] /\ g[i] \in Nat
<1> DEFINE Bad == {i \in 0 .. m : ~(f[i] = g[i] /\ g[i] \in Nat)}
<1> SUFFICES ASSUME Bad # {} PROVE FALSE
  OBVIOUS
<1>1. PICK i \in Bad : \A k \in Bad : i <= k
  BY LeastNumber, Bad \subseteq Nat
<1>2. /\ f[i] = IF i = 0 THEN 0 ELSE f[i - 1] + Bytes[b[i]]
      /\ g[i] = IF i = 0 THEN 0 ELSE g[i - 1] + Bytes[c[i]]
  <2>1. \A j \in 0 .. n : f[j] = IF j = 0 THEN 0 ELSE f[j - 1] + Bytes[b[j]]
    BY DEF Summing
  <2>2. \A j \in 0 .. m : g[j] = IF j = 0 THEN 0 ELSE g[j - 1] + Bytes[c[j]]
    BY DEF Summing
  <2>3. i \in 0 .. n /\ i \in 0 .. m
    OBVIOUS
  <2> QED
    BY Zenon, <2>1, <2>2, <2>3
<1>3. CASE i = 0
  BY <1>2, <1>3
<1>4. CASE i # 0
  <2>1. i - 1 \in 0 .. m /\ i - 1 \notin Bad /\ i \in 1 .. m
    BY <1>1, <1>4
  <2>2. f[i - 1] = g[i - 1] /\ g[i - 1] \in Nat
    BY <2>1
  <2>3. Bytes[c[i]] \in Nat /\ b[i] = c[i]
    BY <2>1, PickerAssumption DEF Events
  <2> QED
    BY <1>2, <1>4, <2>2, <2>3
<1> QED
  BY <1>3, <1>4

\* The size of nothing, and of one event more.
LEMMA BatchBytesAppend ==
  ASSUME NEW b \in Seq(Events), NEW e \in Events
  PROVE  /\ batch_bytes(b) \in Nat
         /\ batch_bytes(Append(b, e)) = batch_bytes(b) + Bytes[e]
<1> DEFINE c == Append(b, e)
           n == Len(b)
<1>1. /\ n \in Nat /\ n + 1 \in Nat /\ n <= n + 1 /\ Len(c) = n + 1 /\ c[n + 1] = e
      /\ \A i \in 1 .. n : c[i] = b[i] /\ b[i] \in Events
  OBVIOUS
<1> HIDE DEF c
<1>2. PICK f : Summing(c, n + 1, f) /\ batch_bytes(c) = f[n + 1]
  BY <1>1, BatchBytesIsSumming
<1>3. PICK g : Summing(b, n, g) /\ batch_bytes(b) = g[n]
  BY <1>1, BatchBytesIsSumming
<1>4. f[n + 1] = f[n] + Bytes[e]
  <2>1. \A j \in 0 .. n + 1 : f[j] = IF j = 0 THEN 0 ELSE f[j - 1] + Bytes[c[j]]
    BY <1>2 DEF Summing
  <2>2. n + 1 \in 0 .. n + 1 /\ n + 1 # 0 /\ (n + 1) - 1 = n
    BY <1>1
  <2> QED
    BY <1>1, <2>1, <2>2
<1>5. f[n] = g[n] /\ g[n] \in Nat
  <2>1. n \in 0 .. n
    BY <1>1
  <2> HIDE DEF n
  <2> QED
    BY <1>1, <1>2, <1>3, <2>1, SummingAgrees
<1> QED
  BY <1>2, <1>3, <1>4, <1>5 DEF c

\* The size of no event at all.
LEMMA BatchBytesEmpty == batch_bytes(<<>>) = 0
<1>1. Len(<<>>) = 0
  OBVIOUS
<1>2. PICK f : Summing(<<>>, 0, f) /\ batch_bytes(<<>>) = f[0]
  BY <1>1, BatchBytesIsSumming
<1>3. \A j \in 0 .. 0 : f[j] = IF j = 0 THEN 0 ELSE f[j - 1] + Bytes[<<>>[j]]
  BY <1>2 DEF Summing
<1> QED
  BY <1>2, <1>3

\* Sizes add up over a batch and the first events of another.
BytesJoin(b, c, k) ==
  batch_bytes(b \o SubSeq(c, 1, k)) = batch_bytes(b) + batch_bytes(SubSeq(c, 1, k))

\* Sizes add up.
LEMMA BatchBytesConcat ==
  ASSUME NEW b \in Seq(Events), NEW c \in Seq(Events)
  PROVE  /\ batch_bytes(b) \in Nat /\ batch_bytes(c) \in Nat
         /\ batch_bytes(b \o c) = batch_bytes(b) + batch_bytes(c)
<1>0. \A d \in Seq(Events) : batch_bytes(d) \in Nat
  <2> SUFFICES ASSUME NEW d \in Seq(Events) PROVE batch_bytes(d) \in Nat
    OBVIOUS
  <2>1. CASE d = <<>>
    BY <2>1, BatchBytesEmpty
  <2>2. CASE d # <<>>
    BY <2>2, BatchBytesAppend, d[1] \in Events
  <2> QED
    BY <2>1, <2>2
<1> DEFINE Bad == {k \in 0 .. Len(c) : ~BytesJoin(b, c, k)}
<1>1. ASSUME NEW k \in Bad, \A j \in Bad : k <= j PROVE FALSE
  <2>1. CASE k = 0
    <3>1. SubSeq(c, 1, 0) = <<>>
      BY SubSeqEmpty
    <3>2. b \o <<>> = b
      BY ConcatEmptySeq
    <3>3. batch_bytes(b) \in Nat /\ batch_bytes(<<>>) = 0
      BY <1>0, BatchBytesEmpty
    <3>4. batch_bytes(b) = batch_bytes(b) + batch_bytes(<<>>)
      BY <3>3
    <3>5. BytesJoin(b, c, 0)
      BY Zenon, <3>1, <3>2, <3>4 DEF BytesJoin
    <3> QED
      BY <2>1, <3>5
  <2>2. CASE k # 0
    <3>1. k - 1 \in 0 .. Len(c) /\ k \in 1 .. Len(c) /\ ~(k <= k - 1)
      BY <2>2
    <3>2. BytesJoin(b, c, k - 1)
      BY <1>1, <3>1
    <3> DEFINE p == SubSeq(c, 1, k - 1)
               e == c[k]
    <3>3. p \in Seq(Events) /\ e \in Events /\ SubSeq(c, 1, k) = Append(p, e)
      BY <3>1, PrefixGrows
    <3>4. batch_bytes(b \o p) = batch_bytes(b) + batch_bytes(p)
      BY <3>2 DEF BytesJoin
    <3> HIDE DEF p, e
    <3>5. b \o p \in Seq(Events)
      BY <3>3, ConcatProperties
    <3>6. b \o Append(p, e) = Append(b \o p, e)
      <4>1. Append(p, e) = p \o <<e>> /\ <<e>> \in Seq(Events)
        BY <3>3, AppendIsConcat
      <4>2. Append(b \o p, e) = (b \o p) \o <<e>>
        BY <3>3, <3>5, AppendIsConcat
      <4> QED
        BY <3>3, <4>1, <4>2, ConcatAssociative
    <3>7. batch_bytes(Append(p, e)) = batch_bytes(p) + Bytes[e]
      BY <3>3, BatchBytesAppend
    <3>8. batch_bytes(Append(b \o p, e)) = batch_bytes(b \o p) + Bytes[e]
      BY <3>3, <3>5, BatchBytesAppend
    <3>9. batch_bytes(b) \in Nat /\ batch_bytes(p) \in Nat /\ Bytes[e] \in Nat
      BY <1>0, <3>3, PickerAssumption DEF Events
    <3>10. batch_bytes(Append(b \o p, e)) = batch_bytes(b) + batch_bytes(Append(p, e))
      BY <3>4, <3>7, <3>8, <3>9
    <3>11. BytesJoin(b, c, k)
      BY Zenon, <3>3, <3>6, <3>10 DEF BytesJoin
    <3> QED
      BY <3>11
  <2> QED
    BY <2>1, <2>2
<1>2. Bad = {}
  BY <1>1, LeastNumber, Bad \subseteq Nat
<1>3. BytesJoin(b, c, Len(c))
  BY <1>2, Len(c) \in 0 .. Len(c)
<1> QED
  BY <1>0, <1>3, SubSeqFull DEF BytesJoin

-----------------------------------------------------------------------------
(* What is taken off the pending queue *)

\* A queue of batches.
PendingTyped == pending \in Seq(Seq(Events)) /\ pending # <<>>

\* The events of the first batches, one batch more, and those left behind.
LEMMA FirstEventsGrow ==
  ASSUME PendingTyped, NEW k \in 1 .. Len(pending)
  PROVE  /\ FirstEvents(k - 1) \in Seq(Events) /\ pending[k] \in Seq(Events)
         /\ FirstEvents(k) = FirstEvents(k - 1) \o pending[k]
         /\ FirstEvents(k) \in Seq(Events)
         /\ Len(FirstEvents(k)) = Len(FirstEvents(k - 1)) + Len(pending[k])
         /\ SubSeq(pending, k + 1, Len(pending)) \in Seq(Seq(Events))
         /\ EventsOf(pending)
              = FirstEvents(k) \o EventsOf(SubSeq(pending, k + 1, Len(pending)))
<1> DEFINE p == SubSeq(pending, 1, k - 1)
           b == pending[k]
           q == SubSeq(pending, 1, k)
           r == SubSeq(pending, k + 1, Len(pending))
<1>1. p \in Seq(Seq(Events)) /\ b \in Seq(Events) /\ q = Append(p, b)
  BY PrefixGrows DEF PendingTyped
<1>2. r \in Seq(Seq(Events))
  <2>1. \A i \in (k + 1) .. Len(pending) : pending[i] \in Seq(Events)
    BY DEF PendingTyped
  <2>2. k + 1 \in Int /\ Len(pending) \in Int
    BY DEF PendingTyped
  <2> QED
    BY <2>1, <2>2, SubSeqProperties
<1>3. pending = q \o r
  <2>1. /\ 1 \in 1 .. Len(pending) + 1 /\ k \in (1 - 1) .. Len(pending)
        /\ Len(pending) \in k .. Len(pending)
    BY DEF PendingTyped
  <2>2. q \o r = SubSeq(pending, 1, Len(pending))
    BY <2>1, ConcatAdjacentSubSeq DEF PendingTyped
  <2> QED
    BY <2>2, SubSeqFull DEF PendingTyped
<1>4. FirstEvents(k - 1) = EventsOf(p) /\ FirstEvents(k) = EventsOf(q)
  BY DEF FirstEvents
<1> HIDE DEF p, b, q, r
<1>5. EventsOf(p) \in Seq(Events) /\ EventsOf(q) = EventsOf(p) \o b
  BY <1>1, EventsOfAppend
<1>6. EventsOf(q) \in Seq(Events) /\ Len(EventsOf(q)) = Len(EventsOf(p)) + Len(b)
  BY <1>1, <1>5, ConcatProperties
<1>7. q \in Seq(Seq(Events))
  BY <1>1, AppendProperties
<1>8. EventsOf(pending) = EventsOf(q) \o EventsOf(r)
  BY <1>2, <1>3, <1>7, EventsOfConcat
<1> QED
  BY <1>1, <1>2, <1>4, <1>5, <1>6, <1>8 DEF b, r

\* Where coalescing stops: at the batch that fills the payload, or at the last.
LEMMA MergingStops ==
  ASSUME PendingTyped
  PROVE  /\ Merging \in 1 .. Len(pending)
         /\ Len(FirstEvents(Merging)) >= CoalesceMax => Len(FirstEvents(Merging - 1)) < CoalesceMax
         /\ Len(FirstEvents(Merging)) < CoalesceMax => Merging = Len(pending)
         /\ FirstEvents(1) = pending[1]
         /\ Len(pending[1]) >= CoalesceMax => Merging = 1
<1>0. CoalesceMax \in Nat \ {0} /\ Len(pending) \in Nat \ {0}
  BY PickerAssumption, EmptySeq DEF PendingTyped
<1>1. FirstEvents(0) = <<>>
  <2>1. SubSeq(pending, 1, 0) = <<>>
    BY SubSeqEmpty
  <2>2. EventsOf(<<>>) = <<>>
    BY EventsOfAppend, <<>> \in Seq(Events), <<>> \in Seq(Seq(Events))
  <2> QED
    BY <2>1, <2>2 DEF FirstEvents
<1>2. FirstEvents(1) = pending[1]
  <2>1. /\ FirstEvents(1 - 1) \in Seq(Events) /\ pending[1] \in Seq(Events)
        /\ FirstEvents(1) = FirstEvents(1 - 1) \o pending[1]
    BY <1>0, FirstEventsGrow, 1 \in 1 .. Len(pending)
  <2>2. <<>> \o pending[1] = pending[1]
    BY <2>1, ConcatEmptySeq
  <2>3. 1 - 1 = 0
    OBVIOUS
  <2> QED
    BY Zenon, <1>1, <2>1, <2>2, <2>3
<1>3. \A k \in 0 .. Len(pending) : Len(FirstEvents(k)) \in Nat
  <2> SUFFICES ASSUME NEW k \in 0 .. Len(pending) PROVE FirstEvents(k) \in Seq(Events)
    BY LenProperties
  <2>1. CASE k = 0
    BY Zenon, <1>1, <2>1, EmptySeq
  <2>2. CASE k # 0
    <3>1. k \in 1 .. Len(pending)
      BY <1>0, <2>2
    <3> QED
      BY <3>1, FirstEventsGrow
  <2> QED
    BY <2>1, <2>2
<1> DEFINE F(k) == Len(FirstEvents(k))
           full == {k \in 1 .. Len(pending) : F(k) >= CoalesceMax}
<1>4. Merging = IF full = {} THEN Len(pending) ELSE CHOOSE k \in full : \A j \in full : k <= j
  BY DEF Merging
<1>5. F(0) = 0
  BY <1>1
<1> HIDE DEF F
<1>6. CASE full = {}
  <2>1. Merging = Len(pending)
    BY <1>4, <1>6
  <2>2. \A k \in 1 .. Len(pending) : ~(F(k) >= CoalesceMax)
    BY <1>6
  <2>3. Len(pending) \in 1 .. Len(pending) /\ 1 \in 1 .. Len(pending)
    BY <1>0
  <2>4. ~(F(Len(pending)) >= CoalesceMax) /\ ~(F(1) >= CoalesceMax)
    BY <2>2, <2>3
  <2>5. F(Merging) = F(Len(pending))
    BY <2>1
  <2> QED
    BY <1>2, <2>1, <2>3, <2>4, <2>5 DEF F
<1>7. CASE full # {}
  <2>1. \E k \in full : \A j \in full : k <= j
    BY <1>7, LeastNumber, full \subseteq Nat
  <2>2. Merging \in full /\ \A j \in full : Merging <= j
    <3> HIDE DEF full
    <3> QED
      BY <1>4, <1>7, <2>1
  <2> DEFINE m == Merging
  <2>3. m \in 1 .. Len(pending) /\ F(m) >= CoalesceMax
    BY <2>2
  <2>4. \A j \in 1 .. Len(pending) : F(j) >= CoalesceMax => m <= j
    BY <2>2
  <2> HIDE DEF m, full
  <2>5. F(m - 1) < CoalesceMax
    <3>1. CASE m = 1
      BY <1>0, <1>5, <3>1
    <3>2. CASE m # 1
      <4>1. m - 1 \in 1 .. Len(pending) /\ ~(m <= m - 1)
        BY <2>3, <3>2
      <4>2. F(m - 1) \in Nat
        BY <1>3, <4>1 DEF F
      <4>3. ~(F(m - 1) >= CoalesceMax)
        BY <2>4, <4>1
      <4> QED
        BY <1>0, <4>2, <4>3
    <3> QED
      BY <3>1, <3>2
  <2>6. F(1) >= CoalesceMax => m = 1
    <3>1. 1 \in 1 .. Len(pending)
      BY <1>0
    <3>2. F(1) >= CoalesceMax => m <= 1
      BY <2>4, <3>1
    <3> QED
      BY <2>3, <3>2
  <2>7. ~(F(m) < CoalesceMax)
    <3>1. F(m) \in Nat
      BY <1>3, <2>3 DEF F
    <3> QED
      BY <1>0, <2>3, <3>1
  <2> QED
    BY <1>2, <2>3, <2>5, <2>6, <2>7 DEF F, m
<1> QED
  BY <1>6, <1>7

\* Cutting a sequence in two.
LEMMA CutInTwo ==
  ASSUME NEW S, NEW s \in Seq(S), NEW k \in 0 .. Len(s)
  PROVE  /\ SubSeq(s, 1, k) \in Seq(S) /\ Len(SubSeq(s, 1, k)) = k
         /\ SubSeq(s, k + 1, Len(s)) \in Seq(S)
         /\ Len(SubSeq(s, k + 1, Len(s))) = Len(s) - k
         /\ s = SubSeq(s, 1, k) \o SubSeq(s, k + 1, Len(s))
<1>1. /\ \A i \in 1 .. k : s[i] \in S
      /\ \A i \in (k + 1) .. Len(s) : s[i] \in S
      /\ k \in Int /\ k + 1 \in Int /\ Len(s) \in Int /\ 1 \in Int
  OBVIOUS
<1>2. /\ SubSeq(s, 1, k) \in Seq(S)
      /\ Len(SubSeq(s, 1, k)) = IF 1 <= k THEN k - 1 + 1 ELSE 0
  BY <1>1, SubSeqProperties
<1>3. /\ SubSeq(s, k + 1, Len(s)) \in Seq(S)
      /\ Len(SubSeq(s, k + 1, Len(s)))
           = IF k + 1 <= Len(s) THEN Len(s) - (k + 1) + 1 ELSE 0
  BY <1>1, SubSeqProperties
<1>4. SubSeq(s, 1, k) \o SubSeq(s, k + 1, Len(s)) = SubSeq(s, 1, Len(s))
  <2>1. 1 \in 1 .. Len(s) + 1 /\ k \in (1 - 1) .. Len(s) /\ Len(s) \in k .. Len(s)
    OBVIOUS
  <2> QED
    BY <2>1, ConcatAdjacentSubSeq
<1>5. Len(SubSeq(s, 1, k)) = k
  BY <1>1, <1>2
<1>6. Len(SubSeq(s, k + 1, Len(s))) = Len(s) - k
  BY <1>1, <1>3
<1>7. SubSeq(s, 1, Len(s)) = s
  BY SubSeqFull
<1> QED
  BY Zenon, <1>2, <1>3, <1>4, <1>5, <1>6, <1>7

\* The merged payload and what is split off it.
LEMMA MergedAndSplitOff ==
  ASSUME PendingTyped
  PROVE  /\ Merged \in Seq(Events) /\ SplitOff \in Seq(Events)
         /\ FirstEvents(Merging) = Merged \o SplitOff
         /\ Len(Merged) <= CoalesceMax
         /\ SplitOff # <<>> => /\ Len(Merged) = CoalesceMax
                               /\ Len(SplitOff) < Len(pending[Merging])
                               /\ Len(pending[Merging]) <= CoalesceMax + Len(SplitOff)
         /\ SplitOff = <<>> => Len(FirstEvents(Merging)) <= CoalesceMax
<1> DEFINE E == FirstEvents(Merging)
           L == Len(E)
           D == FirstEvents(Merging - 1)
           b == pending[Merging]
           k == MinOf(L, CoalesceMax)
<1>1. CoalesceMax \in Nat \ {0} /\ Merging \in 1 .. Len(pending)
  BY PickerAssumption, MergingStops
<1>2. /\ D \in Seq(Events) /\ b \in Seq(Events) /\ E \in Seq(Events)
      /\ L = Len(D) + Len(b)
  BY <1>1, FirstEventsGrow
<1>3. L >= CoalesceMax => Len(D) < CoalesceMax
  BY MergingStops
<1>4. Merged = SubSeq(E, 1, k) /\ SplitOff = SubSeq(E, Len(Merged) + 1, L)
  BY DEF Merged, SplitOff
<1> HIDE DEF E, D, b
<1>5. L \in Nat /\ Len(D) \in Nat /\ Len(b) \in Nat
  BY <1>2, LenProperties
<1>6. k \in 0 .. L /\ (L > CoalesceMax => k = CoalesceMax) /\ (L <= CoalesceMax => k = L)
  <2> HIDE DEF L
  <2> QED
    BY <1>1, <1>5 DEF MinOf
<1> HIDE DEF k
<1>7. /\ Merged \in Seq(Events) /\ Len(Merged) = k
  BY <1>2, <1>4, <1>6, CutInTwo
<1>8. /\ SplitOff \in Seq(Events) /\ Len(SplitOff) = L - k
      /\ E = Merged \o SplitOff
  BY <1>2, <1>4, <1>6, <1>7, CutInTwo
<1>9. SplitOff = <<>> <=> Len(SplitOff) = 0
  BY <1>8, EmptySeq
<1> HIDE DEF L
<1>10. Len(Merged) <= CoalesceMax
  BY <1>1, <1>5, <1>6, <1>7
<1>11. SplitOff # <<>> => Len(Merged) = CoalesceMax /\ Len(SplitOff) < Len(b)
                          /\ Len(b) <= CoalesceMax + Len(SplitOff)
  BY <1>1, <1>2, <1>3, <1>5, <1>6, <1>7, <1>8, <1>9
<1>12. SplitOff = <<>> => L <= CoalesceMax
  BY <1>1, <1>5, <1>6, <1>8, <1>9
<1> QED
  BY <1>7, <1>8, <1>10, <1>11, <1>12 DEF E, L, b

\* A payload taken off the queue, and the queue and byte count without it.
TakenOff(payload, rest, bytes) ==
  /\ payload \in Seq(Events) /\ rest \in Seq(Seq(Events))
  /\ EventsOf(pending) = payload \o EventsOf(rest)
  /\ bytes = batch_bytes(EventsOf(rest))
  /\ Len(rest) <= Len(pending)
  /\ Len(rest) = Len(pending) => Len(payload) = CoalesceMax /\ Len(pending[1]) > CoalesceMax
  /\ Len(pending[1]) = CoalesceMax => Len(rest) < Len(pending) /\ Len(payload) = CoalesceMax
  /\ Len(payload) > CoalesceMax => Len(pending[1]) > CoalesceMax
  /\ \A j \in 1 .. Len(rest) : \E i \in 1 .. Len(pending) : Len(rest[j]) <= Len(pending[i])

\* pending_bytes without the payload.
LEMMA BytesTakenOff ==
  ASSUME NEW p \in Seq(Events), NEW r \in Seq(Seq(Events)),
         EventsOf(pending) = p \o EventsOf(r),
         pendingBytes = batch_bytes(EventsOf(pending))
  PROVE  /\ pendingBytes - batch_bytes(p) = batch_bytes(EventsOf(r))
         /\ batch_bytes(p) \in Nat /\ batch_bytes(EventsOf(r)) \in Nat
         /\ EventsOf(r) \in Seq(Events)
<1>1. EventsOf(r) \in Seq(Events)
  BY EventsOfAppend
<1>2. /\ batch_bytes(p) \in Nat /\ batch_bytes(EventsOf(r)) \in Nat
      /\ batch_bytes(p \o EventsOf(r)) = batch_bytes(p) + batch_bytes(EventsOf(r))
  BY <1>1, BatchBytesConcat
<1> QED
  BY <1>1, <1>2

\* Popping one batch.
LEMMA HeadTakenOff ==
  ASSUME PendingTyped, pendingBytes = batch_bytes(EventsOf(pending))
  PROVE  TakenOff(Head(pending), Tail(pending), pendingBytes - batch_bytes(Head(pending)))
<1> DEFINE h == Head(pending)
           t == Tail(pending)
<1>1. /\ h \in Seq(Events) /\ t \in Seq(Seq(Events)) /\ Len(t) = Len(pending) - 1
      /\ \A i \in 1 .. Len(t) : t[i] = pending[i + 1]
  BY HeadTailProperties DEF PendingTyped
<1>2. h = pending[1] /\ Len(pending) \in Nat \ {0}
  BY EmptySeq DEF PendingTyped
<1>3. t = SubSeq(pending, 1 + 1, Len(pending))
  BY TailIsSubSeq DEF PendingTyped
<1>4. EventsOf(pending) = h \o EventsOf(t)
  <2>1. 1 \in 1 .. Len(pending)
    BY <1>2
  <2>2. EventsOf(pending)
          = FirstEvents(1) \o EventsOf(SubSeq(pending, 1 + 1, Len(pending)))
    BY <2>1, FirstEventsGrow
  <2> QED
    BY <1>2, <1>3, <2>2, MergingStops
<1> HIDE DEF h, t
<1>5. pendingBytes - batch_bytes(h) = batch_bytes(EventsOf(t))
  BY <1>1, <1>4, BytesTakenOff
<1>6. \A j \in 1 .. Len(t) : \E i \in 1 .. Len(pending) : Len(t[j]) <= Len(pending[i])
  <2> SUFFICES ASSUME NEW j \in 1 .. Len(t)
               PROVE  \E i \in 1 .. Len(pending) : Len(t[j]) <= Len(pending[i])
    OBVIOUS
  <2>1. j + 1 \in 1 .. Len(pending) /\ t[j] = pending[j + 1]
    BY <1>1, <1>2
  <2>2. Len(t[j]) \in Nat
    BY <1>1
  <2> QED
    BY <2>1, <2>2
<1>7. Len(t) < Len(pending) /\ Len(t) <= Len(pending) /\ Len(t) # Len(pending)
  BY <1>1, <1>2
<1>8. TakenOff(h, t, pendingBytes - batch_bytes(h))
  BY Zenon, <1>1, <1>2, <1>4, <1>5, <1>6, <1>7 DEF TakenOff
<1> QED
  BY <1>8 DEF h, t

\* Coalescing the front of the queue.
LEMMA CoalescedTakenOff ==
  ASSUME PendingTyped, pendingBytes = batch_bytes(EventsOf(pending))
  PROVE  TakenOff(coalesce_pending_front.payload, coalesce_pending_front.rest,
                  coalesce_pending_front.bytes)
<1> DEFINE M == Merging
           E == FirstEvents(M)
           x == IF SplitOff = <<>> THEN <<>> ELSE <<SplitOff>>
           r == SubSeq(pending, M + 1, Len(pending))
           rest == x \o r
           bytes == pendingBytes - batch_bytes(E) + batch_bytes(SplitOff)
<1>1. /\ coalesce_pending_front.payload = Merged
      /\ coalesce_pending_front.rest = rest /\ coalesce_pending_front.bytes = bytes
  BY DEF coalesce_pending_front
<1>2. CoalesceMax \in Nat \ {0} /\ Len(pending) \in Nat \ {0} /\ M \in 1 .. Len(pending)
  BY PickerAssumption, MergingStops, EmptySeq DEF PendingTyped
<1>3. /\ E \in Seq(Events) /\ r \in Seq(Seq(Events))
      /\ EventsOf(pending) = E \o EventsOf(r)
  BY <1>2, FirstEventsGrow
<1>4. Len(r) = Len(pending) - M /\ \A i \in 1 .. Len(r) : r[i] = pending[M + i]
  <2>1. /\ \A i \in (M + 1) .. Len(pending) : pending[i] \in Seq(Events)
        /\ M + 1 \in Int /\ Len(pending) \in Int
    BY <1>2 DEF PendingTyped
  <2>2. /\ Len(r) = IF M + 1 <= Len(pending) THEN Len(pending) - (M + 1) + 1 ELSE 0
        /\ \A i \in 1 .. Len(pending) - (M + 1) + 1 : r[i] = pending[M + 1 + i - 1]
    BY <2>1, SubSeqProperties
  <2> HIDE DEF M, r
  <2>3. Len(r) = Len(pending) - M
    BY <1>2, <2>2
  <2>4. ASSUME NEW i \in 1 .. Len(r) PROVE r[i] = pending[M + i]
    BY <1>2, <2>2, <2>3, <2>4, M + 1 + i - 1 = M + i
  <2> QED
    BY <2>3, <2>4
<1>5. /\ Merged \in Seq(Events) /\ SplitOff \in Seq(Events) /\ E = Merged \o SplitOff
      /\ Len(Merged) <= CoalesceMax
      /\ SplitOff # <<>> => Len(Merged) = CoalesceMax /\ Len(SplitOff) < Len(pending[M])
      /\ SplitOff = <<>> => Len(E) <= CoalesceMax
  BY MergedAndSplitOff
<1>6. /\ Len(pending[1]) >= CoalesceMax => M = 1
      /\ M = 1 => E = pending[1]
  BY MergingStops
<1> HIDE DEF M, E, r
<1>7. /\ x \in Seq(Seq(Events)) /\ EventsOf(x) = SplitOff
      /\ Len(x) = IF SplitOff = <<>> THEN 0 ELSE 1
      /\ SplitOff # <<>> => x[1] = SplitOff
  <2>1. /\ EventsOf(<<>>) = <<>>
        /\ EventsOf(Append(<<>>, SplitOff)) = EventsOf(<<>>) \o SplitOff
    BY <1>5, EventsOfAppend, <<>> \in Seq(Seq(Events))
  <2>2. Append(<<>>, SplitOff) = <<SplitOff>> /\ <<>> \o SplitOff = SplitOff
    BY <1>5, ConcatEmptySeq
  <2>3. CASE SplitOff = <<>>
    <3>1. x = <<>>
      BY <2>3
    <3> QED
      BY <2>1, <2>3, <3>1
  <2>4. CASE SplitOff # <<>>
    <3>1. x = <<SplitOff>>
      BY <2>4
    <3>2. EventsOf(<<SplitOff>>) = SplitOff
      BY <2>1, <2>2
    <3>3. <<SplitOff>> \in Seq(Seq(Events)) /\ Len(<<SplitOff>>) = 1 /\ <<SplitOff>>[1] = SplitOff
      BY <1>5
    <3> QED
      BY <2>4, <3>1, <3>2, <3>3
  <2> QED
    BY <2>3, <2>4
<1> HIDE DEF x
<1>8. /\ rest \in Seq(Seq(Events)) /\ Len(rest) = Len(x) + Len(r)
      /\ \A i \in 1 .. Len(x) + Len(r) : rest[i] = IF i <= Len(x) THEN x[i] ELSE r[i - Len(x)]
  BY <1>3, <1>7, ConcatProperties
<1>9. EventsOf(rest) = SplitOff \o EventsOf(r)
  BY <1>3, <1>7, EventsOfConcat
<1>10. /\ pendingBytes - batch_bytes(E) = batch_bytes(EventsOf(r))
       /\ batch_bytes(E) \in Nat /\ EventsOf(r) \in Seq(Events)
  BY <1>3, BytesTakenOff
<1>11. EventsOf(pending) = Merged \o EventsOf(rest)
  <2>1. (Merged \o SplitOff) \o EventsOf(r) = Merged \o (SplitOff \o EventsOf(r))
    BY <1>5, <1>10, ConcatAssociative
  <2> QED
    BY Zenon, <1>3, <1>5, <1>9, <2>1
<1>12. bytes = batch_bytes(EventsOf(rest))
  <2>1. /\ batch_bytes(SplitOff) \in Nat /\ batch_bytes(EventsOf(r)) \in Nat
        /\ batch_bytes(SplitOff \o EventsOf(r))
             = batch_bytes(SplitOff) + batch_bytes(EventsOf(r))
    BY <1>5, <1>10, BatchBytesConcat
  <2> QED
    BY <1>9, <1>10, <2>1
<1> HIDE DEF rest, bytes
<1>13. /\ Len(Merged) \in Nat /\ Len(SplitOff) \in Nat /\ (SplitOff # <<>> => Len(SplitOff) # 0)
       /\ Len(E) = Len(Merged) + Len(SplitOff)
  BY <1>5, ConcatProperties, EmptySeq, LenProperties
<1>14. /\ Len(rest) <= Len(pending)
       /\ Len(rest) = Len(pending) => SplitOff # <<>> /\ M = 1
       /\ SplitOff = <<>> => Len(rest) < Len(pending)
  BY <1>2, <1>4, <1>7, <1>8
<1>15. Len(rest) = Len(pending) => Len(Merged) = CoalesceMax /\ Len(pending[1]) > CoalesceMax
  BY <1>2, <1>5, <1>6, <1>13, <1>14
<1>16. Len(pending[1]) = CoalesceMax => SplitOff = <<>> /\ Len(Merged) = CoalesceMax
  <2> SUFFICES ASSUME Len(pending[1]) = CoalesceMax
               PROVE  SplitOff = <<>> /\ Len(Merged) = CoalesceMax
    OBVIOUS
  <2>1. Len(E) = CoalesceMax
    BY <1>2, <1>6
  <2>2. SplitOff = <<>>
    BY <1>2, <1>5, <1>13, <2>1
  <2>3. Len(SplitOff) = 0
    BY <2>2
  <2> QED
    BY <1>13, <2>1, <2>2, <2>3
<1>17. \A j \in 1 .. Len(rest) : \E i \in 1 .. Len(pending) : Len(rest[j]) <= Len(pending[i])
  <2> SUFFICES ASSUME NEW j \in 1 .. Len(rest)
               PROVE  \E i \in 1 .. Len(pending) : Len(rest[j]) <= Len(pending[i])
    OBVIOUS
  <2>1. \A i \in 1 .. Len(pending) : Len(pending[i]) \in Nat
    BY DEF PendingTyped
  <2>2. CASE j <= Len(x)
    <3>1. SplitOff # <<>> /\ j = 1 /\ rest[j] = SplitOff
      BY <1>7, <1>8, <2>2
    <3>2. Len(SplitOff) < Len(pending[M])
      BY <1>5, <3>1
    <3>3. Len(SplitOff) <= Len(pending[M])
      BY <1>2, <1>13, <2>1, <3>2
    <3> QED
      BY <1>2, <3>1, <3>3
  <2>3. CASE ~(j <= Len(x))
    <3>1. j - Len(x) \in 1 .. Len(r) /\ rest[j] = r[j - Len(x)]
      BY <1>2, <1>4, <1>7, <1>8, <2>3
    <3>2. M + (j - Len(x)) \in 1 .. Len(pending) /\ rest[j] = pending[M + (j - Len(x))]
      BY <1>2, <1>4, <3>1
    <3> QED
      BY <2>1, <3>2
  <2> QED
    BY <2>2, <2>3
<1>18. ~(Len(Merged) > CoalesceMax)
  BY <1>2, <1>5, <1>13
<1> QED
  BY <1>1, <1>5, <1>8, <1>11, <1>12, <1>14, <1>15, <1>16, <1>17, <1>18 DEF TakenOff

\* pop_next_payload_for_post takes the front of the queue, with its bytes.
LEMMA PopTakesOff ==
  ASSUME PendingTyped, pendingBytes = batch_bytes(EventsOf(pending))
  PROVE  TakenOff(pop_next_payload_for_post.payload, pop_next_payload_for_post.rest,
                  pop_next_payload_for_post.bytes)
<1>1. CASE Len(pending) >= CoalesceTrigger
  BY <1>1, CoalescedTakenOff DEF pop_next_payload_for_post
<1>2. CASE ~(Len(pending) >= CoalesceTrigger)
  <2>1. /\ pop_next_payload_for_post.payload = Head(pending)
        /\ pop_next_payload_for_post.rest = Tail(pending)
        /\ pop_next_payload_for_post.bytes = pendingBytes - batch_bytes(Head(pending))
    BY <1>2 DEF pop_next_payload_for_post
  <2> QED
    BY <2>1, HeadTakenOff
<1> QED
  BY <1>1, <1>2

-----------------------------------------------------------------------------
(* The steps *)

\* A step that leaves the queue alone.
LEMMA QueueKept ==
  ASSUME PickerInv, UNCHANGED <<mode, srcPos, taken, posted, pending, pendingBytes>>,
         skip' \in 0 .. MaxBackoff, backoff' \in 1 .. MaxBackoff,
         budget' \in Nat, left' \in Nat, FetchHasRoom'
  PROVE  PickerInv'
<1>1. PickerType'
  BY Zenon DEF PickerInv, PickerType
<1>2. NothingLeaksFromPending'
  BY Zenon DEF PickerInv, NothingLeaksFromPending, batch_bytes
<1>3. Oversize' = Oversize /\ LongIsOversize' /\ FullPayloadFirst'
  BY Zenon DEF PickerInv, LongIsOversize, FullPayloadFirst, Oversize
<1>4. BytesBounded'
  BY Zenon DEF PickerInv, BytesBounded
<1> QED
  BY Zenon, <1>1, <1>2, <1>3, <1>4 DEF PickerInv

\* The pull plan leaves room: the budget is cut to what the watermark allows.
LEMMA StartRoundStep == ASSUME PickerInv, StartRound PROVE PickerInv'
<1> DEFINE pull == PullBudget > 0 /\ ~pending_bytes_at_capacity
<1>1. /\ UNCHANGED <<mode, srcPos, taken, posted, pending, pendingBytes, skip, backoff, left>>
      /\ budget' = PullBudget /\ (pc' = "fetch" => pull)
  BY DEF StartRound
<1>2. /\ pendingBytes \in Nat /\ Len(pending) \in Nat /\ left \in Nat
      /\ skip \in 0 .. MaxBackoff /\ backoff \in 1 .. MaxBackoff
  BY DEF PickerInv, PickerType
<1>3. Burst \in Nat \ {0} /\ MaxBytes \in Nat
  BY PickerAssumption
<1>4. PullBudget \in Nat /\ (~mode.fixed /\ PullBudget > 0 => Len(pending) + PullBudget <= Hi)
  BY <1>2, <1>3 DEF PullBudget, Hi, MinOf
<1>5. pull => pendingBytes < MaxBytes
  BY <1>2, <1>3 DEF pending_bytes_at_capacity
<1> HIDE DEF pull
<1>6. pull => PullBudget > 0
  BY DEF pull
<1>7. FetchHasRoom'
  <2>1. Hi' = Hi
    BY DEF Hi
  <2> QED
    BY <1>1, <1>4, <1>5, <1>6, <2>1 DEF FetchHasRoom
<1> QED
  BY <1>1, <1>2, <1>4, <1>7, QueueKept

\* A source that yields a batch: it goes to the end of the queue.
LEMMA FetchBatchStep == ASSUME PickerInv, FetchBatch PROVE PickerInv'
<1> DEFINE batch == Script[srcPos + 1]
<1>1. /\ UNCHANGED <<mode, posted, skip, backoff, left>>
      /\ pc = "fetch" /\ srcPos < Len(Script) /\ srcPos' = srcPos + 1
      /\ pending' = Append(pending, batch) /\ pendingBytes' = pendingBytes + batch_bytes(batch)
      /\ taken' = taken \o batch /\ budget' = budget - 1
      /\ pc' = "fetch" => budget # 1 /\ ~(pendingBytes' >= MaxBytes)
  BY DEF FetchBatch, MayRead, FetchEnds
<1>2. PickerType /\ MaxBytes \in Nat /\ Script \in Seq(Seq(Events)) /\ CoalesceMax \in Nat
  BY PickerAssumption DEF PickerInv, Events
<1>3. /\ srcPos \in Nat /\ srcPos + 1 \in 1 .. Len(Script) /\ batch \in Seq(Events)
  BY <1>1, <1>2 DEF PickerType
<1>4. /\ pending \in Seq(Seq(Events)) /\ Len(pending) \in Nat /\ taken \in Seq(Events)
      /\ posted \in Seq(Events) /\ pendingBytes \in Nat /\ budget \in Nat
      /\ pendingBytes < MaxBytes /\ budget > 0
      /\ ~mode.fixed => Len(pending) + budget <= Hi
  BY <1>1, <1>2 DEF PickerInv, PickerType, FetchHasRoom
<1>5. batch_bytes(batch) \in Nat
  BY <1>3, BatchBytesConcat
<1> HIDE DEF batch
<1>6. /\ pending' \in Seq(Seq(Events)) /\ Len(pending') = Len(pending) + 1
      /\ \A j \in 1 .. Len(pending) : pending'[j] = pending[j]
      /\ pending'[Len(pending) + 1] = batch
  BY <1>1, <1>3, <1>4, AppendProperties
<1>7. taken' \in Seq(Events)
  BY <1>1, <1>3, <1>4, ConcatProperties
<1>8. pendingBytes' \in Nat /\ budget' \in Nat /\ srcPos' \in 0 .. Len(Script)
  BY <1>1, <1>3, <1>4, <1>5
<1>9. PickerType'
  BY Zenon, <1>1, <1>2, <1>6, <1>7, <1>8 DEF PickerType
<1>10. NothingLeaksFromPending'
  <2> DEFINE F == EventsOf(pending)
  <2>1. F \in Seq(Events) /\ EventsOf(Append(pending, batch)) = F \o batch
    BY <1>3, <1>4, EventsOfAppend
  <2>2. posted \o F = taken /\ pendingBytes = batch_bytes(F)
    BY Zenon DEF PickerInv, NothingLeaksFromPending
  <2> HIDE DEF F
  <2>3. (posted \o F) \o batch = posted \o (F \o batch)
    <3>1. posted \in Seq(Events) /\ F \in Seq(Events) /\ batch \in Seq(Events)
      BY Zenon, <1>3, <1>4, <2>1
    <3> QED
      BY <3>1, ConcatAssociative
  <2>4. batch_bytes(F \o batch) = batch_bytes(F) + batch_bytes(batch)
    BY <1>3, <2>1, BatchBytesConcat
  <2>5. /\ posted' \o EventsOf(pending') = taken'
        /\ pendingBytes' = batch_bytes(EventsOf(pending'))
    BY Zenon, <1>1, <2>1, <2>2, <2>3, <2>4
  <2> QED
    BY Zenon, <2>5 DEF NothingLeaksFromPending, batch_bytes
<1>11. /\ Oversize => Oversize'
       /\ Len(batch) > CoalesceMax => Oversize'
  <2>1. \A i \in 1 .. srcPos : i \in 1 .. srcPos'
    BY <1>1, <1>3
  <2>2. srcPos + 1 \in 1 .. srcPos'
    BY <1>1, <1>3
  <2> QED
    BY Zenon, <2>1, <2>2 DEF Oversize, batch
<1>12. LongIsOversize'
  <2> SUFFICES ASSUME NEW j \in 1 .. Len(pending'), Len(pending'[j]) > CoalesceMax
               PROVE  Oversize'
    BY Zenon DEF LongIsOversize
  <2>1. CASE j = Len(pending) + 1
    BY Zenon, <1>6, <1>11, <2>1
  <2>2. CASE j # Len(pending) + 1
    <3>1. j \in 1 .. Len(pending)
      BY <1>4, <1>6, <2>2
    <3> QED
      BY Zenon, <1>6, <1>11, <3>1 DEF PickerInv, LongIsOversize
  <2> QED
    BY <2>1, <2>2
<1>13. Hi' = Hi /\ Hi \in Nat
  BY PickerAssumption DEF Hi
<1>14. /\ Len(pending) + budget <= Hi =>
             Len(pending') + budget' <= Hi /\ Len(pending') <= Hi
       /\ pc' = "fetch" => pendingBytes' < MaxBytes /\ budget' > 0
  BY <1>1, <1>2, <1>4, <1>5, <1>6, <1>8, <1>13
<1>15. FetchHasRoom' /\ FullPayloadFirst'
  BY Zenon, <1>1, <1>4, <1>13, <1>14 DEF FetchHasRoom, FullPayloadFirst
<1>16. BytesBounded'
  <2>1. srcPos + 1 \in 1 .. srcPos'
    BY <1>1, <1>3
  <2>2. pendingBytes' - batch_bytes(Script[srcPos + 1]) < MaxBytes
    BY <1>1, <1>4, <1>5 DEF batch
  <2> QED
    BY Zenon, <2>1, <2>2 DEF BytesBounded
<1> QED
  BY Zenon, <1>9, <1>10, <1>12, <1>15, <1>16 DEF PickerInv

\* An empty batch of a non-blocking source only moves the source on.
LEMMA FetchEmptyStep == ASSUME PickerInv, FetchEmpty PROVE PickerInv'
<1>1. /\ UNCHANGED <<mode, taken, pending, pendingBytes, skip, backoff, posted, budget, left>>
      /\ srcPos < Len(Script) /\ srcPos' = srcPos + 1 /\ pc' = "plan"
  BY DEF FetchEmpty, FetchEnds
<1>2. Script \in Seq(Seq(Events)) /\ srcPos \in 0 .. Len(Script)
  BY PickerAssumption DEF PickerInv, PickerType, Events
<1>3. srcPos' \in 0 .. Len(Script) /\ \A i \in 1 .. srcPos : i \in 1 .. srcPos'
  BY <1>1, <1>2
<1>4. PickerType'
  BY Zenon, <1>1, <1>3 DEF PickerInv, PickerType
<1>5. NothingLeaksFromPending'
  BY Zenon, <1>1 DEF PickerInv, NothingLeaksFromPending, batch_bytes
<1>6. Oversize => Oversize'
  BY Zenon, <1>3 DEF Oversize
<1>7. LongIsOversize' /\ FullPayloadFirst'
  BY Zenon, <1>1, <1>6 DEF PickerInv, LongIsOversize, FullPayloadFirst
<1>8. BytesBounded'
  BY Zenon, <1>1, <1>3 DEF PickerInv, BytesBounded
<1>9. FetchHasRoom'
  BY <1>1 DEF FetchHasRoom
<1> QED
  BY Zenon, <1>4, <1>5, <1>7, <1>8, <1>9 DEF PickerInv

\* What the assumptions say of the bounds.
LEMMA BoundsTyped ==
  /\ CoalesceMax \in Nat /\ MaxBytes \in Nat /\ Hi \in Nat /\ MaxBackoff \in Nat
  /\ Script \in Seq(Seq(Events))
<1>1. /\ CoalesceMax \in Nat /\ MaxBytes \in Nat /\ MaxBackoff \in Nat /\ Burst \in Nat
  BY PickerAssumption
<1>2. Hi \in Nat
  BY <1>1 DEF Hi
<1>3. Script \in Seq(Seq(Events))
  BY Zenon, PickerAssumption DEF Events
<1> QED
  BY <1>1, <1>2, <1>3

\* A batch the source gave is a sequence of events.
LEMMA ScriptBatch ==
  ASSUME srcPos \in 0 .. Len(Script), NEW i \in 1 .. srcPos
  PROVE  Script[i] \in Seq(Events) /\ batch_bytes(Script[i]) \in Nat
<1>1. Script \in Seq(Seq(Events))
  BY Zenon, BoundsTyped
<1>2. i \in 1 .. Len(Script)
  BY <1>1
<1>3. Script[i] \in Seq(Events)
  BY <1>1, <1>2
<1> QED
  BY Zenon, <1>3, BatchBytesConcat

\* What is known of the bytes of a payload taken off.
LEMMA TakenOffBytes ==
  ASSUME PickerInv, NEW p, NEW r, NEW b, TakenOff(p, r, b)
  PROVE  /\ b \in Nat /\ batch_bytes(p) \in Nat /\ b + batch_bytes(p) = pendingBytes
         /\ EventsOf(r) \in Seq(Events)
<1>1. /\ p \in Seq(Events) /\ r \in Seq(Seq(Events)) /\ b = batch_bytes(EventsOf(r))
      /\ EventsOf(pending) = p \o EventsOf(r)
  BY Zenon DEF TakenOff
<1>2. pendingBytes = batch_bytes(EventsOf(pending)) /\ pendingBytes \in Nat
  BY Zenon DEF PickerInv, PickerType, NothingLeaksFromPending
<1>3. /\ pendingBytes - batch_bytes(p) = batch_bytes(EventsOf(r))
      /\ batch_bytes(p) \in Nat /\ batch_bytes(EventsOf(r)) \in Nat
      /\ EventsOf(r) \in Seq(Events)
  BY <1>1, <1>2, BytesTakenOff
<1> QED
  BY <1>1, <1>2, <1>3

\* The payload is gone: a parse channel has it, or it was empty.
LEMMA PostedOff ==
  ASSUME PickerInv, NEW p, NEW r, NEW b, TakenOff(p, r, b),
         UNCHANGED <<mode, srcPos, taken, skip, backoff, budget>>, left' \in Nat,
         pending' = r, pendingBytes' = b, posted' = posted \o p, pc' # "fetch"
  PROVE  PickerInv'
<1>1. /\ p \in Seq(Events) /\ r \in Seq(Seq(Events)) /\ b = batch_bytes(EventsOf(r))
      /\ EventsOf(pending) = p \o EventsOf(r)
      /\ Len(r) <= Len(pending)
      /\ Len(pending[1]) = CoalesceMax => Len(r) < Len(pending)
      /\ \A j \in 1 .. Len(r) : \E i \in 1 .. Len(pending) : Len(r[j]) <= Len(pending[i])
  BY Zenon DEF TakenOff
<1>2. /\ b \in Nat /\ batch_bytes(p) \in Nat /\ b + batch_bytes(p) = pendingBytes
      /\ EventsOf(r) \in Seq(Events)
  BY TakenOffBytes
<1>3. /\ posted \in Seq(Events) /\ pending \in Seq(Seq(Events))
      /\ posted \o EventsOf(pending) = taken /\ srcPos \in 0 .. Len(Script)
  BY Zenon DEF PickerInv, PickerType, NothingLeaksFromPending
<1>4. PickerType'
  <2>1. posted \o p \in Seq(Events)
    BY <1>1, <1>3, ConcatProperties
  <2> QED
    BY Zenon, <1>1, <1>2, <2>1 DEF PickerInv, PickerType
<1>5. NothingLeaksFromPending'
  <2> DEFINE rest == EventsOf(r)
  <2>0. rest \in Seq(Events) /\ p \in Seq(Events) /\ posted \in Seq(Events)
    BY Zenon, <1>1, <1>2, <1>3
  <2> HIDE DEF rest
  <2>1. (posted \o p) \o rest = posted \o (p \o rest)
    BY <2>0, ConcatAssociative
  <2>2. posted' \o EventsOf(pending') = taken'
    BY Zenon, <1>1, <1>3, <2>1 DEF rest
  <2>3. pendingBytes' = batch_bytes(EventsOf(pending'))
    BY Zenon, <1>1
  <2> QED
    BY Zenon, <2>2, <2>3 DEF NothingLeaksFromPending, batch_bytes
<1>6. Oversize' = Oversize
  BY Zenon DEF Oversize
<1>7. LongIsOversize'
  <2> SUFFICES ASSUME NEW j \in 1 .. Len(r), Len(r[j]) > CoalesceMax PROVE Oversize
    BY Zenon, <1>6 DEF LongIsOversize
  <2>1. PICK i \in 1 .. Len(pending) : Len(r[j]) <= Len(pending[i])
    BY Zenon, <1>1
  <2>2. r[j] \in Seq(Events) /\ pending[i] \in Seq(Events)
    BY Zenon, <1>1, <1>3, ElementOfSeq
  <2>3. Len(r[j]) \in Nat /\ Len(pending[i]) \in Nat /\ CoalesceMax \in Nat
    BY <2>2, BoundsTyped
  <2>4. Len(pending[i]) > CoalesceMax
    BY <2>1, <2>3
  <2> QED
    BY Zenon, <2>4 DEF PickerInv, LongIsOversize
<1>8. FullPayloadFirst'
  <2>1. Len(r) \in Nat /\ Len(pending) \in Nat /\ Hi \in Nat /\ CoalesceMax \in Nat
    BY <1>1, <1>3, BoundsTyped
  <2>2. Len(pending) <= Hi \/ (Len(pending) = Hi + 1 /\ Len(pending[1]) = CoalesceMax)
          => Len(r) <= Hi
    BY <1>1, <2>1
  <2>3. Hi' = Hi
    BY Zenon DEF Hi
  <2> QED
    BY Zenon, <2>2, <2>3 DEF PickerInv, FullPayloadFirst
<1>9. BytesBounded'
  <2>0. MaxBytes \in Nat
    BY Zenon, BoundsTyped
  <2>1. pendingBytes < MaxBytes => b < MaxBytes
    BY <1>2, <2>0
  <2>2. ASSUME NEW i \in 1 .. srcPos, pendingBytes - batch_bytes(Script[i]) < MaxBytes
        PROVE  b - batch_bytes(Script[i]) < MaxBytes
    <3>1. batch_bytes(Script[i]) \in Nat
      BY Zenon, <1>3, ScriptBatch
    <3> QED
      BY <1>2, <2>0, <2>2, <3>1
  <2> QED
    BY Zenon, <2>1, <2>2 DEF PickerInv, BytesBounded, batch_bytes
<1>10. FetchHasRoom'
  BY Zenon DEF FetchHasRoom
<1> QED
  BY Zenon, <1>4, <1>5, <1>7, <1>8, <1>9, <1>10 DEF PickerInv

\* The payload was refused and is the first batch again.
LEMMA PutBack ==
  ASSUME PickerInv, pending # <<>>, NEW p, NEW r, NEW b, TakenOff(p, r, b),
         UNCHANGED <<mode, srcPos, taken, posted, skip, backoff, budget>>, left' \in Nat,
         pending' = <<p>> \o r, pendingBytes' = b + batch_bytes(p), pc' # "fetch"
  PROVE  PickerInv'
<1>1. /\ p \in Seq(Events) /\ r \in Seq(Seq(Events))
      /\ EventsOf(pending) = p \o EventsOf(r)
      /\ Len(r) <= Len(pending)
      /\ Len(r) = Len(pending) => Len(p) = CoalesceMax /\ Len(pending[1]) > CoalesceMax
      /\ Len(pending[1]) = CoalesceMax => Len(r) < Len(pending) /\ Len(p) = CoalesceMax
      /\ Len(p) > CoalesceMax => Len(pending[1]) > CoalesceMax
      /\ \A j \in 1 .. Len(r) : \E i \in 1 .. Len(pending) : Len(r[j]) <= Len(pending[i])
  BY Zenon DEF TakenOff
<1>2. b + batch_bytes(p) = pendingBytes
  BY Zenon, TakenOffBytes
<1>3. pending \in Seq(Seq(Events)) /\ posted \o EventsOf(pending) = taken
  BY Zenon DEF PickerInv, PickerType, NothingLeaksFromPending
<1>0. 1 \in 1 .. Len(pending)
  BY <1>3
<1>4. /\ pending' \in Seq(Seq(Events)) /\ Len(pending') = Len(r) + 1 /\ pending'[1] = p
      /\ \A j \in 2 .. Len(r) + 1 : pending'[j] = r[j - 1]
  BY <1>1
<1>5. pendingBytes' = pendingBytes
  BY Zenon, <1>2
<1>6. EventsOf(pending') = EventsOf(pending)
  <2>0. /\ <<p>> = Append(<<>>, p) /\ <<>> \in Seq(Seq(Events)) /\ <<>> \o p = p
        /\ <<p>> \in Seq(Seq(Events))
    BY <1>1
  <2>1. EventsOf(<<p>>) = p
    BY Zenon, <1>1, <2>0, EventsOfAppend
  <2>2. EventsOf(<<p>> \o r) = EventsOf(<<p>>) \o EventsOf(r)
    BY Zenon, <1>1, <2>0, EventsOfConcat
  <2> QED
    BY Zenon, <1>1, <2>1, <2>2
<1>7. PickerType'
  BY Zenon, <1>4, <1>5 DEF PickerInv, PickerType
<1>8. NothingLeaksFromPending'
  <2>1. posted' \o EventsOf(pending') = taken'
    BY Zenon, <1>3, <1>6
  <2>2. pendingBytes' = batch_bytes(EventsOf(pending'))
    BY Zenon, <1>5, <1>6 DEF PickerInv, NothingLeaksFromPending
  <2> QED
    BY Zenon, <2>1, <2>2 DEF NothingLeaksFromPending, batch_bytes
<1>9. Oversize' = Oversize
  BY Zenon DEF Oversize
<1>10. \A j \in 1 .. Len(pending') :
         Len(pending'[j]) > CoalesceMax
           => \E i \in 1 .. Len(pending) : Len(pending[i]) > CoalesceMax
  <2> SUFFICES ASSUME NEW j \in 1 .. Len(pending'), Len(pending'[j]) > CoalesceMax
               PROVE  \E i \in 1 .. Len(pending) : Len(pending[i]) > CoalesceMax
    OBVIOUS
  <2>1. CASE j = 1
    <3>1. Len(pending[1]) > CoalesceMax
      BY Zenon, <1>1, <1>4, <2>1
    <3> QED
      BY Zenon, <1>0, <3>1
  <2>2. CASE j # 1
    <3>1. j \in 2 .. Len(r) + 1 /\ j - 1 \in 1 .. Len(r)
      BY <1>1, <1>4, <2>2
    <3>2. PICK i \in 1 .. Len(pending) : Len(r[j - 1]) <= Len(pending[i])
      BY Zenon, <1>1, <3>1
    <3>3. r[j - 1] \in Seq(Events) /\ pending[i] \in Seq(Events) /\ CoalesceMax \in Nat
      BY Zenon, <1>1, <1>3, <3>1, ElementOfSeq, BoundsTyped
    <3>4. Len(r[j - 1]) > CoalesceMax
      BY Zenon, <1>4, <3>1
    <3>5. Len(pending[i]) > CoalesceMax
      BY <3>2, <3>3, <3>4
    <3> QED
      BY Zenon, <3>5
  <2> QED
    BY Zenon, <2>1, <2>2
<1>11. LongIsOversize'
  BY Zenon, <1>9, <1>10 DEF PickerInv, LongIsOversize
<1>12. FullPayloadFirst'
  <2>1. Len(r) \in Nat /\ Len(pending) \in Nat /\ Hi \in Nat
    BY <1>1, <1>3, BoundsTyped
  <2>2. CASE Len(pending) <= Hi
    <3>1. Len(pending') <= Hi \/ (Len(pending') = Hi + 1 /\ Len(r) = Len(pending))
      BY <1>1, <1>4, <2>1, <2>2
    <3>2. Len(r) = Len(pending) => Len(pending'[1]) = CoalesceMax /\ Oversize
      <4> SUFFICES ASSUME Len(r) = Len(pending)
                   PROVE  Len(pending'[1]) = CoalesceMax /\ Oversize
        OBVIOUS
      <4>1. Len(p) = CoalesceMax /\ Len(pending[1]) > CoalesceMax
        BY Zenon, <1>1
      <4> QED
        BY Zenon, <1>0, <1>4, <4>1 DEF PickerInv, LongIsOversize
    <3> QED
      BY Zenon, <1>9, <3>1, <3>2 DEF FullPayloadFirst, Hi
  <2>3. CASE Len(pending) = Hi + 1 /\ Len(pending[1]) = CoalesceMax /\ Oversize
    <3>1. Len(pending') <= Hi \/ Len(pending') = Hi + 1
      BY <1>1, <1>4, <2>1, <2>3
    <3>2. Len(pending'[1]) = CoalesceMax
      BY Zenon, <1>1, <1>4, <2>3
    <3> QED
      BY Zenon, <1>9, <2>3, <3>1, <3>2 DEF FullPayloadFirst, Hi
  <2>4. CASE mode.fixed
    BY Zenon, <2>4 DEF FullPayloadFirst
  <2> QED
    BY Zenon, <2>2, <2>3, <2>4 DEF PickerInv, FullPayloadFirst
<1>13. BytesBounded'
  BY Zenon, <1>5 DEF PickerInv, BytesBounded, batch_bytes
<1>14. FetchHasRoom'
  BY Zenon DEF FetchHasRoom
<1> QED
  BY Zenon, <1>7, <1>8, <1>11, <1>12, <1>13, <1>14 DEF PickerInv

-----------------------------------------------------------------------------
(* The other steps *)

\* Steps that only move the round on.
LEMMA RoundMovesOn ==
  ASSUME PickerInv, pc' # "fetch",
         UNCHANGED <<mode, srcPos, taken, posted, pending, pendingBytes, skip, backoff, budget>>,
         left' \in Nat
  PROVE  PickerInv'
<1>1. skip' \in 0 .. MaxBackoff /\ backoff' \in 1 .. MaxBackoff /\ budget' \in Nat
  BY Zenon DEF PickerInv, PickerType
<1>2. FetchHasRoom'
  BY Zenon DEF FetchHasRoom
<1> QED
  BY Zenon, <1>1, <1>2, QueueKept

\* The queue and the fetch are as before.
LEMMA Untouched ==
  ASSUME PickerInv,
         UNCHANGED <<mode, srcPos, taken, posted, pending, pendingBytes, skip, backoff, budget,
                     left, pc>>
  PROVE  PickerInv'
<1>1. /\ skip' \in 0 .. MaxBackoff /\ backoff' \in 1 .. MaxBackoff /\ budget' \in Nat
      /\ left' \in Nat
  BY Zenon DEF PickerInv, PickerType
<1>2. FetchHasRoom'
  BY Zenon DEF PickerInv, FetchHasRoom, Hi
<1> QED
  BY Zenon, <1>1, <1>2, QueueKept

\* A command or a limit ends the loop.
LEMMA PollStopsStep == ASSUME PickerInv, PollStops PROVE PickerInv'
<1>1. left' \in Nat /\ pc' # "fetch"
  BY DEF PollStops, PickerInv, PickerType
<1> QED
  BY Zenon, <1>1, RoundMovesOn DEF PollStops

\* A fetch that finds nothing.
LEMMA FetchMissStep == ASSUME PickerInv, FetchMiss PROVE PickerInv'
<1>1. left' \in Nat /\ pc' # "fetch"
  BY DEF FetchMiss, FetchEnds, PickerInv, PickerType
<1> QED
  BY Zenon, <1>1, RoundMovesOn DEF FetchMiss

\* A fetch that fails.
LEMMA FetchErrorStep == ASSUME PickerInv, FetchError PROVE PickerInv'
<1>1. left' \in Nat /\ pc' # "fetch"
  BY DEF FetchError, FetchEnds, PickerInv, PickerType
<1> QED
  BY Zenon, <1>1, RoundMovesOn DEF FetchError

\* A command during a fetch, which may go on with it.
LEMMA FetchCmdStep == ASSUME PickerInv, FetchCmd PROVE PickerInv'
<1>1. /\ UNCHANGED <<mode, srcPos, taken, posted, pending, pendingBytes, skip, backoff, budget,
                     left>>
      /\ pc' = "plan" \/ pc' = pc
  BY DEF FetchCmd, FetchEnds
<1>2. left' \in Nat
  BY Zenon, <1>1 DEF PickerInv, PickerType
<1>3. CASE pc' = "plan"
  <2>1. pc' # "fetch"
    BY <1>3
  <2> QED
    BY Zenon, <1>1, <1>2, <2>1, RoundMovesOn
<1>4. CASE pc' = pc
  BY Zenon, <1>1, <1>4, Untouched
<1> QED
  BY Zenon, <1>1, <1>3, <1>4

\* A round that posts nothing.
LEMMA SkipPostStep == ASSUME PickerInv, SkipPost PROVE PickerInv'
<1>1. /\ UNCHANGED <<mode, srcPos, taken, posted, pending, pendingBytes, backoff, budget, left>>
      /\ pc' = "end" /\ (pending = <<>> \/ skip > 0)
      /\ skip' = IF pending # <<>> THEN skip - 1 ELSE skip
  BY Zenon DEF SkipPost
<1>2. /\ skip \in 0 .. MaxBackoff /\ backoff \in 1 .. MaxBackoff /\ budget \in Nat
      /\ left \in Nat
  BY Zenon DEF PickerInv, PickerType
<1>3. skip' \in 0 .. MaxBackoff
  BY <1>1, <1>2, BoundsTyped
<1>4. FetchHasRoom'
  BY <1>1 DEF FetchHasRoom
<1> QED
  BY Zenon, <1>1, <1>2, <1>3, <1>4, QueueKept

\* The plan of a post.
LEMMA PlanPostStep == ASSUME PickerInv, PlanPost PROVE PickerInv'
<1>1. pending \in Seq(Seq(Events)) /\ Burst \in Nat
  BY PickerAssumption DEF PickerInv, PickerType
<1>2. left' \in Nat
  BY <1>1 DEF PlanPost, MinOf
<1>3. pc' # "fetch"
  BY DEF PlanPost
<1> QED
  BY Zenon, <1>2, <1>3, RoundMovesOn DEF PlanPost

\* The end of a post sets the back-off.
LEMMA PostDoneStep == ASSUME PickerInv, PostDone PROVE PickerInv'
<1>1. /\ UNCHANGED <<mode, srcPos, taken, posted, pending, pendingBytes, budget, left>>
      /\ pc' = "end" /\ (skip' = 0 \/ skip' = backoff)
      /\ backoff' = 1 \/ backoff' = MinOf(2 * backoff, MaxBackoff)
  BY Zenon DEF PostDone
<1>2. /\ skip \in 0 .. MaxBackoff /\ backoff \in 1 .. MaxBackoff /\ budget \in Nat
      /\ left \in Nat
  BY Zenon DEF PickerInv, PickerType
<1>3. skip' \in 0 .. MaxBackoff /\ backoff' \in 1 .. MaxBackoff
  BY <1>1, <1>2, BoundsTyped DEF MinOf
<1>4. FetchHasRoom'
  BY <1>1 DEF FetchHasRoom
<1> QED
  BY Zenon, <1>1, <1>2, <1>3, <1>4, QueueKept

\* The end of a round.
LEMMA EndRoundStep == ASSUME PickerInv, EndRound PROVE PickerInv'
<1>1. left' \in Nat /\ pc' # "fetch"
  BY DEF EndRound, PickerInv, PickerType
<1> QED
  BY Zenon, <1>1, RoundMovesOn DEF EndRound

\* The steps of the manager, the parsers and the router.
LEMMA SurroundingsStep ==
  ASSUME PickerInv,
         \/ \E cmd \in {"Isolate", "Execute", "Stop"} : Broadcast(cmd)
         \/ ParserTakes \/ RouterReloads \/ RouterReplaced \/ ParsersGone
  PROVE  PickerInv' /\ UNCHANGED <<taken, posted>>
<1>1. UNCHANGED <<mode, picker>>
  BY Zenon DEF Broadcast, ParserTakes, RouterReloads, RouterReplaced, ParsersGone
<1>2. UNCHANGED <<mode, srcPos, taken, posted, pending, pendingBytes, skip, backoff, budget,
                  left, pc>>
  BY <1>1 DEF picker
<1> QED
  BY Zenon, <1>2, Untouched

\* In a post with something pending, the payload is the front of the queue.
LEMMA PostTakesOff ==
  ASSUME PickerInv, pending # <<>>
  PROVE  /\ PendingTyped /\ pendingBytes = batch_bytes(EventsOf(pending))
         /\ TakenOff(pop_next_payload_for_post.payload, pop_next_payload_for_post.rest,
                     pop_next_payload_for_post.bytes)
<1>1. PendingTyped /\ pendingBytes = batch_bytes(EventsOf(pending))
  BY Zenon DEF PickerInv, PickerType, NothingLeaksFromPending, PendingTyped
<1> QED
  BY Zenon, <1>1, PopTakesOff

\* The empty batches are gone.
LEMMA PostNothingStep == ASSUME PickerInv, PostNothing PROVE PickerInv'
<1> DEFINE next == coalesce_pending_front
<1>1. /\ pending # <<>> /\ Merged = <<>> /\ pending' = next.rest /\ pendingBytes' = next.bytes
      /\ left' = 0 /\ pc' = pc /\ pc = "post"
      /\ UNCHANGED <<mode, srcPos, taken, skip, backoff, posted, budget>>
  BY Zenon DEF PostNothing, OnlyEmptyBatches
<1>2. TakenOff(next.payload, next.rest, next.bytes)
  BY Zenon, <1>1, PostTakesOff, CoalescedTakenOff
<1>3. next.payload = <<>>
  BY <1>1 DEF coalesce_pending_front
<1> HIDE DEF next
<1>4. posted \in Seq(Events)
  BY Zenon DEF PickerInv, PickerType
<1>5. posted \o <<>> = posted
  BY <1>4
<1>6. left' \in Nat /\ pc' # "fetch"
  BY <1>1
<1>7. posted' = posted \o next.payload
  BY Zenon, <1>1, <1>3, <1>5
<1> QED
  BY Zenon, <1>1, <1>2, <1>6, <1>7, PostedOff

\* A parse channel took the payload.
LEMMA PostSentStep ==
  ASSUME PickerInv, PostSent
  PROVE  /\ PickerInv' /\ UNCHANGED taken
         /\ \E p \in Seq(Events) : posted' = posted \o p
<1> DEFINE next == pop_next_payload_for_post
<1>1. /\ pending # <<>> /\ pending' = next.rest /\ pendingBytes' = next.bytes
      /\ posted' = posted \o next.payload
      /\ left > 0 /\ left' = left - 1 /\ pc' = pc /\ pc = "post"
      /\ UNCHANGED <<mode, srcPos, taken, skip, backoff, budget>>
  BY Zenon DEF PostSent
<1>2. TakenOff(next.payload, next.rest, next.bytes)
  BY Zenon, <1>1, PostTakesOff
<1> HIDE DEF next
<1>3. left \in Nat
  BY Zenon DEF PickerInv, PickerType
<1>4. left' \in Nat /\ pc' # "fetch"
  BY <1>1, <1>3
<1>5. PickerInv'
  BY Zenon, <1>1, <1>2, <1>4, PostedOff
<1>6. next.payload \in Seq(Events)
  BY Zenon, <1>2 DEF TakenOff
<1> QED
  BY Zenon, <1>1, <1>5, <1>6

\* The router refused the payload.
LEMMA PostRefusedStep == ASSUME PickerInv, PostRefused PROVE PickerInv'
<1> DEFINE next == pop_next_payload_for_post
<1>1. /\ pending # <<>> /\ pending' = <<next.payload>> \o next.rest
      /\ pendingBytes' = next.bytes + batch_bytes(next.payload)
      /\ left' = 0 /\ pc' = pc /\ pc = "post"
      /\ UNCHANGED <<mode, srcPos, taken, posted, skip, backoff, budget>>
  BY Zenon DEF PostRefused
<1>2. TakenOff(next.payload, next.rest, next.bytes)
  BY Zenon, <1>1, PostTakesOff
<1> HIDE DEF next
<1>3. left' \in Nat /\ pc' # "fetch"
  BY <1>1
<1> QED
  BY Zenon, <1>1, <1>2, <1>3, PutBack

-----------------------------------------------------------------------------
(* The invariant *)

\* A new picker has taken nothing.
LEMMA PickerInitInv == Init => PickerInv
<1> SUFFICES ASSUME Init PROVE PickerInv
  OBVIOUS
<1>1. /\ mode \in [blocking : BOOLEAN, fixed : BOOLEAN, limit : Limits]
      /\ srcPos = 0 /\ taken = <<>> /\ posted = <<>> /\ pending = <<>> /\ pendingBytes = 0
      /\ skip = 0 /\ backoff = 1 /\ budget = 0 /\ left = 0 /\ pc = "poll"
  BY Zenon DEF Init
<1>2. /\ srcPos \in 0 .. Len(Script) /\ skip \in 0 .. MaxBackoff /\ backoff \in 1 .. MaxBackoff
      /\ pendingBytes \in Nat /\ budget \in Nat /\ left \in Nat
  BY <1>1, PickerAssumption, BoundsTyped
<1>3. taken \in Seq(Events) /\ posted \in Seq(Events) /\ pending \in Seq(Seq(Events))
  BY <1>1
<1>4. PickerType
  BY Zenon, <1>1, <1>2, <1>3 DEF PickerType
<1>5. NothingLeaksFromPending
  <2>1. EventsOf(pending) = <<>>
    BY Zenon, <1>1, <1>3, EventsOfAppend
  <2>2. <<>> \o <<>> = <<>>
    OBVIOUS
  <2>3. batch_bytes(<<>>) = 0
    BY Zenon, BatchBytesEmpty
  <2> QED
    BY Zenon, <1>1, <2>1, <2>2, <2>3 DEF NothingLeaksFromPending
<1>6. LongIsOversize
  <2>1. 1 .. Len(pending) = {}
    BY <1>1
  <2> QED
    BY Zenon, <2>1 DEF LongIsOversize
<1>7. FetchHasRoom
  BY <1>1 DEF FetchHasRoom
<1>8. FullPayloadFirst
  <2>1. Len(pending) <= Hi
    BY <1>1, BoundsTyped
  <2> QED
    BY Zenon, <2>1 DEF FullPayloadFirst
<1>9. BytesBounded
  <2>1. pendingBytes < MaxBytes
    BY <1>1, PickerAssumption
  <2> QED
    BY Zenon, <2>1 DEF BytesBounded
<1> QED
  BY Zenon, <1>4, <1>5, <1>6, <1>7, <1>8, <1>9 DEF PickerInv

\* Every step of the picker and of its surroundings keeps it.
LEMMA PickerNextInv == PickerInv /\ [Next]_vars => PickerInv'
<1> SUFFICES ASSUME PickerInv, [Next]_vars PROVE PickerInv'
  OBVIOUS
<1>1. CASE PickerStep
  BY Zenon, <1>1, PollStopsStep, StartRoundStep, FetchBatchStep, FetchEmptyStep, FetchMissStep,
     FetchErrorStep, FetchCmdStep, SkipPostStep, PlanPostStep, PostNothingStep, PostSentStep,
     PostRefusedStep, PostDoneStep, EndRoundStep DEF PickerStep
<1>2. CASE \/ \E cmd \in {"Isolate", "Execute", "Stop"} : Broadcast(cmd)
           \/ ParserTakes \/ RouterReloads \/ RouterReplaced \/ ParsersGone
  BY Zenon, <1>2, SurroundingsStep
<1>3. CASE UNCHANGED vars
  <2>1. UNCHANGED <<mode, srcPos, taken, posted, pending, pendingBytes, skip, backoff, budget,
                    left, pc>>
    BY <1>3 DEF vars, picker
  <2> QED
    BY Zenon, <2>1, Untouched
<1> QED
  BY Zenon, <1>1, <1>2, <1>3 DEF Next

\* PickerInv holds in every reachable state.
LEMMA PickerInvariant == Spec => []PickerInv
  BY PickerInitInv, PickerNextInv, PTL DEF Spec

\* For every source, every payload size and every limit: what a picker took
\* and did not post is in its pending queue, and pending_bytes is its size.
THEOREM PickerLosesNothing == Spec => []NothingLeaksFromPending
<1>1. PickerInv => NothingLeaksFromPending
  BY Zenon DEF PickerInv
<1> QED
  BY <1>1, PickerInvariant, PTL

\* For every source, every payload size and every limit: queue length, pending
\* bytes and back-off stay within their bounds.
THEOREM PickerStaysBounded == Spec => []PendingBounded
<1>1. PickerInv => PendingBounded
  BY Zenon DEF PickerInv, PickerType, FullPayloadFirst, BytesBounded, Oversize, PendingBounded
<1> QED
  BY <1>1, PickerInvariant, PTL

-----------------------------------------------------------------------------
(* The picker implements OrderedHandoff *)

\* A sequence is a prefix of what is appended to it.
LEMMA PrefixOfConcat ==
  ASSUME NEW S, NEW s \in Seq(S), NEW t \in Seq(S)
  PROVE  Handoff!Prefix(s, s \o t)
<1>1. s \o t \in Seq(S) /\ Len(s \o t) = Len(s) + Len(t) /\ Len(s) \in Nat /\ Len(t) \in Nat
  OBVIOUS
<1>2. Len(s) <= Len(s \o t)
  BY <1>1
<1>3. s = SubSeq(s \o t, 1, Len(s))
  <2> DEFINE u == SubSeq(s \o t, 1, Len(s))
  <2>1. u \in Seq(S) /\ Len(u) = Len(s)
    BY <1>1, <1>2
  <2>2. \A i \in 1 .. Len(s) : u[i] = s[i]
    BY <1>1, <1>2
  <2> HIDE DEF u
  <2>3. s = u
    BY <2>1, <2>2, SeqEqual
  <2> QED
    BY Zenon, <2>3 DEF u
<1> QED
  BY Zenon, <1>2, <1>3 DEF Handoff!Prefix

\* A batch taken is accepted, unless it is empty.
LEMMA FetchBatchAccepts ==
  ASSUME PickerInv, FetchBatch PROVE Handoff!Accept \/ UNCHANGED <<taken, posted>>
<1>1. /\ srcPos < Len(Script) /\ taken' = taken \o Script[srcPos + 1] /\ posted' = posted
  BY Zenon DEF FetchBatch
<1>2. srcPos \in 0 .. Len(Script) /\ taken \in Seq(Events)
  BY Zenon DEF PickerInv, PickerType
<1>3. Script \in Seq(Seq(Events))
  BY Zenon, BoundsTyped
<1>4. srcPos + 1 \in 1 .. Len(Script)
  BY <1>1, <1>2, <1>3
<1>5. Script[srcPos + 1] \in Seq(Events)
  BY Zenon, <1>3, <1>4, ElementOfSeq
<1>6. Handoff!Prefix(taken, taken')
  BY Zenon, <1>1, <1>2, <1>5, PrefixOfConcat
<1> QED
  BY Zenon, <1>1, <1>6 DEF Handoff!Accept

\* A payload sent is handed over, unless it is empty: with what stays pending
\* it makes up what was taken.
LEMMA PostSentHands ==
  ASSUME PickerInv, PostSent PROVE Handoff!Hand \/ UNCHANGED <<taken, posted>>
<1>1. PickerInv' /\ taken' = taken
  BY Zenon, PostSentStep
<1>2. PICK p \in Seq(Events) : posted' = posted \o p
  BY Zenon, PostSentStep
<1>3. posted \in Seq(Events)
  BY Zenon DEF PickerInv, PickerType
<1>4. Handoff!Prefix(posted, posted')
  BY Zenon, <1>2, <1>3, PrefixOfConcat
<1>5. /\ posted' \in Seq(Events) /\ pending' \in Seq(Seq(Events))
      /\ posted' \o EventsOf(pending') = taken'
  BY Zenon, <1>1 DEF PickerInv, PickerType, NothingLeaksFromPending
<1>6. <<>> \in Seq(Events)
  OBVIOUS
<1>7. EventsOf(pending') \in Seq(Events)
  BY Zenon, <1>5, <1>6, EventsOfAppend
<1>8. Handoff!Prefix(posted', taken)
  BY Zenon, <1>1, <1>5, <1>7, PrefixOfConcat
<1> QED
  BY Zenon, <1>1, <1>4, <1>8 DEF Handoff!Hand

\* Every step of the picker is a step of OrderedHandoff or leaves it alone.
LEMMA PickerStepHandsOver ==
  PickerInv /\ [Next]_vars => [Handoff!Next]_(Handoff!vars)
<1> SUFFICES ASSUME PickerInv, [Next]_vars
             PROVE  Handoff!Accept \/ Handoff!Hand \/ UNCHANGED <<taken, posted>>
  BY Zenon DEF Handoff!Next, Handoff!vars
<1>1. CASE PickerStep
  <2>1. CASE FetchBatch
    BY Zenon, <2>1, FetchBatchAccepts
  <2>2. CASE PostSent
    BY Zenon, <2>2, PostSentHands
  <2>3. CASE PollStops \/ StartRound \/ FetchEmpty \/ FetchMiss
    BY Zenon, <2>3 DEF PollStops, StartRound, FetchEmpty, FetchMiss
  <2>4. CASE FetchError \/ FetchCmd \/ SkipPost \/ PlanPost
    BY Zenon, <2>4 DEF FetchError, FetchCmd, SkipPost, PlanPost
  <2>5. CASE PostNothing \/ PostRefused \/ PostDone \/ EndRound
    BY Zenon, <2>5 DEF PostNothing, PostRefused, PostDone, EndRound
  <2> QED
    BY Zenon, <1>1, <2>1, <2>2, <2>3, <2>4, <2>5 DEF PickerStep
<1>2. CASE \/ \E cmd \in {"Isolate", "Execute", "Stop"} : Broadcast(cmd)
           \/ ParserTakes \/ RouterReloads \/ RouterReplaced \/ ParsersGone
  BY Zenon, <1>2, SurroundingsStep
<1>3. CASE UNCHANGED vars
  BY <1>3 DEF vars, picker
<1> QED
  BY Zenon, <1>1, <1>2, <1>3 DEF Next

\* The picker implements OrderedHandoff for every source, every payload size
\* and every limit: refusals, put-backs, coalescing and splitting neither
\* reorder nor repeat nor skip an event.
THEOREM PickerHandsOverInOrder == Spec => HandsOverInOrder
<1>1. Init => Handoff!Init
  BY Zenon DEF Init, Handoff!Init
<1>2. Spec => []PickerInv
  BY PickerInvariant
<1> QED
  BY <1>1, <1>2, PickerStepHandsOver, PTL DEF Spec, HandsOverInOrder, Handoff!Spec

-----------------------------------------------------------------------------
(* The shared limiter for any number of pickers, any lease size and any fixed
   rate: the calls of consume as steps of a specification, and the bound on
   what they are granted. *)

CONSTANT Sharers    \* the pickers

VARIABLES lim,      \* the limiter
          clock,    \* time of the last call
          credit,   \* remaining_events of each picker's lease
          passed,   \* events each picker was let through (history)
          given,    \* events granted to each picker (history)
          booked,   \* events granted in all (history)
          leases    \* number of grants (history)

LimVars == <<lim, clock, credit, passed, given, booked, leases>>

LimInit ==
  /\ \E rate \in Nat \ {0} : lim = new_limiter(rate, 0)
  /\ clock = 0
  /\ credit = [p \in Sharers |-> 0] /\ passed = [p \in Sharers |-> 0]
  /\ given = [p \in Sharers |-> 0] /\ booked = 0 /\ leases = 0

\* A picker asks for a batch of events at some later time.
ConsumeCall(p, events, now) ==
  LET r == consume(lim, credit[p], events, now)
  IN  /\ lim' = r.lim /\ clock' = now
      /\ credit' = [credit EXCEPT ![p] = r.remaining]
      /\ passed' = [passed EXCEPT ![p] = @ + events]
      /\ given' = [given EXCEPT ![p] = @ + r.grant]
      /\ booked' = booked + r.grant
      /\ leases' = IF r.grant = 0 THEN leases ELSE leases + 1

LimNext ==
  \E p \in Sharers : \E events \in Nat : \E now \in Nat :
    now >= clock /\ ConsumeCall(p, events, now)

LimSpec == LimInit /\ [][LimNext]_LimVars

\* Together the pickers are never granted more than the rate allows until the
\* booked deadline, which no later grant precedes: duration_for cuts each grant
\* to whole ticks, so each may gain less than a tick.
BookedWithinRate == Second * booked <= lim.rate * (lim.deadline + leases)

\* A picker passes exactly what it was granted, less what is left of its lease.
PassedIsGranted == \A p \in Sharers : passed[p] + credit[p] = given[p]

LimType ==
  /\ lim \in [rate : Nat \ {0}, lease : Nat \ {0}, deadline : Nat]
  /\ clock \in Nat /\ booked \in Nat /\ leases \in Nat
  /\ credit \in [Sharers -> Nat] /\ passed \in [Sharers -> Nat] /\ given \in [Sharers -> Nat]

LimInv == LimType /\ BookedWithinRate /\ PassedIsGranted

\* The default lease is at least one event.
LEMMA LeaseIsPositive ==
  ASSUME NEW rate \in Nat \ {0} PROVE default_lease_events(rate) \in Nat \ {0}
  BY RateAssumption DEF default_lease_events, Clamp

\* A grant books at least the time its events take at the rate, up to one tick.
LEMMA DurationCovers ==
  ASSUME NEW events \in Nat, NEW l \in [rate : Nat \ {0}, lease : Nat \ {0}, deadline : Nat]
  PROVE  /\ duration_for(l, events) \in Nat
         /\ Second * events <= l.rate * (duration_for(l, events) + 1)
<1> DEFINE work == Second * events
           whole == work \div l.rate
<1>0. l.rate \in Nat \ {0}
  OBVIOUS
<1>1. work \in Nat
  BY RateAssumption
<1>2. whole \in Nat /\ work <= l.rate * (whole + 1)
  <2> HIDE DEF work
  <2>1. whole \in Nat /\ work = (l.rate * whole) + (work % l.rate) /\ work % l.rate \in 0 .. (l.rate - 1)
    BY <1>1, <1>0
  <2>2. l.rate * (whole + 1) = l.rate * whole + l.rate
    BY <2>1, <1>0
  <2> HIDE DEF whole
  <2> QED
    BY <1>1, <2>1, <2>2, <1>0
<1>3. duration_for(l, events) = AtLeast(whole, 1)
  BY DEF duration_for
<1> HIDE DEF whole, work
<1>4. duration_for(l, events) \in Nat /\ duration_for(l, events) >= whole
  BY <1>2, <1>3 DEF AtLeast
<1>5. l.rate * (whole + 1) <= l.rate * (duration_for(l, events) + 1)
  BY <1>2, <1>4, <1>0
<1>6. l.rate * (whole + 1) \in Nat /\ l.rate * (duration_for(l, events) + 1) \in Nat
  BY <1>2, <1>4, <1>0
<1>7. work <= l.rate * (duration_for(l, events) + 1)
  BY <1>1, <1>2, <1>5, <1>6
<1> QED
  BY <1>4, <1>7 DEF work

\* Multiplication distributes over a sum of four.
LEMMA Distributes ==
  ASSUME NEW k \in Nat, NEW a \in Nat, NEW b \in Nat, NEW c \in Nat
  PROVE  k * ((a + b) + (c + 1)) = k * (a + c) + k * (b + 1)
<1>1. (a + b) + (c + 1) = (a + c) + (b + 1)
  OBVIOUS
<1>2. \A x, y \in Nat : k * (x + y) = k * x + k * y
  OBVIOUS
<1>3. a + c \in Nat /\ b + 1 \in Nat
  OBVIOUS
<1> QED
  BY <1>1, <1>2, <1>3

\* A new limiter has booked nothing.
LEMMA LimInitInv == LimInit => LimInv
<1> SUFFICES ASSUME LimInit PROVE LimInv
  OBVIOUS
<1>0. PICK rate \in Nat \ {0} : lim = new_limiter(rate, 0)
  BY DEF LimInit
<1>1. LimType
  BY <1>0, LeaseIsPositive DEF LimInit, LimType, new_limiter
<1>2. BookedWithinRate
  BY <1>0, RateAssumption DEF LimInit, BookedWithinRate, new_limiter
<1>3. PassedIsGranted
  BY DEF LimInit, PassedIsGranted
<1> QED
  BY <1>1, <1>2, <1>3 DEF LimInv

\* Every call of consume keeps the bound: a covered one touches no deadline, the
\* others book behind everything booked before.
LEMMA LimNextInv == LimInv /\ [LimNext]_LimVars => LimInv'
<1> SUFFICES ASSUME LimInv, [LimNext]_LimVars PROVE LimInv'
  OBVIOUS
<1> USE DEF LimInv
<1>1. CASE UNCHANGED LimVars
  BY <1>1 DEF LimVars, LimType, BookedWithinRate, PassedIsGranted
<1>2. CASE LimNext
  <2>1. PICK p \in Sharers, events \in Nat, now \in Nat : ConsumeCall(p, events, now)
    BY <1>2 DEF LimNext
  <2> DEFINE r == consume(lim, credit[p], events, now)
             required == events - credit[p]
             grant == grant_size(lim, required)
  <2>2. /\ lim' = r.lim /\ clock' = now
        /\ credit' = [credit EXCEPT ![p] = r.remaining]
        /\ passed' = [passed EXCEPT ![p] = @ + events]
        /\ given' = [given EXCEPT ![p] = @ + r.grant]
        /\ booked' = booked + r.grant
        /\ leases' = IF r.grant = 0 THEN leases ELSE leases + 1
    BY <2>1 DEF ConsumeCall
  <2>3. credit[p] \in Nat /\ passed[p] \in Nat /\ given[p] \in Nat /\ passed[p] + credit[p] = given[p]
    BY DEF LimType, PassedIsGranted
  <2>4. CASE events <= credit[p]
    <3>1. r.lim = lim /\ r.remaining = credit[p] - events /\ r.grant = 0
      BY <2>4 DEF consume
    <3> HIDE DEF r
    <3>2. LimType'
      BY <2>2, <2>3, <2>4, <3>1 DEF LimType
    <3>3. BookedWithinRate'
      BY <2>2, <3>1 DEF BookedWithinRate, LimType
    <3>4. PassedIsGranted'
      BY <2>2, <2>3, <2>4, <3>1 DEF PassedIsGranted, LimType
    <3> QED
      BY <3>2, <3>3, <3>4
  <2>5. CASE ~(events <= credit[p])
    <3>1. required \in Nat \ {0}
      BY <2>3, <2>5
    <3>2. lim.rate \in Nat \ {0} /\ lim.lease \in Nat \ {0} /\ lim.deadline \in Nat
      BY DEF LimType
    <3>3. grant \in Nat \ {0} /\ grant >= required
      BY <3>1, <3>2 DEF grant_size, AtLeast
    <3>4. r.lim = book(lim, grant, now) /\ r.remaining = grant - required /\ r.grant = grant
      BY <2>5, <3>2 DEF consume
    <3> DEFINE took == duration_for(lim, grant)
    <3>5. took \in Nat /\ Second * grant <= lim.rate * (took + 1)
      <4>1. lim \in [rate : Nat \ {0}, lease : Nat \ {0}, deadline : Nat] /\ grant \in Nat
        BY <3>3 DEF LimType
      <4> HIDE DEF grant
      <4> QED
        BY <4>1, DurationCovers
    <3>6. r.lim = [lim EXCEPT !.deadline = AtLeast(lim.deadline, now) + took]
      BY <3>4 DEF book
    <3> DEFINE due == AtLeast(lim.deadline, now)
    <3>7. due \in Nat /\ due >= lim.deadline
      BY <3>2 DEF AtLeast
    <3> HIDE DEF r, grant, took, due, required
    <3>8. /\ lim' = [lim EXCEPT !.deadline = due + took]
          /\ lim' \in [rate : Nat \ {0}, lease : Nat \ {0}, deadline : Nat]
          /\ lim'.deadline = due + took /\ lim'.rate = lim.rate
      BY <2>2, <3>5, <3>6, <3>7 DEF LimType, due
    <3>9. booked' = booked + grant /\ leases' = leases + 1
      BY <2>2, <3>3, <3>4
    <3>10. LimType'
      BY <2>2, <2>3, <3>1, <3>3, <3>4, <3>8, <3>9 DEF LimType
    <3>11. BookedWithinRate'
      <4>1. booked \in Nat /\ leases \in Nat /\ Second * booked <= lim.rate * (lim.deadline + leases)
        BY DEF LimType, BookedWithinRate
      <4>2. Second * (booked + grant) = Second * booked + Second * grant
        BY <4>1, <3>3, RateAssumption
      <4>3. lim.rate * (lim.deadline + leases) <= lim.rate * (due + leases)
        BY <4>1, <3>2, <3>7
      <4>4. lim.rate * ((due + took) + (leases + 1)) = lim.rate * (due + leases) + lim.rate * (took + 1)
        <5>1. lim.rate \in Nat /\ due \in Nat /\ took \in Nat /\ leases \in Nat
          BY <4>1, <3>5, <3>7, <3>2
        <5>2. \A k \in Nat : k * ((due + took) + (leases + 1)) = k * (due + leases) + k * (took + 1)
          BY <5>1, Distributes
        <5> QED
          BY <5>1, <5>2, Zenon
      <4>5. /\ Second * booked \in Nat /\ Second * grant \in Nat
            /\ lim.rate * (lim.deadline + leases) \in Nat /\ lim.rate * (due + leases) \in Nat
            /\ lim.rate * (took + 1) \in Nat
        BY <4>1, <3>2, <3>3, <3>5, <3>7, RateAssumption
      <4>6. Second * (booked + grant) <= lim.rate * ((due + took) + (leases + 1))
        BY <4>1, <4>2, <4>3, <4>4, <4>5, <3>5
      <4> QED
        BY <4>6, <3>8, <3>9 DEF BookedWithinRate
    <3>12. PassedIsGranted'
      BY <2>2, <2>3, <3>1, <3>3, <3>4 DEF PassedIsGranted, LimType, required
    <3> QED
      BY <3>10, <3>11, <3>12
  <2> QED
    BY <2>4, <2>5
<1> QED
  BY <1>1, <1>2

\* The sources together keep to the rate, for every number of pickers, every
\* lease size, every rate and every timing of their calls, and no picker passes
\* an event that was not granted to it.
THEOREM SharedRateHolds == LimSpec => [](BookedWithinRate /\ PassedIsGranted)
<1>1. LimInv => BookedWithinRate /\ PassedIsGranted
  BY DEF LimInv
<1> QED
  BY <1>1, LimInitInv, LimNextInv, PTL DEF LimSpec

=============================================================================

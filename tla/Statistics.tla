----------------------------- MODULE Statistics -----------------------------
(***************************************************************************)
(* The way of a statistic: tasks count into the LRU caches of their        *)
(* collectors, a collector is emptied into a report for the monitor's      *)
(* bounded channel, and the monitor merges reports into the current slice  *)
(* and, at every export, the slice into the totals.  A report is cut to    *)
(* the largest rows by a selection that leaves ties to chance, so a step   *)
(* gives the set of possible results.  Times and the table are left out.   *)
(***************************************************************************)
EXTENDS Integers, Sequences, SequencesExt

CONSTANTS
  Collectors,   \* the collectors of all tasks
  TargetOf,     \* the target each of them reports for
  StatMax,      \* StatReq.max
  MinCache,     \* MIN_CACHE_SIZE; 5 in the code
  MonitorCap,   \* MONITOR_CHANNEL_CAP; 4096 in the code
  DropSinks     \* sinks that drop records on errors

ASSUME StatAssumption ==
  /\ StatMax \in Nat \ {0} /\ MinCache \in Nat \ {0} /\ MonitorCap \in Nat \ {0}
  /\ "__sink" \notin Range(TargetOf) /\ "__runtime" \notin Range(TargetOf)

Keep == 2 * StatMax  \* TOP_N_MULTIPLIER
CacheSize == IF StatMax < MinCache THEN MinCache ELSE StatMax
NoRows == [k \in {} |-> 0]
NoUnits == [u \in {} |-> NoRows]

-----------------------------------------------------------------------------
(* StatCollector: the cache, most recently used entry first *)

\* get_or_create_record: the entry moves to the front; a new one pushes out the
\* least recently used entry of a full cache.
Recent(cache, key) ==
  LET found == SelectSeq(cache, LAMBDA e : e.key = key)
      others == SelectSeq(cache, LAMBDA e : e.key # key)
      entry == IF found = <<>> THEN [key |-> key, total |-> 0, success |-> 0] ELSE found[1]
      all == <<entry>> \o others
  IN  IF Len(all) > CacheSize THEN SubSeq(all, 1, CacheSize) ELSE all

\* record_begin_n, record_end_n, record_task_n and, with nothing to add, touch.
Record(cache, key, n, s) ==
  [Recent(cache, key) EXCEPT ![1].total = @ + n, ![1].success = @ + s]

\* The rows that select_nth_unstable_by and truncate may leave.
TopRows(rows) ==
  IF Cardinality(DOMAIN rows) <= Keep THEN {rows}
  ELSE {[k \in K |-> rows[k]] : K \in
          {K \in kSubset(Keep, DOMAIN rows) :
             \A in \in K, out \in DOMAIN rows \ K : rows[in].total >= rows[out].total}}

\* collect_from_cache.
Collect(cache) ==
  TopRows([k \in {cache[i].key : i \in DOMAIN cache} |->
             LET i == CHOOSE i \in DOMAIN cache : cache[i].key = k
             IN  [total |-> cache[i].total, success |-> cache[i].success]])

-----------------------------------------------------------------------------
(* StatReport::merge and MetricSet *)

CellOf(rows, k) == IF k \in DOMAIN rows THEN rows[k] ELSE [total |-> 0, success |-> 0]

MergeRows(a, b) ==
  TopRows([k \in DOMAIN a \cup DOMAIN b |->
             [total |-> CellOf(a, k).total + CellOf(b, k).total,
              success |-> CellOf(a, k).success + CellOf(b, k).success]])

RowsOf(units, u) == IF u \in DOMAIN units THEN units[u] ELSE NoRows

\* merge_unit: into the unit of the same target, or as a new unit.
MergeUnit(units, u, rows) ==
  {[v \in DOMAIN units \cup {u} |-> IF v = u THEN merged ELSE units[v]] :
     merged \in IF u \in DOMAIN units THEN MergeRows(units[u], rows) ELSE {rows}}

MergeAll(sets, u, rows) == UNION {MergeUnit(units, u, rows) : units \in sets}

\* MetricSet::merge.
MergeSet(units, other) ==
  FoldSet(LAMBDA u, sets : MergeAll(sets, u, other[u]), {units}, DOMAIN other)

-----------------------------------------------------------------------------
(* Tasks and monitor: what is in the caches, the channel, the slice and the
   totals, and in the process-wide counters that the monitor takes over *)

Start ==
  [cache |-> [c \in Collectors |-> <<>>], chan |-> <<>>, slice |-> NoUnits, total |-> NoUnits,
   full |-> 0, window |-> [s \in DropSinks |-> 0],
   lost |-> 0]  \* history: reports that found the channel full

\* MetricCollectors::send_stat: the cache is emptied whatever becomes of the
\* report; a full channel only counts.
SendStat(w, c) ==
  {LET emptied == [w EXCEPT !.cache[c] = <<>>]
   IN  IF Len(w.chan) < MonitorCap
       THEN [emptied EXCEPT !.chan = Append(@, [unit |-> TargetOf[c], rows |-> rows])]
       ELSE [emptied EXCEPT !.full = @ + 1, !.lost = @ + 1] : rows \in Collect(w.cache[c])}

Receive(w) ==
  IF w.chan = <<>> THEN {w}
  ELSE {[w EXCEPT !.chan = Tail(@), !.slice = units] :
          units \in MergeUnit(w.slice, Head(w.chan).unit, Head(w.chan).rows)}

\* take_snapshot and take_window: the counters become rows of the slice.
TakeCounters(w) ==
  LET cell(n) == [total |-> n, success |-> n]
      dropping == {s \in DropSinks : w.window[s] > 0}
      sets1 == IF w.full = 0 THEN {w.slice}
               ELSE MergeUnit(w.slice, "__runtime", [k \in {"drop_full"} |-> cell(w.full)])
      sets2 == IF dropping = {} THEN sets1
               ELSE MergeAll(sets1, "__sink", [s \in dropping |-> cell(w.window[s])])
  IN  {[w EXCEPT !.slice = units, !.full = 0, !.window = [s \in DropSinks |-> 0]] :
         units \in sets2}

\* Mutant: the slice is added to the totals and kept.
SumUp_KeepsSlice(w) == {[w EXCEPT !.total = units] : units \in MergeSet(w.total, w.slice)}

\* RuntimeMetrics::sum_up.
SumUp(w) ==
  {[w EXCEPT !.total = units, !.slice = NoUnits] : units \in MergeSet(w.total, w.slice)}

Export(w) == UNION {SumUp(v) : v \in TakeCounters(w)}

\* The end of stat_proc: everything still in the channel, then a last export.
TailDrain(w) ==
  FoldLeft(LAMBDA ws, i : UNION {Receive(v) : v \in ws}, {w}, [i \in 1 .. Len(w.chan) |-> i])
Finish(w) == UNION {Export(v) : v \in TailDrain(w)}

Do(w, op) ==
  CASE op.do = "record" -> {[w EXCEPT !.cache[op.by] = Record(@, op.key, op.n, op.s)]}
    [] op.do = "drop"   -> {[w EXCEPT !.window[op.by] = @ + 1]}
    [] op.do = "send"   -> SendStat(w, op.by)
    [] op.do = "recv"   -> Receive(w)
    [] op.do = "export" -> Export(w)

-----------------------------------------------------------------------------
(* Property, over the operations an instance lists *)

CONSTANTS
  Ops,     \* operations of tasks and monitor
  MaxOps   \* bound: operations before the monitor is stopped

AfterOps(ops) == FoldLeft(LAMBDA ws, op : UNION {Do(w, op) : w \in ws}, {Start}, ops)

RecordsOf(ops, u) == SelectSeq(ops, LAMBDA op : op.do = "record" /\ TargetOf[op.by] = u)
Counted(ops, u, k) ==
  FoldLeft(LAMBDA sum, op : IF op.key # k THEN sum
                            ELSE [total |-> sum.total + op.n, success |-> sum.success + op.s],
           [total |-> 0, success |-> 0], RecordsOf(ops, u))
Drops(ops, s) == Len(SelectSeq(ops, LAMBDA op : op.do = "drop" /\ op.by = s))

\* When the monitor has ended, its totals are right, however records, reports,
\* deliveries and exports interleave: no row exceeds what was counted; every
\* record that a sink dropped and every report that the full channel refused is
\* there exactly once; and if no report was refused, every collector was
\* emptied after its last record, and the keys fit the cache and the report,
\* every row is exact.
StatTotals ==
  \A ops \in UNION {[1 .. n -> Ops] : n \in 0 .. MaxOps} :
    \A before \in AfterOps(ops) : \A w \in Finish(before) :
      /\ CellOf(RowsOf(w.total, "__runtime"), "drop_full").total = w.lost
      /\ \A s \in DropSinks : CellOf(RowsOf(w.total, "__sink"), s).total = Drops(ops, s)
      /\ \A u \in Range(TargetOf) :
           LET keys == {op.key : op \in Range(RecordsOf(ops, u))}
           IN  /\ \A k \in DOMAIN RowsOf(w.total, u) :
                    /\ w.total[u][k].total <= Counted(ops, u, k).total
                    /\ w.total[u][k].success <= Counted(ops, u, k).success
               /\ w.lost = 0 /\ (\A c \in Collectors : before.cache[c] = <<>>)
                    /\ Cardinality(keys) <= Keep /\ Cardinality(keys) <= CacheSize
                  => \A k \in keys : CellOf(RowsOf(w.total, u), k) = Counted(ops, u, k)

=============================================================================

--------------------------- MODULE RateLimitRuns ---------------------------
(***************************************************************************)
(* What RateLimit amounts to over a run: the calls of the pickers, or the  *)
(* samples they report, one after the other.                               *)
(***************************************************************************)
EXTENDS RateLimit, Sequences, SequencesExt

CONSTANTS
  Rates,      \* fixed rates tried
  Pickers,    \* who shares the limiter
  Calls,      \* [who, events, after]: a call, that long after the one before
  MaxCalls,   \* bound: calls in a row
  Samples,    \* samples a controller is given
  MaxSamples  \* bound: samples in a row

SeqsUpTo(S, n) == UNION {[1 .. k -> S] : k \in 0 .. n}
SumOver(f(_), S) == FoldSet(LAMBDA i, sum : sum + f(i), 0, S)

\* What a sequence of calls leaves: the limiter, the leases, what has passed,
\* and the grants in the order in which they were booked.
AfterCalls(rate, calls) ==
  FoldLeft(LAMBDA w, c :
             LET now == w.now + c.after
                 r == consume(w.lim, w.left[c.who], c.events, now)
             IN  [lim |-> r.lim, now |-> now, passed |-> w.passed + c.events,
                  left |-> [w.left EXCEPT ![c.who] = r.remaining],
                  grants |-> IF r.grant = 0 THEN w.grants
                             ELSE Append(w.grants, [events |-> r.grant, at |-> r.at])],
           [lim |-> new_limiter(rate, 0), now |-> 0, passed |-> 0,
            left |-> [p \in Pickers |-> 0], grants |-> <<>>],
           calls)

\* The sources together keep to a fixed rate, however the pickers' calls fall:
\* no event passes that was not granted and none is granted twice, and between
\* any two grants at least the time has gone by that the events granted from
\* the first on take at the rate.  The code cuts each duration to whole clock
\* ticks, which is the number of grants in the bound.
RateHeld ==
  \A rate \in Rates : \A calls \in SeqsUpTo(Calls, MaxCalls) :
    LET w == AfterCalls(rate, calls)
        size(i) == w.grants[i].events
        left(p) == w.left[p]
    IN  /\ w.passed + SumOver(left, Pickers)
             = SumOver(size, 1 .. Len(w.grants))
        /\ \A i, j \in 1 .. Len(w.grants) :
             i < j => Second * SumOver(size, i .. (j - 1))
                        <= rate * (w.grants[j].at - w.grants[i].at + (j - i))

AfterSamples(rate, samples) ==
  FoldLeft(LAMBDA w, s : observe(w.ctl, w.lim, s),
           [ctl |-> new_controller, lim |-> new_limiter(rate, 0)], samples)

\* The start-up time is over for good once it is over.
SampleRuns ==
  {q \in SeqsUpTo(Samples, MaxSamples) :
     \A i, j \in 1 .. Len(q) : i < j /\ q[j].starting => q[i].starting}

\* The samples of the window that the n-th sample closes.
WindowOf(samples, n) ==
  {i \in 1 .. n : \A k \in i .. (n - 1) : ~samples[k].due}

Strained(s) == s.dist \/ s.bytes >= HighBytes

\* The automatic rate is pulled down by the worst picker of a window and not
\* up by the others: a window in which any picker met full parse channels or a
\* full pending queue never ends with a higher rate, and once a window has
\* been strained the rate never again rises by the start-up step.  A window
\* with work and nothing pending raises the rate until the maximum.
StrainSlowsDown ==
  \A rate \in Rates : \A samples \in SampleRuns :
    LET n == Len(samples)
        before == AfterSamples(rate, SubSeq(samples, 1, n - 1)).lim.rate
        after == AfterSamples(rate, samples).lim.rate
        base == Clamp(before, MinRps, MaxRps)
        strained(m) == \E i \in WindowOf(samples, m) : Strained(samples[i])
    IN  n > 0 /\ samples[n].due =>
          /\ after \in MinRps .. MaxRps
          /\ strained(n) => after <= base
          /\ (\E m \in 1 .. n : samples[m].due /\ strained(m)) =>
               after <= base + AtLeast((base * IncreasePct) \div 100, MinStep)
          /\ (\A i \in 1 .. n : samples[i].bytes = 0 /\ samples[i].count = 0
                                /\ ~samples[i].dist /\ samples[i].sent > 0
                                /\ samples[i].rss = 0)
               => after = MaxRps \/ after > base

=============================================================================

------------------------------ MODULE RateLimit ------------------------------
(***************************************************************************)
(* The speed of the sources: one SourceRateLimiter shared by all pickers,  *)
(* a SourceRateLease in each picker, and the AutoRateController that moves *)
(* the rate in automatic mode.  The limiter's deadline is changed under a  *)
(* mutex and the controller is used under another, so a run is a sequence  *)
(* of calls by any pickers, each with the time at which the lock was       *)
(* taken; RateLimitRuns folds the operators below over such sequences.     *)
(***************************************************************************)
EXTENDS Integers

CONSTANTS
  Second,       \* clock ticks in a second; 10^9 in the code
  LeaseHits,    \* leases a second at a high rate; 200 in the code
  MaxLease,     \* largest default lease; 4096 in the code
  MinRps, MaxRps,           \* bounds of the automatic rate
  IncreasePct, DecreasePct, \* steady step up, factor down
  StartupPct,               \* step up while probing
  MinStep, StartupStep,     \* smallest steps up
  LowBytes, HighBytes,      \* 30 % and 70 % of the pending byte cap
  RssGrowth, RssMax         \* growth in one window and size that slow down

ASSUME RateAssumption ==
  /\ Second \in Nat \ {0} /\ LeaseHits \in Nat \ {0} /\ MaxLease \in Nat \ {0}
  /\ MinRps \in Nat \ {0} /\ MaxRps \in Nat /\ MinRps <= MaxRps
  /\ IncreasePct \in Nat /\ StartupPct \in Nat /\ DecreasePct \in 0 .. 100
  /\ MinStep \in Nat \ {0} /\ StartupStep \in Nat \ {0}
  /\ LowBytes \in Nat /\ HighBytes \in Nat /\ RssGrowth \in Nat /\ RssMax \in Nat

AtLeast(a, b) == IF a < b THEN b ELSE a
Clamp(v, lo, hi) == IF v < lo THEN lo ELSE IF v > hi THEN hi ELSE v

-----------------------------------------------------------------------------
(* SourceRateLimiter: [rate, lease, deadline].  A rate of zero is no limit. *)

default_lease_events(rate) == Clamp(rate \div LeaseHits, 1, MaxLease)

new_limiter(rate, now) ==
  [rate |-> rate, lease |-> default_lease_events(rate), deadline |-> now]

set_rate_per_sec(lim, rate) ==
  [lim EXCEPT !.rate = rate, !.lease = default_lease_events(rate)]

\* Never zero, so that every grant moves the deadline.
duration_for(lim, events) == AtLeast((Second * events) \div lim.rate, 1)

\* Mutant: the next deadline counts from now although the caller still waits.
book_FromNow(lim, events, now) == [lim EXCEPT !.deadline = now + duration_for(lim, events)]

\* The locked part of wait_for_events: the caller goes when the booked time
\* before it is over, and books its own behind it.
book(lim, events, now) ==
  [lim EXCEPT !.deadline = AtLeast(@, now) + duration_for(lim, events)]

\* How long wait_for_events sleeps.
wait_time(lim, now) == IF lim.deadline > now THEN lim.deadline - now ELSE 0

-----------------------------------------------------------------------------
(* SourceRateLease::consume.  The loop runs at most once: what it is granted
   covers what is still required. *)

grant_size(lim, required) == AtLeast(lim.lease, required)

\* The limiter and the lease afterwards, what was granted, and when the events
\* may pass.
consume(lim, remaining, events, now) ==
  IF events <= remaining
  THEN [lim |-> lim, remaining |-> remaining - events, grant |-> 0, at |-> now]
  ELSE LET required == events - remaining
           grant == grant_size(lim, required)
       IN  IF lim.rate = 0
           THEN [lim |-> lim, remaining |-> grant - required, grant |-> grant, at |-> now]
           ELSE [lim |-> book(lim, grant, now), remaining |-> grant - required,
                 grant |-> grant, at |-> now + wait_time(lim, now)]

-----------------------------------------------------------------------------
(* AutoRateController: the sample window so far, the pending bytes and the
   memory at the end of the last one, and whether probing is over *)

EmptyWindow == [count |-> 0, bytes |-> 0, dist |-> FALSE, sent |-> 0]
new_controller == [window |-> EmptyWindow, lastBytes |-> 0, lastRss |-> 0, startupDone |-> FALSE]

\* Mutant: a sample replaces the window instead of joining it.
merge_sample_Last(window, s) ==
  [count |-> s.count, bytes |-> s.bytes, dist |-> s.dist, sent |-> window.sent + s.sent]

\* The worst of all samples in the window, whichever picker they came from.
merge_sample(window, s) ==
  [count |-> AtLeast(window.count, s.count), bytes |-> AtLeast(window.bytes, s.bytes),
   dist |-> window.dist \/ s.dist, sent |-> window.sent + s.sent]

\* A process size of zero stands for one that could not be read.
rss_growing_fast(ctl, rss) == rss # 0 /\ ctl.lastRss # 0 /\ rss > ctl.lastRss + RssGrowth
rss_over_max_limit(rss) == rss # 0 /\ rss > RssMax

decide(ctl, w, rss) ==
  IF \/ w.dist \/ w.bytes >= HighBytes
     \/ w.bytes > ctl.lastBytes /\ w.bytes > LowBytes
     \/ rss_growing_fast(ctl, rss) \/ rss_over_max_limit(rss)
  THEN "Decrease"
  ELSE IF w.bytes <= LowBytes /\ w.count = 0 /\ w.sent > 0 THEN "Increase" ELSE "Keep"

\* The step up: fast until the first decrease or the end of the start-up time.
increase_step(ctl, current, starting) ==
  IF ~ctl.startupDone /\ starting
  THEN AtLeast((current * StartupPct) \div 100, StartupStep)
  ELSE AtLeast((current * IncreasePct) \div 100, MinStep)

next_rate(ctl, decision, current, starting) ==
  CASE decision = "Keep"     -> current
    [] decision = "Increase" ->
         Clamp(current + increase_step(ctl, current, starting), MinRps, MaxRps)
    [] decision = "Decrease" -> Clamp((current * DecreasePct) \div 100, MinRps, MaxRps)

\* observe for an automatic limiter: a sample joins the window; when the window
\* is over (s.due) the rate is decided anew and the window reset.
observe(ctl, lim, s) ==
  LET window == merge_sample(ctl.window, s)
      decision == decide(ctl, window, s.rss)
      current == Clamp(lim.rate, MinRps, MaxRps)
      next == next_rate(ctl, decision, current, s.starting)
  IN  IF ~s.due
      THEN [ctl |-> [ctl EXCEPT !.window = window], lim |-> lim]
      ELSE [ctl |-> [window |-> EmptyWindow, lastBytes |-> window.bytes,
                     lastRss |-> IF s.rss = 0 THEN ctl.lastRss ELSE s.rss,
                     startupDone |-> ctl.startupDone \/ decision = "Decrease"],
            lim |-> IF next = lim.rate THEN lim ELSE set_rate_per_sec(lim, next)]

=============================================================================

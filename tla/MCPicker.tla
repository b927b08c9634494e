------------------------------- MODULE MCPicker -------------------------------
(* TLC instance of Picker: four batches, two of them empty and one longer than
   a payload, small enough for the watermark, the byte cap, coalescing and the
   back-off cap to be reached.  The rate limit that a picker obeys is checked
   beside it, over short sequences of calls and samples. *)
EXTENDS Picker, RateLimitRuns
MCScript == <<<<1, 2, 3>>, <<>>, <<>>, <<4>>>>
MCBytes == <<0, 0, 1, 2>>
MCCalls == [who : {1, 2}, events : {1, 2, 5}, after : {0, 1, 7}]
MCSamples ==
  {s \in [count : {0, 1}, bytes : {0, 4, 8}, dist : BOOLEAN, sent : {0, 1},
          rss : {0, 5, 9}, due : BOOLEAN, starting : BOOLEAN] :
     /\ s.bytes > 0 => s.count = 1 /\ s.sent = 0
     /\ s.dist => s.bytes = 4
     /\ s.rss > 0 => s.due /\ s.bytes = 0 /\ s.sent = 1}

\* A picker with a fixed rate keeps to it, together with the pickers it shares
\* the limiter with: see RateHeld.
FixedRateHeld == mode.fixed => RateHeld

\* Pickers without a fixed rate are slowed down by the most strained of them:
\* see StrainSlowsDown.
AutoRateYields == ~mode.fixed => StrainSlowsDown
=============================================================================

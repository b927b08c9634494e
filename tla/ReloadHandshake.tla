--------------------------- MODULE ReloadHandshake ---------------------------
(***************************************************************************)
(* What HotReload implements: the drain handshake of ReloadDrain.          *)
(***************************************************************************)
EXTENDS HotReload

\* The reports and the wait of the first generation are the handshake
\* ReloadDrain specifies.
DrainOfFirst == INSTANCE ReloadDrain WITH
  Parsers <- Group(1, "Parser"), Sinks <- Group(1, "Sink"), Infras <- Group(1, "Infra"),
  reporter <- [w \in WorkersOf(1) |-> wk[w].rep], bus <- drain[1].bus,
  pending <- drain[1].pending, wait <- drain[1].wait
FollowsDrainHandshake == DrainOfFirst!Init /\ [][DrainOfFirst!Next]_(DrainOfFirst!vars)

=============================================================================

----------------------------- MODULE MCLifecycle -----------------------------
(* Instances of Lifecycle for TLC. *)
EXTENDS Lifecycle

TwoGens == 1 .. 2

Alone ==      \* one generation, stopped and killed at any moment
  [last |-> 1, stops |-> {1}, kills |-> {1}, realtime |-> FALSE, scheds |-> {1}, pools |-> {1}]
Polling ==    \* a restart while the first generation polls its master
  [last |-> 2, stops |-> {}, kills |-> {}, realtime |-> FALSE, scheds |-> {1}, pools |-> {}]
Crashing ==   \* a restart with realtime, before or after a crash or without
  [last |-> 2, stops |-> {}, kills |-> {1}, realtime |-> TRUE, scheds |-> {}, pools |-> {}]

AllBounds == {Alone, Polling, Crashing}
RestartBounds == {Polling}

=============================================================================

--------------------------- MODULE MCInsightIngest ---------------------------
(* Instances of InsightIngest: a process of alice with its two streams, and *)
(* a process of bob.                                                        *)
EXTENDS InsightIngest

MCGlobs == <<"alice entries", "bob entries", "alice events">>
MCOwner == [s \in Spaces |-> IF s = "bob entries" THEN 2 ELSE 1]
MCKinds ==
  [s \in Spaces |-> CASE s = "alice entries" -> {"handoff", "ack"}
                      [] s = "bob entries" -> {"event", "ack"}
                      [] OTHER -> {"event"}]
MCLifecycle == {"alice entries", "bob entries"}

=============================================================================

--------------------------- MODULE MCSummaryStorage ---------------------------
(* Two cells in one cohort, with a federation and a coalition above it; the
   cells are of different size, so that weights matter. *)
EXTENDS SummaryStorage, TLC

MCNode == {"n1", "n2", "n3"}
MCCapabilityType == {"Sensor", "Compute"}
MCCapabilities == [n \in MCNode |-> IF n = "n3" THEN {"Sensor", "Compute"}
                                               ELSE {"Sensor"}]
MCReadiness == [nodes \in SUBSET MCNode |->
                  IF "n2" \in nodes THEN Scale ELSE 0]
MCUnit == {"A", "B", "K", "F", "L"}
MCTierOf == [u \in MCUnit |-> CASE u = "K" -> "cohort" [] u = "F" -> "federation"
                                [] u = "L" -> "coalition" [] OTHER -> "cell"]
MCBelow == [u \in MCUnit |-> CASE u = "A" -> {"n1", "n2"} [] u = "B" -> {"n3"}
                               [] u = "K" -> {"A", "B"} [] u = "F" -> {"K"}
                               [] OTHER -> {"F"}]
MCFirstState == [health |-> 1, fuel |-> 2, position |-> 0]
MCNodeState == {MCFirstState,
                [health |-> 2, fuel |-> 1, position |-> 1],
                [health |-> 4, fuel |-> 2, position |-> 0],
                [health |-> 3, fuel |-> 2, position |-> NoPosition]}
SymmetryOfTasks == Permutations(Task)

(* Calls on different documents commute: each touches its own document and
   metrics only, and reads those below it in one step.  So only overlapping
   calls on one document are explored, one of the lowest and one of a higher
   tier. *)
OverlapOnOneDocument ==
    \A s, t \in Task : (s # t /\ call[s] # Idle /\ call[t] # Idle)
                        => call[s].unit = call[t].unit /\ call[s].unit \in {"A", "K"}

(* A summary is complete: it names every node, or every unit with the cells, that
   it counts and every type of capability they have, whatever deltas removed, and
   the metrics count the deltas stored since the document was created, while the
   calls on it do not overlap (apply_delta, record_update). *)
SummaryIsComplete == TypeOK /\ NothingLeftOut /\ MetricsCountUpdates
=============================================================================

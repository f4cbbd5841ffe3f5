-------------------------------- MODULE Zones --------------------------------
(***************************************************************************)
(* models/zone.rs, the replicated state of a zone, and hierarchy/          *)
(* zone_coordinator.rs, which judges from the zone's cells whether the     *)
(* zone may start operations.                                              *)
(*                                                                         *)
(* One timestamp orders a replica's state; every change but a merge of     *)
(* cells or capabilities sets it.  A capability is [type, confidence].     *)
(***************************************************************************)
EXTENDS Naturals, FiniteSets, Sequences, SequencesExt

CONSTANTS Replica, Cell, Leader,
          Judges,          \* the replicas a ZoneCoordinator runs at
          Offers,          \* Offers[c]: the capabilities of cell c, in order
          Fill,            \* Fill[c]: members of cell c
          CellSize,        \* max_size of every cell
          max_cells, min_cells,
          min_readiness,   \* in hundredths
          MaxTime          \* bound

VARIABLES now,
          zone,      \* zone[r]: the ZoneState of replica r
          status,    \* status[r]: the ZoneCoordinator's
          backed     \* history, backed[r]: it last saw enough cells, filled enough

vars == <<now, zone, status, backed>>

NoOne == "none"
NewZone == [coordinator |-> NoOne, cells |-> <<>>, capabilities |-> {}, timestamp |-> 0]

Init ==
  /\ now = 0
  /\ zone = [r \in Replica |-> NewZone]
  /\ status = [r \in Judges |-> "Forming"]
  /\ backed = [r \in Judges |-> FALSE]

Tick == now < MaxTime /\ now' = now + 1 /\ UNCHANGED <<zone, status, backed>>

Set(r, z) == zone' = [zone EXCEPT ![r] = z] /\ UNCHANGED <<now, status, backed>>

IsFull(z) == Len(z.cells) >= max_cells

AddCell(r, c) ==
  /\ ~IsFull(zone[r]) /\ ~Contains(zone[r].cells, c)
  /\ Set(r, [zone[r] EXCEPT !.cells = Append(@, c), !.timestamp = now])

RemoveCell(r, c) ==
  /\ Contains(zone[r].cells, c)
  /\ Set(r, [zone[r] EXCEPT !.cells = Remove(@, c), !.timestamp = now])

\* the caller's timestamp, refused when it is older
SetCoordinator(r, l, t) ==
  /\ t >= zone[r].timestamp
  /\ Set(r, [zone[r] EXCEPT !.coordinator = l, !.timestamp = t])

RemoveCoordinator(r, t) ==
  /\ t >= zone[r].timestamp
  /\ Set(r, [zone[r] EXCEPT !.coordinator = NoOne, !.timestamp = t])

Types(caps) == {p.type : p \in caps}

\* the first capability of a type stays
AddCapability(r, p) ==
  /\ p.type \notin Types(zone[r].capabilities)
  /\ Set(r, [zone[r] EXCEPT !.capabilities = @ \cup {p}, !.timestamp = now])

Merging(z, other, coordinator, timestamp) ==
  [coordinator |-> coordinator,
   timestamp |-> timestamp,
   cells |-> z.cells \o SelectSeq(other.cells, LAMBDA c : ~Contains(z.cells, c)),
   capabilities |-> z.capabilities \cup
     {p \in other.capabilities : p.type \notin Types(z.capabilities)}]

\* Variant: the newer state's lack of a coordinator is not merged
MergedKeepsCoordinator(z, other) ==
  IF other.timestamp > z.timestamp
  THEN Merging(z, other, IF other.coordinator = NoOne THEN z.coordinator ELSE other.coordinator,
               other.timestamp)
  ELSE Merging(z, other, z.coordinator, z.timestamp)

\* cells may pass max_cells here
Merged(z, other) ==
  IF other.timestamp > z.timestamp
  THEN Merging(z, other, other.coordinator, other.timestamp)
  ELSE Merging(z, other, z.coordinator, z.timestamp)

Merge(r, s) == r # s /\ Set(r, Merged(zone[r], zone[s]))

----------------------------------------------------------------------------
\* zone_coordinator.rs, called with the cells and the coordinator of replica r

\* calculate_average_readiness >= min_readiness, multiplied out
ReadyOnAverage(cells) ==
  /\ cells # <<>>
  /\ 100 * FoldLeft(LAMBDA sum, c : sum + Fill[c], 0, cells)
       >= min_readiness * CellSize * Len(cells)

\* Variant: the last capability of a type wins
BetterLast(best, p) == [t \in DOMAIN best \cup {p.type} |-> IF t = p.type THEN p ELSE best[t]]

\* one turn of aggregate_capabilities' loop: best[t], the capability kept for t
Better(best, p) ==
  [t \in DOMAIN best \cup {p.type} |->
     IF t = p.type /\ (t \notin DOMAIN best \/ p.confidence > best[t].confidence)
     THEN p ELSE best[t]]

AggregateCapabilities(cells) ==
  FoldLeft(Better, <<>>, FlattenSeq([i \in DOMAIN cells |-> Offers[cells[i]]]))

DetectEmergent(cells) ==
  LET types == DOMAIN AggregateCapabilities(cells)
  IN IF Len(cells) < 2 THEN {}
     ELSE {e \in {"isr", "relay", "strike"} :
             \/ e = "isr" /\ {"Sensor", "Compute"} \subseteq types
             \/ e = "relay" /\ {"Communication", "Mobility"} \subseteq types /\ Len(cells) >= 3
             \/ e = "strike" /\ {"Sensor", "Payload"} \subseteq types}

AddAggregated(r) ==
  \E t \in DOMAIN AggregateCapabilities(zone[r].cells) :
    AddCapability(r, AggregateCapabilities(zone[r].cells)[t])

Backed(cells) == Len(cells) >= min_cells /\ ReadyOnAverage(cells)

Judge(r, s) ==
  /\ status' = [status EXCEPT ![r] = s]
  /\ backed' = [backed EXCEPT ![r] = Backed(zone[r].cells)]
  /\ UNCHANGED <<now, zone>>

CheckFormationComplete(r) ==
  Judge(r, IF /\ Len(zone[r].cells) >= min_cells
              /\ zone[r].coordinator # NoOne
              /\ ReadyOnAverage(zone[r].cells)
           THEN "Ready" ELSE "Forming")

\* Variant: only too few cells degrade a zone
UpdateStatusCountsOnly(r) ==
  Judge(r, IF status[r] = "Ready" /\ Len(zone[r].cells) < min_cells
           THEN "Degraded" ELSE status[r])

\* the coordinator is not asked for again
UpdateStatus(r) ==
  Judge(r, IF /\ status[r] = "Ready"
              /\ Len(zone[r].cells) < min_cells \/ ~ReadyOnAverage(zone[r].cells)
           THEN "Degraded" ELSE status[r])

Next ==
  \/ Tick
  \/ \E r \in Replica :
       \/ \E c \in Cell : AddCell(r, c) \/ RemoveCell(r, c)
       \/ \E t \in 0..now : RemoveCoordinator(r, t) \/ \E l \in Leader : SetCoordinator(r, l, t)
       \/ AddAggregated(r)
       \/ \E s \in Replica : Merge(r, s)
  \/ \E r \in Judges : CheckFormationComplete(r) \/ UpdateStatus(r)

----------------------------------------------------------------------------
\* ZoneState::merge: replicas with different timestamps that merge each
\* other's state, in either order, agree on the coordinator and on the cells.
MergesAgree ==
  \A r, s \in Replica :
    LET a == Merged(zone[r], zone[s])
        b == Merged(zone[s], zone[r])
    IN zone[r].timestamp # zone[s].timestamp =>
         a.coordinator = b.coordinator /\ ToSet(a.cells) = ToSet(b.cells)

\* aggregate_capabilities, detect_emergent_capabilities: replicas that know the
\* same cells, in whatever order merges brought them, aggregate the same types
\* with the same confidence and see the same emergent capabilities.
AggregatesAlike ==
  \A r, s \in Replica :
    LET a == AggregateCapabilities(zone[r].cells)
        b == AggregateCapabilities(zone[s].cells)
    IN ToSet(zone[r].cells) = ToSet(zone[s].cells) =>
         /\ [t \in DOMAIN a |-> a[t].confidence] = [t \in DOMAIN b |-> b[t].confidence]
         /\ DetectEmergent(zone[r].cells) = DetectEmergent(zone[s].cells)

\* check_formation_complete, update_status: in whatever order the two are
\* called, a zone judged ready had enough cells, filled enough on average, when
\* it was last looked at.
ReadyIsBacked ==
  \A r \in Judges : status[r] = "Ready" => backed[r]
=============================================================================

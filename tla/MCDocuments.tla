---------------------------- MODULE MCDocuments ----------------------------
(* Documents and messages: the in-memory store, the store synchronised over
   Iroh, query evaluation, the conversions between JSON and Automerge, the
   composition of capabilities, Cursor-on-Target events, the validators of the
   schema, the forms of its type registry, deployment directives, the states of
   nodes behind their throttle, capability queries, and the roles of a cell.  Every
   behaviour exercises one of them, chosen by part; none fills what a part does not use. *)
EXTENDS Naturals, Sequences, FiniteSets

CONSTANTS c1, c2, d1, d2, o1, none

VARIABLES part, verdict,
          policy, doc, stone, lamport, unsent, sent, call, observing, view, calls, raced,
          docs, stash, writer, eraser, writes, listener, told, missed, reported,
          question, answer,
          memory, typed, written, upserts,
          caps, context, composed, adopted,
          message, event, xml, open, inDetail, inRemarks, remarksText, read, task, odd,
          kind, m, edited,
          type, form, at, faults,
          directive, adv, reports,
          now, losses, updates, changes, own, stored, pending, holder, last_sync, step, copy, latest, failed,
          query, nodes,
          had, mos, health

Stores == INSTANCE DocumentStores WITH
    Caller <- {c1, c2}, MaxCalls <- 4,
    Doc <- {d1, d2}, Observer <- {o1}, MaxWrites <- 2, ChannelCap <- 1, MaxEntries <- 1, seen <- told
ASSUME Stores!CapacityAssumption
Conversion == INSTANCE DocumentForms WITH MaxValue <- 3, MaxPattern <- 4, MaxItems <- 2, MaxUpserts <- 3

Cap(id, type_, conf, tag, meta, text, domains) ==
    [id |-> id, kind |-> type_, conf |-> conf, tag |-> tag, meta |-> meta, text |-> text,
     explicit |-> domains # {}, domains |-> domains]
(* Capabilities at and beside the thresholds of the rules, with figures that are
   missing, texts, or tied. *)
Composing == INSTANCE Composition WITH
    Contexts <- {<<>>, <<1, 4>>}, MaxCaps <- 4,
    Library <-
      {Cap("camera", "Sensor", 9, "camera", [coverage_area |-> 4], {}, {}),
       Cap("dim", "Sensor", 5, "camera", <<>>, {"coverage_area"}, {}),
       Cap("lidar", "Sensor", 8, "lidar", [coverage_area |-> 2], {}, {"sky", "other"}),
       Cap("mad", "Sensor", 7, "mad", <<>>, {}, {}),
       Cap("cpu", "Compute", 8, "", [endurance_minutes |-> 3], {}, {}),
       Cap("radio", "Communication", 9, "", [range |-> 3, bandwidth |-> 2], {}, {}),
       Cap("relay", "Communication", 6, "", [range |-> 5, endurance_minutes |-> 3], {}, {}),
       Cap("odd", "Communication", 7, "", <<>>, {"range"}, {}),
       Cap("arm", "Payload", 9, "strike_capable", [lift_capacity |-> 2], {}, {}),
       Cap("rover", "Mobility", 9, "", [max_speed |-> 3], {}, {}),
       Cap("crawler", "Mobility", 6, "", [max_speed |-> 3], {}, {}),
       Cap("flyer", "Mobility", 8, "", [max_speed |-> 7], {}, {}),
       Cap("asset", "Emergent", 9, "isr_capable", <<>>, {}, {})}

Blank == <<"none", 0>>
Optional(x) == {Blank, <<x, 0>>}
(* One message of each kind and class, with ids that need escaping, with and
   without its optional fields. *)
Events == INSTANCE Cot WITH
    Messages <-
      {msg \in [kind : {"track", "capability", "handoff", "formation"}, id : {<<"x", 0>>, <<"amp", 0>>},
                class : {"tank", "toc"}, time : {3}, hae : Optional("5"), cep : Optional("5"),
                velocity : Optional("v"), cell : Optional("c"), formation : {Blank},
                node : {<<"n", 0>>}, text : {<<"x", 0>>, <<"amp", 0>>}, priority : {2}] :
         /\ msg.text = msg.id /\ msg.hae = msg.cep
         /\ msg.kind = "handoff" => msg.cell # Blank},
    Extended <- BOOLEAN, MaxTags <- 9
Messages == INSTANCE Validation WITH
    Kinds <- {"actuator", "actuator_command", "sensor", "effector", "effector_command", "product", "task",
              "task_status", "task_control", "deployment", "deployment_status", "track", "advertisement",
              "node", "cell", "command"},
    MaxEdits <- 2
Forms == INSTANCE TypedForms WITH
    Types <- {"Geochat", "OverlayRevision", "AttachmentOffer", "Capability", "NodeConfig", "NodeState",
              "CellConfig", "CellState", "Track", "HierarchicalCommand", "Marker"},
    MaxFaults <- 1, MAX_RECIPIENTS <- 2, MAX_RETENTION_MS <- 2, MAX_FILE_BYTES <- 2, MAX_POINTS <- 3
Item(id, type_, confidence) == [id |-> id, type |-> type_, confidence |-> confidence]
(* Queries that name no type, one, or two, with thresholds met and missed. *)
Fleet == INSTANCE Nodes WITH
    Node <- {d1, d2}, Caller <- {c1, c2}, Cells <- {"c"}, sync_interval <- 1, MaxFuel <- 2, MaxTime <- 1,
    MaxChanges <- 1, MaxCalls <- 2, MaxFaults <- 1, faults <- losses, calls <- updates,
    Formation <- {"f", "g"}, Word <- {"EO", "ELECTRO_OPTICAL", "CUDA"}, Figure <- {1, 2}, MaxReports <- 2,
    Count <- 2, QueryMaxCaps <- 3,
    QueryLibrary <-
      {Item("eye", "Sensor", 9), Item("ear", "Sensor", 6), Item("cpu", "Compute", 8), Item("leg", "Mobility", 3)},
    Queries <-
      [required_types : {<<>>, <<"Sensor">>, <<"Sensor", "Compute">>}, optional_types : {<<>>, <<"Compute">>},
       min_confidence : {0, 7}, min_capability_count : {0, 2}, limit : {1, 2}],
    Occupations <- {"19D", "35N", "25U", "68W"}, RoleMaxCaps <- 4, caps <- had,
    RoleLibrary <-
      {Item("eye", "Sensor", 10), Item("ear", "Sensor", 6), Item("cpu", "Compute", 4), Item("gpu", "Compute", 9),
       Item("radio", "Communication", 10), Item("arm", "Payload", 7), Item("leg", "Mobility", 8)}
(* Queries that name no type, one, or two, with thresholds met and missed. *)

memoryVars == <<policy, doc, stone, lamport, unsent, sent, call, observing, view, calls, raced>>
irohVars == <<docs, stash, writer, eraser, writes, listener, told, missed, reported>>
queryVars == <<question, answer>>
jsonVars == <<memory, typed, written, upserts>>
compositionVars == <<caps, context, composed, adopted>>
cotVars == <<message, event, xml, open, inDetail, inRemarks, remarksText, read, task, odd>>
messagesVars == <<kind, m, edited>>
formsVars == <<type, form, at, faults>>
deploymentVars == <<directive, adv, reports>>
nodesVars == <<now, losses, updates, changes, own, stored, pending, holder, last_sync, step, copy, latest,
    failed>>
rankingVars == <<query, nodes>>
rolesVars == <<had, mos, health>>
vars == <<part, verdict, memoryVars, irohVars, queryVars, jsonVars, compositionVars, cotVars, messagesVars,
    formsVars, deploymentVars, nodesVars, rankingVars, rolesVars>>

MemoryStart ==
    IF part = "memory" THEN Stores!MemoryInit
    ELSE /\ policy = none /\ doc = none /\ stone = none /\ lamport = none /\ unsent = none /\ sent = none
         /\ call = none /\ observing = none /\ view = none /\ calls = none /\ raced = none
IrohStart ==
    IF part = "iroh" THEN Stores!IrohInit
    ELSE /\ docs = none /\ stash = none /\ writer = none /\ eraser = none /\ writes = none
         /\ listener = none /\ told = none /\ missed = none /\ reported = none
QueryStart ==
    IF part = "query" THEN Conversion!QueryInit
    ELSE /\ question = none /\ answer = none
JsonStart ==
    IF part = "json" THEN Conversion!JsonInit
    ELSE /\ memory = none /\ typed = none /\ written = none /\ upserts = none
ComposingStart ==
    IF part = "composition" THEN Composing!Init
    ELSE /\ caps = none /\ context = none /\ composed = none /\ adopted = none
EventsStart ==
    IF part = "cot" THEN Events!Init
    ELSE /\ message = none /\ event = none /\ xml = none /\ open = none /\ inDetail = none
         /\ inRemarks = none /\ remarksText = none /\ read = none /\ task = none /\ odd = none
MessagesStart ==
    IF part = "messages" THEN Messages!Init
    ELSE /\ kind = none /\ m = none /\ edited = none
FormsStart ==
    IF part = "forms" THEN Forms!Init
    ELSE /\ type = none /\ form = none /\ at = none /\ faults = none
DeployingStart ==
    IF part = "deployment" THEN Fleet!DeploymentInit
    ELSE /\ directive = none /\ adv = none /\ reports = none
NodesStart ==
    IF part = "nodes" THEN Fleet!StateInit
    ELSE /\ now = none /\ losses = none /\ updates = none /\ changes = none /\ own = none /\ stored = none
         /\ pending = none /\ holder = none /\ last_sync = none /\ step = none /\ copy = none
         /\ latest = none /\ failed = none
RankingStart ==
    IF part = "ranking" THEN Fleet!QueryInit
    ELSE /\ query = none /\ nodes = none
RolesStart ==
    IF part = "roles" THEN Fleet!RoleInit
    ELSE /\ had = none /\ mos = none /\ health = none

Init ==
    /\ part \in {"memory", "iroh", "query", "json", "composition", "cot", "messages", "forms",
                 "deployment", "nodes", "ranking", "roles"}
    /\ MemoryStart /\ IrohStart /\ QueryStart /\ JsonStart /\ ComposingStart /\ EventsStart /\ MessagesStart
    /\ FormsStart /\ DeployingStart /\ NodesStart /\ RankingStart /\ RolesStart
    /\ verdict = none \/ part \in {"messages", "forms"}

InMemory ==
    part = "memory" /\ UNCHANGED <<part, verdict, irohVars, queryVars, jsonVars,
        compositionVars, cotVars, messagesVars, formsVars, deploymentVars, nodesVars, rankingVars,
        rolesVars>>
InIroh ==
    part = "iroh" /\ UNCHANGED <<part, verdict, memoryVars, queryVars, jsonVars, compositionVars,
        cotVars, messagesVars, formsVars, deploymentVars, nodesVars, rankingVars, rolesVars>>
InQuery ==
    part = "query" /\ UNCHANGED <<part, verdict, memoryVars, irohVars, jsonVars, compositionVars,
        cotVars, messagesVars, formsVars, deploymentVars, nodesVars, rankingVars, rolesVars>>
InJson ==
    part = "json" /\ UNCHANGED <<part, verdict, memoryVars, irohVars, queryVars, compositionVars,
        cotVars, messagesVars, formsVars, deploymentVars, nodesVars, rankingVars, rolesVars>>
InComposing ==
    part = "composition" /\ UNCHANGED <<part, verdict, memoryVars, irohVars, queryVars,
        jsonVars, cotVars, messagesVars, formsVars, deploymentVars, nodesVars, rankingVars, rolesVars>>
InEvents ==
    part = "cot" /\ UNCHANGED <<part, verdict, memoryVars, irohVars, queryVars, jsonVars,
        compositionVars, messagesVars, formsVars, deploymentVars, nodesVars, rankingVars, rolesVars>>
InMessages ==
    part = "messages" /\ UNCHANGED <<part, memoryVars, irohVars, queryVars, jsonVars,
        compositionVars, cotVars, formsVars, deploymentVars, nodesVars, rankingVars, rolesVars>>
InForms ==
    part = "forms" /\ UNCHANGED <<part, memoryVars, irohVars, queryVars, jsonVars,
        compositionVars, cotVars, messagesVars, deploymentVars, nodesVars, rankingVars, rolesVars>>
InDeploying ==
    part = "deployment" /\ UNCHANGED <<part, verdict, memoryVars, irohVars, queryVars,
        jsonVars, compositionVars, cotVars, messagesVars, formsVars, nodesVars, rankingVars, rolesVars>>
InNodes ==
    part = "nodes" /\ UNCHANGED <<part, verdict, memoryVars, irohVars, queryVars, jsonVars,
        compositionVars, cotVars, messagesVars, formsVars, deploymentVars, rankingVars, rolesVars>>
InRanking ==
    part = "ranking" /\ UNCHANGED <<part, verdict, memoryVars, irohVars, queryVars, jsonVars,
        compositionVars, cotVars, messagesVars, formsVars, deploymentVars, nodesVars, rolesVars>>
InRoles ==
    part = "roles" /\ UNCHANGED <<part, verdict, memoryVars, irohVars, queryVars, jsonVars,
        compositionVars, cotVars, messagesVars, formsVars, deploymentVars, nodesVars, rankingVars>>

Next ==
    \/ InMemory /\ Stores!MemoryNext
    \/ InIroh /\ Stores!IrohNext
    \/ InQuery /\ Conversion!QueryNext
    \/ InJson /\ Conversion!JsonNext
    \/ InComposing /\ Composing!Next
    \/ InEvents /\ Events!Next
    \/ InMessages /\ Messages!Next
    \/ InForms /\ Forms!Next
    \/ InDeploying /\ Fleet!DeploymentNext
    \/ InNodes /\ Fleet!StateNext
    \/ InRanking /\ Fleet!QueryNext
    \/ InRoles /\ Fleet!RoleNext

Spec == Init /\ [][Next]_vars

(* What is written reads back: a typed collection returns what was last written,
   unless the message left the field null or held items that are dropped, and
   writing it back changes nothing; an event encoded for other systems decodes to
   itself, and only what is within its detail is taken for detail; the last state
   of a node handed to the throttled store is queued or stored, unless storing
   failed (message_to_automerge_into, CotEvent::to_xml and from_xml,
   ThrottledNodeStore). *)
WrittenReadsBack ==
    /\ part = "json" => Conversion!TypedReadsBack /\ Conversion!RewritingSettles
    /\ part = "cot" => Events!EventReadsBack /\ Events!DetailIsScoped
    /\ part = "nodes" => Fleet!UpdatesAreKept /\ Fleet!AnswersAreCurrent
(* Capabilities compose to the same whatever the order they are listed in, where
   no two tie; a constraint is the limit of its members, and a coverage counts
   only what the sensors detect; two states of a node from different seconds merge
   to the same in either order; nodes rank the same whatever order they are listed
   in, but for ties; one more capability, sure enough, never costs a node its match,
   its score or a role, and its health never decides which role is best
   (composition/rules, NodeState::merge, query_nodes, RoleScorer). *)
OrderDoesNotMatter ==
    /\ part = "composition" =>
         Composing!OrderDoesNotMatter /\ Composing!LimitIsTheMembers /\ Composing!CoverageIsDetectable
    /\ part = "nodes" => Fleet!MergesAgree
    /\ part = "ranking" => Fleet!RankingIgnoresOrder /\ Fleet!MoreNeverLoses
    /\ part = "roles" => Fleet!GainsNeverCost /\ Fleet!HealthDoesNotDecide
(* A message or a form that is accepted is within its bounds, and one that is
   filled in as its descriptor says is accepted (peat-schema validation,
   type_registry.rs). *)
AcceptedIsWithinBounds ==
    /\ part = "messages" => Messages!StateWithinLimits
    /\ part = "forms" => Forms!FormsAreJudged
=============================================================================

----------------------------- MODULE Validation -----------------------------
(***************************************************************************)
(* peat-schema/src/validation/: the predicates a typed message must pass   *)
(* before it is stored or sent.  A sender starts from an ordinary message  *)
(* of one kind, changes some of its fields, and submits it.                *)
(*                                                                         *)
(* A message is a function from the names of its fields, those of its      *)
(* sub-messages included, to small values.  Proto3 has no absent scalar:   *)
(* an empty string and an Unspecified enum are both 0.  An optional        *)
(* sub-message or timestamp may be None.  A floating-point field may be    *)
(* NaN, of which every comparison is false.  Ratios are in tenths, angles  *)
(* in quarter turns.                                                       *)
(***************************************************************************)
EXTENDS Integers, FiniteSets

CONSTANTS Kinds,      \* the kinds of message submitted
          MaxEdits    \* how many fields a sender changes

VARIABLES kind, m, edited, verdict

vars == <<kind, m, edited, verdict>>

NaN == 99
None == 98

\* a URL without "://"
Schemeless == 2

\* a < b on f32 and f64
Below(a, b) == NaN \notin {a, b} /\ a < b
AtMost(a, b) == NaN \notin {a, b} /\ a <= b
Outside(a, lo, hi) == Below(a, lo) \/ Below(hi, a)
Given(fields) == \A f \in fields : m[f] \notin {0, None}
NotNegative(fields) == \A f \in fields : ~Below(m[f], 0)
Ratio(fields) == \A f \in fields : ~Outside(m[f], 0, 10)

----------------------------------------------------------------------------
\* actuator.rs

LinearLimits == ~Below(m.max, m.min) /\ NotNegative({"velocity", "force"})

RotaryLimits == (m.continuous = 1 \/ ~Below(m.max, m.min)) /\ NotNegative({"velocity", "force"})

GripperLimits == ~Below(m.max, m.min) /\ NotNegative({"min", "force", "payload"})

ValveLimits == Ratio({"min", "max"}) /\ ~Below(m.max, m.min) /\ ~AtMost(m.velocity, 0)

BarrierLimits == Ratio({"min", "max"}) /\ ~AtMost(m.velocity, 0) /\ NotNegative({"force", "payload"})

WinchLimits == ~Below(m.max, m.min) /\ NotNegative({"min", "velocity", "force", "payload"})

\* the limits a state is compared with are those of its own variant
Limited(variant) == m.limits = variant

LinearState == Limited("linear") => ~Outside(m.position, m.min, m.max)

RotaryState == Limited("rotary") /\ m.continuous = 0 => ~Outside(m.position, m.min, m.max)

\* Variant: a state is out of its limits only when it is beyond both of them
GripperStateBothWays ==
  NotNegative({"position"}) /\ (Limited("gripper") => ~(Below(m.position, m.min) /\ Below(m.max, m.position)))

GripperState == NotNegative({"position"}) /\ (Limited("gripper") => ~Outside(m.position, m.min, m.max))

ValveState == Ratio({"position"})

BarrierState ==
  /\ Ratio({"position"})
  /\ ~(m.is_closed = 1 /\ Below(0, m.position))
  /\ ~(m.is_open = 1 /\ Below(m.position, 10))

WinchState == NotNegative({"position"}) /\ (Limited("winch") => ~Below(m.max, m.position))

ActuatorSpec ==
  /\ Given({"actuator_id", "name", "actuator_type", "mount"})
  /\ CASE m.limits = "linear" -> LinearLimits [] m.limits = "rotary" -> RotaryLimits
       [] m.limits = "gripper" -> GripperLimits [] m.limits = "valve" -> ValveLimits
       [] m.limits = "barrier" -> BarrierLimits [] m.limits = "winch" -> WinchLimits
       [] OTHER -> TRUE
  /\ CASE m.state = "linear" -> LinearState [] m.state = "rotary" -> RotaryState
       [] m.state = "gripper" -> GripperState [] m.state = "valve" -> ValveState
       [] m.state = "barrier" -> BarrierState [] m.state = "winch" -> WinchState
       [] OTHER -> TRUE

ActuatorStateUpdate == Given({"node_id", "actuator", "status", "timestamp"}) /\ ActuatorSpec

\* expires < issued is refused when both are there
NotExpiredAtIssue(issued, expires) == None \in {issued, expires} \/ expires >= issued

ActuatorCommand ==
  /\ Given({"command_id", "node_id", "actuator_id", "command_type", "issued_at"})
  /\ NotExpiredAtIssue(m.issued_at, m.expires_at)

----------------------------------------------------------------------------
\* sensor.rs

Orientation ==
  /\ ~Below(m.bearing, 0) /\ ~AtMost(4, m.bearing)
  /\ ~Outside(m.elevation, -1, 1) /\ ~Outside(m.roll, -2, 2)

FieldOfView ==
  /\ ~AtMost(m.horizontal, 0) /\ ~AtMost(4, m.horizontal)
  /\ ~AtMost(m.vertical, 0) /\ ~AtMost(2, m.vertical)
  /\ NotNegative({"max_range"})

GimbalLimits ==
  /\ ~Below(m.pan_max, m.pan_min) /\ ~Below(m.tilt_max, m.tilt_min) /\ ~Below(m.roll_max, m.roll_min)
  /\ ~AtMost(m.zoom_min, 0) /\ ~Below(m.zoom_max, m.zoom_min)

GimbalState ==
  /\ ~AtMost(m.zoom, 0)
  /\ ~Outside(m.pan, m.pan_min, m.pan_max) /\ ~Outside(m.tilt, m.tilt_min, m.tilt_max)
  /\ ~Outside(m.zoom, m.zoom_min, m.zoom_max)

FixedMount == 1

SensorSpec ==
  /\ Given({"sensor_id", "name", "mount_type", "field_of_view"})
  /\ (m.base_orientation # None => Orientation) /\ FieldOfView
  /\ m.mount_type # FixedMount => m.gimbal_limits # None /\ GimbalLimits
                                  /\ (m.current_state # None => GimbalState)
  /\ (m.width = 0) = (m.height = 0)
  /\ NotNegative({"frame_rate"})

SensorStateUpdate == Given({"node_id", "sensor", "status", "timestamp"}) /\ SensorSpec

----------------------------------------------------------------------------
\* effector.rs

Ammunition ==
  /\ m.rounds_ready <= m.rounds_total
  /\ ~(m.magazine_capacity = 0 /\ m.magazines > 0)
  /\ NotNegative({"reload_time"})

FiringSolution == Ratio({"quality", "hit_probability"}) /\ NotNegative({"time_to_impact"})

TargetDesignation == Given({"target_track_id"}) /\ NotNegative({"range"})

Authorization ==
  /\ Given({"authorization_id", "authorized_by", "level", "authorized_at"})
  /\ NotExpiredAtIssue(m.authorized_at, m.authorization_expires)

EffectorSpec ==
  /\ Given({"effector_id", "name", "effector_type", "category"})
  /\ NotNegative({"min"}) /\ ~Below(m.max, m.min)
  /\ CASE m.capacity = "ammunition" -> Ammunition
       [] m.capacity = "energy" -> Ratio({"charge", "thermal"})
       [] m.capacity = "dispenser" -> m.rounds_ready <= m.rounds_total
       [] OTHER -> TRUE
  /\ (m.target # None => TargetDesignation) /\ (m.solution # None => FiringSolution)
  /\ (m.authorization # None => Authorization)

EffectorStateUpdate == Given({"node_id", "effector", "status", "timestamp"}) /\ EffectorSpec

Arm == 1
Engage == 2

EffectorCommand ==
  /\ Given({"command_id", "node_id", "effector_id", "command_type", "issued_at"})
  /\ NotExpiredAtIssue(m.issued_at, m.expires_at)
  /\ m.command_type \in {Arm, Engage} => m.authorization # None
  /\ m.authorization # None => Authorization
  /\ m.command_type = Engage => m.target # None /\ TargetDesignation

----------------------------------------------------------------------------
\* product.rs

Image ==
  /\ Given({"format", "width", "height"})
  /\ m.image_data # "none" /\ Given({"data"})
  /\ m.image_data = "url" => m.data # Schemeless

Classification == Given({"label"}) /\ Ratio({"score"}) /\ \A s \in m.top_k : ~Outside(s, 0, 10)

Detection == Given({"label"}) /\ Ratio({"score"}) /\ m.bbox_length = 4 /\ m.frame_length = 2

Summary == Given({"text", "summary_type"})

Alert == Given({"alert_type", "severity", "text"})

Segmentation == Given({"data", "width", "height"})

Chat == Given({"response", "model_name"}) /\ NotNegative({"temperature"}) /\ Ratio({"top_p"})

Embedding == Given({"vector_length", "dimensions", "model_name"}) /\ m.vector_length = m.dimensions

Transcription == Given({"text", "language"}) /\ Ratio({"score"}) /\ NotNegative({"duration"})

Product ==
  /\ Given({"product_id", "product_type", "source_node", "timestamp"}) /\ Ratio({"confidence"})
  /\ m.model_source # None => Given({"model_id"})
  /\ CASE m.content = "image" -> Image
       [] m.content = "classification" -> Classification
       [] m.content = "detection" -> Detection
       [] m.content = "summary" -> Summary
       [] m.content = "chat" -> Chat
       [] m.content = "alert" -> Alert
       [] m.content = "embedding" -> Embedding
       [] m.content = "segmentation" -> Segmentation
       [] m.content = "transcription" -> Transcription
       [] OTHER -> FALSE

----------------------------------------------------------------------------
\* tasking.rs

DetectionFilter == Ratio({"min_confidence"}) /\ NotNegative({"report_interval"})

ChipoutConfig == m.jpeg_quality <= 10 /\ Ratio({"padding"}) /\ m.frame_quality <= 10

TrackReporting ==
  Given({"mode"}) /\ NotNegative({"position_change", "max_interval"}) /\ Ratio({"confidence_change"})

Batching == NotNegative({"batch_delay"})

ProductDelivery ==
  /\ m.chipout # None => ChipoutConfig
  /\ m.track_reporting # None => TrackReporting
  /\ m.batching # None => Batching

DetectionTask ==
  /\ Given({"task_id", "name", "priority", "issued_at", "issued_by"})
  /\ (m.filter # None => DetectionFilter) /\ (m.delivery # None => ProductDelivery)

TaskStatistics == m.reported <= m.total /\ NotNegative({"inference_time", "fps", "uptime"})

TaskStatus ==
  /\ Given({"task_id", "node_id", "task_state", "timestamp"})
  /\ m.statistics # None => TaskStatistics

Update == 2

\* the task a control message carries is looked at only when the action is UPDATE
TaskControl ==
  /\ Given({"control_id", "action", "control_by", "control_at"})
  /\ m.action = Update => m.updated_task # None /\ DetectionTask

----------------------------------------------------------------------------
\* model.rs

Sha256(hash) == hash = 1

ModelDeployment ==
  /\ Given({"deployment_id", "model_id", "version", "model_type", "url", "checksum", "file_size",
            "targets", "policy", "priority", "timestamp", "issued_by"})
  /\ m.url # Schemeless /\ Sha256(m.checksum)

Verifying == 2
Complete == 3
Failed == 4

DeploymentStatus ==
  /\ Given({"deployment_id", "node_id", "deployment_state", "timestamp"}) /\ m.progress <= 10
  /\ m.deployment_state = Failed => Given({"error_message"})
  /\ m.deployment_state \in {Complete, Verifying} => Given({"hash"})
  /\ m.hash # 0 => Sha256(m.hash)

----------------------------------------------------------------------------
\* track.rs

Finite(fields) == \A f \in fields : m[f] # NaN

TrackPosition == ~Outside(m.latitude, -1, 1) /\ ~Outside(m.longitude, -2, 2) /\ NotNegative({"cep"})

Kinematics ==
  /\ Finite({"speed", "heading", "acceleration", "vertical_speed"})
  /\ NotNegative({"speed"}) /\ ~Outside(m.heading, 0, 4)

PositionError ==
  LET errors == {"circular_error", "linear_error", "vertical_error"} IN Finite(errors) /\ NotNegative(errors)

Track ==
  /\ Given({"track_id", "position_fix", "source", "source_node"}) /\ Ratio({"confidence"})
  /\ TrackPosition
  /\ (m.kinematics # None => Kinematics) /\ (m.position_error # None => PositionError)

Merge == 2

TrackUpdate ==
  /\ Given({"update_type", "track", "timestamp"}) /\ Track
  /\ m.update_type = Merge => Given({"previous_track_id"})

----------------------------------------------------------------------------
\* capability.rs, core.rs, command.rs

Capability(c) == ~Outside(c.confidence, 0, 10) /\ c.id # 0 /\ c.name # 0

ResourceStatus == Ratio({"compute", "memory", "power", "storage", "bandwidth"})

CapabilityAdvertisement ==
  /\ Given({"node_id", "timestamp", "operational_status"})
  /\ (\A c \in m.capabilities : Capability(c)) /\ (m.resources # None => ResourceStatus)

NodeConfig ==
  /\ Given({"node_id", "node_type"}) /\ (\A c \in m.capabilities : Capability(c))
  /\ ~AtMost(m.comm_range, 0) /\ ~AtMost(m.max_speed, 0)

NodeState == m.position_fix # None => ~Outside(m.latitude, -1, 1) /\ ~Outside(m.longitude, -2, 2)

CellConfig == Given({"cell_id"}) /\ m.min_size <= m.max_size /\ m.min_size >= 2

CellState ==
  /\ m.config # None => CellConfig /\ Cardinality(m.members) <= m.max_size
  /\ \A c \in m.capabilities : Capability(c)
  /\ m.leader # None => m.leader \in m.members

Broadcast == 4

HierarchicalCommand ==
  /\ Given({"command_id", "originator_id", "target", "issued_at", "command_type"})
  /\ m.targets = 0 => m.scope = Broadcast
  /\ NotExpiredAtIssue(m.issued_at, m.expires_at)

----------------------------------------------------------------------------
\* The fields of a message of each kind, an ordinary value of each, and the
\* values a sender may give it instead.

Variants == [limits |-> {"none", "linear", "rotary", "gripper", "valve", "barrier", "winch"},
             state |-> {"none", "linear", "rotary", "gripper", "valve", "barrier", "winch", "lock"},
             capacity |-> {"none", "ammunition", "energy", "dispenser"},
             content |-> {"none", "image", "classification", "detection", "summary", "chat", "alert",
                          "embedding", "segmentation", "transcription"},
             image_data |-> {"none", "bytes", "base64", "url", "blob"}]

Parts == {"actuator", "sensor", "effector", "base_orientation", "field_of_view", "gimbal_limits",
          "current_state", "target", "solution", "authorization", "model_source", "filter", "delivery",
          "chipout", "track_reporting", "batching", "statistics", "updated_task", "kinematics",
          "position_error", "position_fix", "source", "track", "resources", "config"}
Times == {"timestamp", "issued_at", "expires_at", "authorized_at", "authorization_expires", "control_at"}
Ratios == {"min", "max", "position", "quality", "hit_probability", "charge", "thermal", "score", "top_p",
           "confidence", "min_confidence", "padding", "confidence_change", "compute", "memory", "power",
           "storage", "bandwidth"}
Angles == {"bearing", "elevation", "roll", "horizontal", "vertical", "pan_min", "pan", "pan_max",
           "tilt_min", "tilt", "tilt_max", "roll_min", "roll_max", "latitude", "longitude", "heading"}
Amounts == {"velocity", "force", "payload", "max_range", "zoom_min", "zoom", "zoom_max", "frame_rate",
            "reload_time", "time_to_impact", "range", "temperature", "duration", "report_interval",
            "position_change", "max_interval", "batch_delay", "inference_time", "fps", "uptime", "cep",
            "speed", "acceleration", "vertical_speed", "circular_error", "linear_error",
            "vertical_error", "comm_range", "max_speed"}
Percentages == {"jpeg_quality", "frame_quality", "progress"}
Counts == {"rounds_ready", "rounds_total", "magazines", "magazine_capacity", "bbox_length",
           "frame_length", "vector_length", "dimensions", "reported", "total", "min_size", "max_size",
           "scope", "deployment_state"}
Kit == {[id |-> 1, name |-> 1, confidence |-> 5], [id |-> 0, name |-> 1, confidence |-> 5],
        [id |-> 1, name |-> 1, confidence |-> 11], [id |-> 1, name |-> 1, confidence |-> NaN]}

\* every other field is a string or an enum: empty, usual, or something else
Values(f) ==
  CASE f \in DOMAIN Variants -> Variants[f]
    [] f \in Parts -> {None, 1}
    [] f \in Times -> {None, 1, 2}
    [] f \in Ratios -> {-1, 0, 2, 8, 10, 11, NaN}
    [] f \in Angles -> {-3, -1, 0, 1, 4, NaN}
    [] f \in Amounts -> {-1, 0, 2, NaN}
    [] f \in Percentages -> {0, 10, 11}
    [] f \in Counts -> {0, 1, 2, 3, 4}
    [] f = "top_k" -> {{}, {5, 11}, {NaN}}
    [] f = "capabilities" -> {{}} \cup {{c} : c \in Kit}
    [] f = "members" -> SUBSET {1, 2, 3}
    [] f = "leader" -> {None, 1, 2}
    [] OTHER -> {0, 1, 2, 3}

Usual(f) ==
  CASE f = "capacity" -> "ammunition" [] f = "image_data" -> "url"
    [] f \in Ratios \ {"min", "max"} -> 5 [] f = "max" -> 10
    [] f \in {"min", "is_open", "is_closed", "continuous"} -> 0
    [] f \in {"expires_at", "authorization_expires", "frame_length", "rounds_total", "min_size",
            "mount_type"} -> 2
    [] f = "bbox_length" -> 4 [] f = "max_size" -> 3
    [] f = "top_k" -> {5} [] f = "capabilities" -> {CHOOSE c \in Kit : Capability(c)}
    [] f = "members" -> {1, 2}
    [] OTHER -> 1

TaskFields == {"task_id", "name", "priority", "issued_at", "issued_by", "filter", "min_confidence",
               "report_interval", "delivery", "chipout", "jpeg_quality", "padding", "frame_quality",
               "track_reporting", "mode", "position_change", "confidence_change", "max_interval",
               "batching", "batch_delay"}
TargetFields == {"target", "target_track_id", "range", "authorization", "authorization_id",
                 "authorized_by", "level", "authorized_at", "authorization_expires"}
CommandFields == {"command_id", "command_type", "issued_at", "expires_at"}
UpdateFields == {"node_id", "status", "timestamp", "name"}
FixFields == {"position_fix", "latitude", "longitude"}

Fields(k) ==
  CASE k = "actuator" -> UpdateFields \cup
         {"actuator", "actuator_id", "actuator_type", "mount", "limits", "min", "max", "velocity",
          "force", "payload", "continuous", "state", "position", "is_open", "is_closed"}
    [] k = "actuator_command" -> CommandFields \cup {"node_id", "actuator_id"}
    [] k = "sensor" -> UpdateFields \cup
         {"sensor", "sensor_id", "mount_type", "base_orientation", "bearing", "elevation", "roll",
          "field_of_view", "horizontal", "vertical", "max_range", "gimbal_limits", "pan_min", "pan_max",
          "tilt_min", "tilt_max", "roll_min", "roll_max", "zoom_min", "zoom_max", "current_state",
          "pan", "tilt", "zoom", "width", "height", "frame_rate"}
    [] k = "effector" -> UpdateFields \cup TargetFields \cup
         {"effector", "effector_id", "effector_type", "category", "min", "max", "capacity",
          "rounds_ready", "rounds_total", "magazines", "magazine_capacity", "reload_time", "charge",
          "thermal", "solution", "quality", "hit_probability", "time_to_impact"}
    [] k = "effector_command" -> CommandFields \cup TargetFields \cup {"node_id", "effector_id"}
    [] k = "product" ->
         {"product_id", "product_type", "source_node", "timestamp", "confidence", "model_source",
          "model_id", "content", "format", "width", "height", "image_data", "data", "label", "score",
          "top_k", "bbox_length", "frame_length", "text", "summary_type", "response", "model_name",
          "temperature", "top_p", "alert_type", "severity", "vector_length", "dimensions", "language",
          "duration"}
    [] k = "task" -> TaskFields
    [] k = "task_status" -> {"task_id", "node_id", "task_state", "timestamp", "statistics", "reported",
                             "total", "inference_time", "fps", "uptime"}
    [] k = "task_control" ->
         TaskFields \cup {"control_id", "action", "control_by", "control_at", "updated_task"}
    [] k = "deployment" ->
         {"deployment_id", "model_id", "version", "model_type", "url", "checksum", "file_size",
          "targets", "policy", "priority", "timestamp", "issued_by"}
    [] k = "deployment_status" -> {"deployment_id", "node_id", "deployment_state", "timestamp",
                                   "progress", "error_message", "hash"}
    [] k = "track" -> FixFields \cup
         {"update_type", "track", "timestamp", "previous_track_id", "track_id", "confidence", "cep",
          "kinematics", "speed", "heading", "acceleration", "vertical_speed", "position_error",
          "circular_error", "linear_error", "vertical_error", "source", "source_node"}
    [] k = "advertisement" -> {"node_id", "timestamp", "operational_status", "capabilities",
                               "resources", "compute", "memory", "power", "storage", "bandwidth"}
    [] k = "node" -> FixFields \cup {"node_id", "node_type", "capabilities", "comm_range", "max_speed"}
    [] k = "cell" -> {"config", "cell_id", "min_size", "max_size", "members", "capabilities", "leader"}
    [] k = "command" -> CommandFields \cup {"originator_id", "target", "targets", "scope"}

Valid ==
  CASE kind = "actuator" -> ActuatorStateUpdate [] kind = "actuator_command" -> ActuatorCommand
    [] kind = "sensor" -> SensorStateUpdate
    [] kind = "effector" -> EffectorStateUpdate [] kind = "effector_command" -> EffectorCommand
    [] kind = "product" -> Product
    [] kind = "task" -> DetectionTask [] kind = "task_status" -> TaskStatus
    [] kind = "task_control" -> TaskControl
    [] kind = "deployment" -> ModelDeployment [] kind = "deployment_status" -> DeploymentStatus
    [] kind = "track" -> TrackUpdate [] kind = "advertisement" -> CapabilityAdvertisement
    [] kind = "node" -> NodeConfig /\ NodeState [] kind = "cell" -> CellState
    [] kind = "command" -> HierarchicalCommand

----------------------------------------------------------------------------
Init ==
  /\ kind \in Kinds
  /\ \E device \in Variants.limits, content \in Variants.content :
       m = [f \in Fields(kind) |-> CASE f \in {"limits", "state"} -> device
                                    [] f = "content" -> content
                                    [] OTHER -> Usual(f)]
  /\ edited = {}
  /\ verdict = "draft"

\* the sender fills a field in differently
Edit(f) ==
  /\ verdict = "draft" /\ f \notin edited /\ Cardinality(edited) < MaxEdits
  /\ \E v \in Values(f) \ {m[f]} : m' = [m EXCEPT ![f] = v]
  /\ edited' = edited \cup {f}
  /\ UNCHANGED <<kind, verdict>>

\* validate_*: the first check that fails is the error, if any does
Submit ==
  /\ verdict = "draft"
  /\ verdict' = IF Valid THEN "accepted" ELSE "refused"
  /\ UNCHANGED <<kind, m, edited>>

Next == Submit \/ \E f \in Fields(kind) : Edit(f)

Spec == Init /\ [][Next]_vars

----------------------------------------------------------------------------
Accepted == verdict = "accepted"

\* no floating-point field of the message is NaN
Real == \A f \in DOMAIN m \cap (Ratios \cup Angles \cup Amounts) : m[f] # NaN

\* valve and barrier states are never compared with limits, nor is a rotary
\* state when rotation is continuous; a winch state has no lower limit
Compared == m.state \in {"linear", "gripper"} \/ (m.state = "rotary" /\ m.continuous = 0)

\* What validate_*_spec lets through is a state the device can be in: whatever
\* fields were changed together, an accepted actuator state lies within the
\* limits sent with it, an accepted gimbal pose within the gimbal's, and a
\* barrier is not both open and closed.
StateWithinLimits ==
  Accepted /\ Real =>
    /\ kind = "actuator" =>
         /\ m.limits = m.state /\ Compared => m.min <= m.position /\ m.position <= m.max
         /\ m.limits = "winch" /\ m.state = "winch" => m.position <= m.max
         /\ m.state = "barrier" => ~(m.is_open = 1 /\ m.is_closed = 1)
    /\ kind = "sensor" /\ m.mount_type # FixedMount /\ m.current_state # None =>
         /\ m.pan_min <= m.pan /\ m.pan <= m.pan_max
         /\ m.tilt_min <= m.tilt /\ m.tilt <= m.tilt_max
         /\ 0 < m.zoom_min /\ m.zoom_min <= m.zoom /\ m.zoom <= m.zoom_max
=============================================================================

----------------------------- MODULE TypedForms -----------------------------
(***************************************************************************)
(* peat-schema/src/type_registry.rs, the descriptors: the form a consumer  *)
(* fills in by a type's descriptor.  It starts from the type's             *)
(* proto3_zero; the consumer walks the descriptor's list of fields, gives  *)
(* each a value or skips it, and hands the document to the type's          *)
(* validator.                                                              *)
(*                                                                         *)
(* A document is a record whose fields are its JSON keys.  A text is one   *)
(* of a few words; Long is a text over the length its field allows and     *)
(* Wrong a JSON value of another type.                                     *)
(***************************************************************************)
EXTENDS Naturals, Sequences, SequencesExt, FiniteSets

CONSTANTS Types,            \* the types whose forms are filled in
          MaxFaults,        \* bound: fields skipped or filled badly
          MAX_RECIPIENTS, MAX_RETENTION_MS, MAX_FILE_BYTES, MAX_POINTS

VARIABLES type, form,
          at,        \* the field the consumer is at
          faults,    \* history: fields skipped or filled badly so far
          verdict

vars == <<type, form, at, faults, verdict>>

Empty == ""
Long == "too long"
Wrong == "wrong type"
NaN == 99
NoMessage == 98

----------------------------------------------------------------------------
\* The validators' building blocks

ExactKeys(obj, required, optional) ==
  required \subseteq DOMAIN obj /\ DOMAIN obj \subseteq required \cup optional

BoundedString(obj, field) == field \in DOMAIN obj /\ obj[field] \notin {Empty, Long, Wrong}

OptionalBoundedString(obj, field) == field \in DOMAIN obj => BoundedString(obj, field)

Unsigned(obj, field) == field \in DOMAIN obj /\ obj[field] # NaN

BoundedWindow(obj, start, end) ==
  /\ Unsigned(obj, start) /\ Unsigned(obj, end)
  /\ obj[start] > 0 /\ obj[end] > obj[start] /\ obj[end] - obj[start] <= MAX_RETENTION_MS

Audience(a) ==
  LET recipients == IF "recipients" \in DOMAIN a THEN a.recipients ELSE <<>>
  IN /\ ExactKeys(a, {"kind"}, {"recipients", "group_id"}) /\ BoundedString(a, "kind")
     /\ Len(recipients) <= MAX_RECIPIENTS /\ IsInjective(recipients)
     /\ \A i \in DOMAIN recipients : BoundedString(recipients, i)
     /\ \/ a.kind = "direct" /\ Len(recipients) = 1 /\ "group_id" \notin DOMAIN a
        \/ a.kind = "group" /\ recipients # <<>> /\ BoundedString(a, "group_id")
        \/ a.kind = "broadcast" /\ recipients = <<>> /\ "group_id" \notin DOMAIN a

\* a coordinate is "in" its bounds, "out" of them, or not finite; a line's
\* points are told apart by number only
Coordinate(c) == c = "in"

Geometry(g) ==
  /\ BoundedString(g, "kind")
  /\ \/ g.kind = "point" /\ ExactKeys(g, {"kind", "point"}, {}) /\ Coordinate(g.point)
     \/ /\ g.kind \in {"line", "polygon", "route"} /\ ExactKeys(g, {"kind", "points"}, {})
        /\ Len(g.points) \in (IF g.kind = "polygon" THEN 3 ELSE 2)..MAX_POINTS
        /\ \A i \in DOMAIN g.points : Coordinate(g.points[i])
     \/ /\ g.kind = "circle" /\ ExactKeys(g, {"kind", "center", "radius_m"}, {})
        /\ Coordinate(g.center) /\ g.radius_m \notin {0, NaN}

Color(c) == c \in {"#RRGGBB", "#AARRGGBB"}

Visual(v) ==
  /\ ExactKeys(v, {}, {"title", "color", "icon_type", "stroke_width", "fill_color", "remarks", "visible"})
  /\ \A f \in {"title", "icon_type", "remarks"} : OptionalBoundedString(v, f)
  /\ \A f \in {"color", "fill_color"} \cap DOMAIN v : Color(v[f])
  /\ "stroke_width" \in DOMAIN v => v.stroke_width # NaN
  /\ "visible" \in DOMAIN v => v.visible # Wrong

Sha256(h) == h = "64 digits"

MediaType(obj) == BoundedString(obj, "media_type") /\ obj.media_type = "type/subtype"

\* Variant: the hash is not looked at
FileMetadataUnhashed(f, include_name) ==
  /\ ExactKeys(f, {"media_type", "size_bytes", "sha256", "blob_ref"}
                    \cup (IF include_name THEN {"name"} ELSE {}), {})
  /\ include_name => BoundedString(f, "name") /\ f.name # ".."
  /\ MediaType(f) /\ Unsigned(f, "size_bytes") /\ f.size_bytes \in 1..MAX_FILE_BYTES
  /\ BoundedString(f, "blob_ref")

FileMetadata(f, include_name) ==
  /\ ExactKeys(f, {"media_type", "size_bytes", "sha256", "blob_ref"}
                    \cup (IF include_name THEN {"name"} ELSE {}), {})
  /\ include_name => BoundedString(f, "name") /\ f.name # ".."
  /\ MediaType(f) /\ Unsigned(f, "size_bytes") /\ f.size_bytes \in 1..MAX_FILE_BYTES
  /\ Sha256(f.sha256) /\ BoundedString(f, "blob_ref")

----------------------------------------------------------------------------
\* The descriptors: the fields they list and what they accept

Geochat == <<"message_id", "sender_id", "audience", "sent_at_ms", "expires_at_ms", "body",
             "thread_id", "reply_to_id", "delivery_state">>

ValidGeochat ==
  /\ ExactKeys(form, {"message_id", "sender_id", "audience", "sent_at_ms", "expires_at_ms", "body",
                      "delivery_state"}, {"thread_id", "reply_to_id"})
  /\ \A f \in {"message_id", "sender_id", "body"} : BoundedString(form, f)
  /\ Audience(form.audience) /\ BoundedWindow(form, "sent_at_ms", "expires_at_ms")
  /\ \A f \in {"thread_id", "reply_to_id"} : OptionalBoundedString(form, f)
  /\ BoundedString(form, "delivery_state")
  /\ form.delivery_state \in {"queued", "sent", "delivered", "failed", "expired"}

OverlayRevision == <<"overlay_id", "revision_id", "revision_seq", "actor_id", "owner_id", "audience",
                     "source_time_ms", "deleted", "geometry", "visual">>

ValidOverlayRevision ==
  LET texts == {"overlay_id", "revision_id", "actor_id", "owner_id"}
      given(f) == f \in DOMAIN form
  IN /\ ExactKeys(form, texts \cup {"revision_seq", "audience", "source_time_ms", "deleted"},
                  {"geometry", "visual"})
     /\ \A f \in texts : BoundedString(form, f)
     /\ \A f \in {"revision_seq", "source_time_ms"} : Unsigned(form, f) /\ form[f] # 0
     /\ Audience(form.audience)
     /\ \/ /\ form.deleted = "false" /\ given("geometry") /\ given("visual")
           /\ Geometry(form.geometry) /\ Visual(form.visual)
        \/ form.deleted = "true" /\ ~given("geometry") /\ ~given("visual")

AttachmentOffer == <<"offer_id", "sender_id", "audience", "created_at_ms", "expires_at_ms",
                     "content_kind", "relation", "file", "thumbnail">>

Relation(r) ==
  /\ ExactKeys(r, {"kind"}, {"id"})
  /\ \/ r.kind = "none" /\ "id" \notin DOMAIN r
     \/ r.kind \in {"chat", "overlay"} /\ BoundedString(r, "id")

ValidAttachmentOffer ==
  /\ ExactKeys(form, {"offer_id", "sender_id", "audience", "created_at_ms", "expires_at_ms",
                      "content_kind", "relation", "file"}, {"thumbnail"})
  /\ \A f \in {"offer_id", "sender_id"} : BoundedString(form, f)
  /\ Audience(form.audience) /\ BoundedWindow(form, "created_at_ms", "expires_at_ms")
  /\ form.content_kind \in {"photo", "file"}
  /\ Relation(form.relation) /\ FileMetadata(form.file, TRUE)
  /\ IF form.content_kind = "photo"
     THEN /\ "thumbnail" \in DOMAIN form /\ FileMetadata(form.thumbnail, FALSE)
          /\ form.thumbnail.size_bytes < form.file.size_bytes
     ELSE "thumbnail" \notin DOMAIN form

----------------------------------------------------------------------------
\* The values of fields: well and badly filled in

Numbers == {"revision_seq", "sent_at_ms", "expires_at_ms", "created_at_ms", "source_time_ms",
            "capability_type", "confidence", "comm_range_m", "max_speed_mps", "fuel_minutes", "health",
            "phase", "max_size", "min_size", "state", "source_type", "observation_count", "priority",
            "buffer_policy", "conflict_policy", "acknowledgment_policy", "version", "lat", "lon", "hae", "ts"}
Messages == {"position", "source", "target", "config", "issued_at", "expires_at", "registered_at",
             "created_at", "timestamp", "first_seen", "last_seen", "operator_binding"}
Optional == {"thread_id", "reply_to_id", "geometry", "visual", "thumbnail"}

Point(c) == [kind |-> "point", point |-> c]
Line(kind, n) == [kind |-> kind, points |-> [i \in 1..n |-> "in"]]
Circle(r) == [kind |-> "circle", center |-> "in", radius_m |-> r]
File(size, hash) == [media_type |-> "type/subtype", size_bytes |-> size, sha256 |-> hash, blob_ref |-> "blob"]
Named(name, f) == [k \in DOMAIN f \cup {"name"} |-> IF k = "name" THEN name ELSE f[k]]

Good(f) ==
  CASE f = "audience" -> {[kind |-> "direct", recipients |-> <<"a">>], [kind |-> "broadcast"],
                          [kind |-> "group", recipients |-> <<"a", "b">>, group_id |-> "g"]}
    [] f = "geometry" -> {Point("in"), Line("polygon", 3), Line("route", 2), Circle(1)}
    [] f = "visual" -> {[title |-> "t", color |-> "#RRGGBB"], [visible |-> "false", stroke_width |-> 0]}
    [] f = "relation" -> {[kind |-> "none"], [kind |-> "chat", id |-> "m"]}
    [] f = "file" -> {Named("photo", File(MAX_FILE_BYTES, "64 digits"))}
    [] f = "thumbnail" -> {File(1, "64 digits")}
    [] f = "content_kind" -> {"photo", "file"}
    [] f = "deleted" -> {"false", "true"}
    [] f = "delivery_state" -> {"queued", "expired"}
    [] f = "expires_at_ms" -> {1 + MAX_RETENTION_MS}
    [] f \in {"max_size", "min_size", "expires_at"} -> {2}
    [] f = "members" -> {{1}}
    [] f \in Numbers \cup Messages -> {1}
    [] OTHER -> {"text"}

Bad(f) ==
  CASE f = "audience" -> {[kind |-> "direct"], [kind |-> "group", recipients |-> <<"a">>],
                          [kind |-> "broadcast", recipients |-> <<"a">>],
                          [kind |-> "group", recipients |-> <<"a", "a">>, group_id |-> "g"],
                          [kind |-> "group", recipients |-> <<"a", "b", "c">>, group_id |-> "g"]}
    [] f = "geometry" -> {Point("out"), Line("polygon", 2), Line("line", MAX_POINTS + 1), Circle(0)}
    [] f = "visual" -> {[color |-> "red"], [title |-> Empty], [stroke_width |-> NaN], [visible |-> Wrong]}
    [] f = "relation" -> {[kind |-> "none", id |-> "m"], [kind |-> "chat"], [kind |-> "overlay", id |-> Empty]}
    [] f = "file" -> {Named("..", File(2, "64 digits")), Named("photo", File(MAX_FILE_BYTES + 1, "64 digits")),
                      Named("photo", File(2, "63 digits")), File(2, "64 digits")}
    [] f = "thumbnail" -> {File(MAX_FILE_BYTES, "64 digits"), File(1, "63 digits"), Named("t", File(1, "64 digits"))}
    [] f = "expires_at_ms" -> {0, 1, 2 + MAX_RETENTION_MS, NaN}
    [] f = "members" -> {{}, {1, 2, 3}}
    [] f \in Numbers -> {0, NaN}
    [] f \in Messages -> {0, 7}
    [] OTHER -> {Empty, Long, Wrong}

----------------------------------------------------------------------------
\* A message type's document is its prost struct, so that a value of another
\* JSON type does not deserialise; validation/ judges the message.
Text(f) == IF form[f] = Empty THEN 0 ELSE 1

Capability == <<"id", "name", "capability_type", "confidence", "metadata_json", "registered_at">>
NodeConfig == <<"id", "node_type", "capabilities", "comm_range_m", "max_speed_mps",
                "operator_binding", "created_at">>
NodeState == <<"position", "fuel_minutes", "health", "phase", "cell_id", "zone_id", "timestamp">>
CellConfig == <<"id", "max_size", "min_size", "created_at">>
CellState == <<"config", "leader_id", "members", "capabilities", "cohort_id", "timestamp">>
Track == <<"track_id", "classification", "confidence", "position", "state", "source", "source_type",
           "attributes_json", "first_seen", "last_seen", "observation_count">>
\* the command_type the validator asks for is not among the fields
HierarchicalCommand == <<"command_id", "originator_id", "target", "priority", "buffer_policy",
                         "conflict_policy", "acknowledgment_policy", "issued_at", "expires_at", "version">>
Marker == <<"uid", "type", "lat", "lon", "hae", "ts", "callsign", "cell_id">>

\* the message as Validation sees it; a position or config is good, bad or absent
Message ==
  CASE type = "Capability" ->
         [id |-> Text("id"), name |-> Text("name"), confidence |-> form.confidence]
    [] type = "NodeConfig" ->
         [node_id |-> Text("id"), node_type |-> Text("node_type"), capabilities |-> {},
          comm_range |-> form.comm_range_m, max_speed |-> form.max_speed_mps]
    [] type = "NodeState" ->
         [position_fix |-> form.position, latitude |-> form.position, longitude |-> 0]
    [] type = "CellConfig" ->
         [cell_id |-> Text("id"), min_size |-> form.min_size, max_size |-> form.max_size]
    [] type = "CellState" ->
         [config |-> form.config, cell_id |-> form.config, min_size |-> 2, max_size |-> 2,
          members |-> form.members, capabilities |-> {},
          leader |-> IF form.leader_id = Empty THEN NoMessage ELSE 1]
    [] type = "Track" ->
         [track_id |-> Text("track_id"), position_fix |-> form.position, latitude |-> form.position,
          longitude |-> 0, cep |-> 0, source |-> form.source, source_node |-> form.source,
          confidence |-> form.confidence, kinematics |-> NoMessage, position_error |-> NoMessage]
    [] type = "HierarchicalCommand" ->
         [command_id |-> Text("command_id"), originator_id |-> Text("originator_id"),
          target |-> form.target, targets |-> 1, scope |-> 1, command_type |-> NoMessage,
          issued_at |-> form.issued_at, expires_at |-> form.expires_at]

V == INSTANCE Validation
       WITH Kinds <- Types, MaxEdits <- 0, kind <- type, m <- Message, edited <- {}

\* deserialise, then the type's validate_ function
ValidMessage ==
  /\ \A f \in DOMAIN form \ (Numbers \cup Messages \cup {"members"}) : form[f] # Wrong
  /\ \A f \in DOMAIN form \cap Numbers : form[f] # NaN
  /\ CASE type = "Capability" -> V!Capability(Message)
       [] type = "NodeConfig" -> V!NodeConfig
       [] type = "NodeState" -> V!NodeState
       [] type = "CellConfig" -> V!CellConfig
       [] type = "CellState" -> V!CellState
       [] type = "Track" -> V!Track
       [] type = "HierarchicalCommand" -> V!HierarchicalCommand

\* the keys must be there; a uid may be empty, or null
ValidMarker ==
  /\ {"uid", "type", "lat", "lon"} \subseteq DOMAIN form
  /\ form.lat \in 0..90 /\ form.lon \in 0..180

----------------------------------------------------------------------------
\* Filling in a form

Fields ==
  CASE type = "Geochat" -> Geochat
    [] type = "OverlayRevision" -> OverlayRevision
    [] type = "AttachmentOffer" -> AttachmentOffer
    [] type = "Capability" -> Capability
    [] type = "NodeConfig" -> NodeConfig
    [] type = "NodeState" -> NodeState
    [] type = "CellConfig" -> CellConfig
    [] type = "CellState" -> CellState
    [] type = "Track" -> Track
    [] type = "HierarchicalCommand" -> HierarchicalCommand
    [] type = "Marker" -> Marker

\* the types whose zero is {} and whose keys are checked
Strict == {"Geochat", "OverlayRevision", "AttachmentOffer"}

Valid ==
  CASE type = "Geochat" -> ValidGeochat
    [] type = "OverlayRevision" -> ValidOverlayRevision
    [] type = "AttachmentOffer" -> ValidAttachmentOffer
    [] type = "Marker" -> ValidMarker
    [] OTHER -> ValidMessage

Proto3Zero(t, fields) ==
  IF t \in Strict THEN <<>>
  ELSE [f \in Range(fields) |-> CASE f \in Numbers -> 0
                                  [] f \in Messages -> NoMessage
                                  [] f = "members" -> {}
                                  [] OTHER -> Empty]

Init ==
  /\ type \in Types /\ form = Proto3Zero(type, Fields)
  /\ at = 1 /\ faults = 0 /\ verdict = "open"

Put(f, v) == form' = [k \in DOMAIN form \cup {f} |-> IF k = f THEN v ELSE form[k]]

Fill ==
  /\ at <= Len(Fields) /\ at' = at + 1
  /\ LET f == Fields[at]
     IN \/ (\E v \in Good(f) : Put(f, v)) /\ faults' = faults
        \/ (\E v \in Bad(f) : Put(f, v)) /\ faults < MaxFaults /\ faults' = faults + 1
        \/ form' = form /\ f \in Optional /\ faults' = faults
        \/ form' = form /\ f \notin Optional /\ faults < MaxFaults /\ faults' = faults + 1
  /\ UNCHANGED <<type, verdict>>

Submit ==
  /\ at = Len(Fields) + 1 /\ verdict = "open"
  /\ verdict' = IF Valid THEN "accepted" ELSE "refused"
  /\ UNCHANGED <<type, form, at, faults>>

Next == Fill \/ Submit

----------------------------------------------------------------------------
\* live revisions carry geometry and visual, photos a thumbnail
Coherent ==
  /\ type = "OverlayRevision" =>
       ({"geometry", "visual"} \cap DOMAIN form) =
         (IF form.deleted = "false" THEN {"geometry", "visual"} ELSE {})
  /\ type = "AttachmentOffer" => (form.content_kind = "photo") = ("thumbnail" \in DOMAIN form)

\* TypeDescriptor: a form whose listed fields were all filled in well is
\* accepted by the type's validator, and a collaboration document with a field
\* missing or out of bounds is refused; a command's fields are too few.
FormsAreJudged ==
  /\ verdict # "open" /\ faults = 0 /\ Coherent /\ type # "HierarchicalCommand" => verdict = "accepted"
  /\ verdict = "accepted" /\ type \in Strict => faults = 0 /\ Coherent
=============================================================================

--------------------------------- MODULE Cot ---------------------------------
(* The Cursor-on-Target translation layer (cot/): a Peat message becomes a CoT
   event, the event an XML document, and a reader goes through a document tag by
   tag.  The documents read are those of this encoder and any others a TAK
   server may send.  Text is a pair <<letters, depth>>: "amp" has a character
   that XML escapes, and depth counts the escapings it carries.  Absent is
   <<"none", 0>>; times are in half milliseconds. *)
EXTENDS Naturals, Sequences, SequencesExt

CONSTANTS Messages,     \* the Peat messages encoded, as records
          Extended,     \* CotEncoderConfig::include_peat_extension
          MaxTags       \* tags of a foreign document

None == <<"none", 0>>
Unknown == <<"9999999", 0>>

VARIABLES message,      \* the message encoded, or a foreign document
          event,        \* the event written
          xml,          \* the tags still to be read
          open,         \* the elements open in the document
          inDetail, inRemarks, remarksText,
          read,         \* what from_xml has taken so far
          task,         \* the mission task made of it
          odd           \* an empty <detail/> or <remarks/> was read

vars == <<message, event, xml, open, inDetail, inRemarks, remarksText, read, task, odd>>

-----------------------------------------------------------------------------
(* Types: affiliation, and the classification words of a track or a node. *)

CotChar(affiliation) ==
    CASE affiliation \in {"Friendly", "AssumedFriendly"} -> "f"
      [] affiliation \in {"Hostile", "Suspect"} -> "h"
      [] affiliation = "Neutral" -> "n"
      [] affiliation \in {"Unknown", "Pending"} -> "u"

EntityClassification(word) ==
    CASE word \in {"person", "personnel", "human", "dismount"} -> "Person"
      [] word \in {"vehicle", "car", "truck", "tank"} -> "Vehicle"
      [] word \in {"aircraft", "plane", "helicopter", "helo"} -> "Aircraft"
      [] word \in {"uav", "drone", "uas"} -> "Uav"
      [] word \in {"vessel", "ship", "boat", "maritime"} -> "Vessel"
      [] word \in {"ugv", "robot", "ground_robot"} -> "Ugv"
      [] word \in {"sensor", "equipment"} -> "Sensor"
      [] word \in {"unit", "team", "cell", "squad"} -> "Unit"
      [] OTHER -> "Custom"

MapEntity(entity, affiliation) ==
    <<"a", CotChar(affiliation),
      CASE entity \in {"Person", "Sensor"} -> "G-E-S" [] entity = "Vehicle" -> "G-E-V"
        [] entity = "Aircraft" -> "A" [] entity = "Uav" -> "A-M-F-Q" [] entity = "Vessel" -> "S"
        [] entity \in {"Ugv", "Unit"} -> "G-U-C" [] OTHER -> "G">>

MapNode(word, affiliation) ==
    <<"a", CotChar(affiliation),
      CASE word \in {"uav", "drone", "uas"} -> "A-M-F-Q"
        [] word \in {"soldier", "operator", "dismount"} -> "G-U-C-I"
        [] word \in {"vehicle", "humvee", "mrap"} -> "G-U-C-V"
        [] word \in {"command_vehicle", "toc"} -> "G-U-C-V-H"
        [] word = "sensor_node" -> "G-E-S"
        [] OTHER -> "G-U-C">>

-----------------------------------------------------------------------------
(* CotEncoder: one builder chain per kind of message. *)

Or(value, default) == IF value = None THEN default ELSE value
Link(uid, relation) == [uid |-> uid, relation |-> relation]
Parent(m) == IF m.cell = None THEN <<>> ELSE <<Link(m.cell, "p-p")>>

\* CotEventBuilder: what every chain sets, and the defaults of the rest.
Build(uid, type, m, stale) ==
    [uid |-> uid, type |-> type, time |-> m.time, start |-> m.time, stale |-> m.time + stale, how |-> <<"m-g", 0>>,
     hae |-> Or(m.hae, <<"0", 0>>), ce |-> Or(m.cep, Unknown), track |-> None, callsign |-> None,
     remarks |-> <<"text", 0>>, links |-> <<>>, group |-> None, ext |-> {}, priority |-> None]

\* PeatHierarchy, left out when the node is in no cell and no formation.
Hierarchy(m) == IF m.cell = None /\ m.formation = None THEN {} ELSE {"hierarchy"}

TrackUpdateToEvent(m, ext) ==
    [Build(m.id, MapEntity(EntityClassification(m.class), "Friendly"), m, 60000) EXCEPT
        !.track = m.velocity,
        !.remarks = m.text,
        !.ext = IF ext THEN {"source", "confidence", "attributes"} \cup Hierarchy(m) ELSE {},
        !.links = <<Link(m.node, "o-o")>> \o Parent(m)]

CapabilityToEvent(m, ext) ==
    [Build(m.id, MapNode(m.class, "Friendly"), m, 120000) EXCEPT
        !.callsign = m.id,
        !.group = m.cell,
        !.ext = IF ext THEN {"status", "capability"} \cup Hierarchy(m) ELSE {},
        !.links = Parent(m)]

FlowPriority(priority) ==
    <<CASE priority = 1 -> "flash" [] priority = 2 -> "immediate" [] priority = 3 -> "routine"
        [] priority = 4 -> "deferred" [] OTHER -> "bulk", 0>>

\* The uid is the track's with HANDOFF- in front, which changes nothing about its characters.
HandoffToEvent(m, ext) ==
    [Build(m.id, <<"a", "x", "h-h">>, m, 600000) EXCEPT
        !.priority = FlowPriority(m.priority),
        !.ext = IF ext THEN {"handoff"} ELSE {},
        !.links = <<Link(m.node, "h-h"), Link(m.cell, "h-h"), Link(m.id, "o-o")>>]

FormationSummaryToEvent(m, ext) ==
    [Build(m.id, <<"a", "f", "G-U-C">>, m, 120000) EXCEPT
        !.callsign = m.node,
        !.ext = IF ext THEN {"status", "hierarchy", "capability"} ELSE {}]

ToEvent(m, ext) ==
    CASE m.kind = "track" -> TrackUpdateToEvent(m, ext)
      [] m.kind = "capability" -> CapabilityToEvent(m, ext)
      [] m.kind = "handoff" -> HandoffToEvent(m, ext)
      [] m.kind = "formation" -> FormationSummaryToEvent(m, ext)

-----------------------------------------------------------------------------
(* CotEvent::to_xml.  push_attribute and BytesText escape what they write;
   format_time keeps milliseconds. *)

Escape(text) == IF text[1] = "amp" THEN <<text[1], text[2] + 1>> ELSE text
Millis(time) == 2 * (time \div 2)

Tag(form, name, value) == <<[form |-> form, name |-> name, value |-> value]>>
Given(value, name) == IF value = None THEN <<>> ELSE Tag("empty", name, Escape(value))

\* Variant: stale takes the place of start.
EventTagStartsStale(e) ==
    Tag("start", "event", [uid |-> Escape(e.uid), type |-> e.type, time |-> Millis(e.time), start |-> Millis(e.stale),
                           stale |-> Millis(e.stale), how |-> Escape(e.how)])
EventTag(e) ==
    Tag("start", "event", [uid |-> Escape(e.uid), type |-> e.type, time |-> Millis(e.time), start |-> Millis(e.start),
                           stale |-> Millis(e.stale), how |-> Escape(e.how)])
WritePoint(e) == Tag("empty", "point", [hae |-> e.hae, ce |-> e.ce])

\* PeatExtension::write_xml; of its elements only an attribute has text.
WriteExtension(ext) ==
    IF ext = {} THEN <<>>
    ELSE Tag("start", "_peat_", None)
         \o FlattenSeq([i \in 1..Len(SetToSeq(ext \ {"attributes"})) |->
                            Tag("empty", SetToSeq(ext \ {"attributes"})[i], None)])
         \o (IF "attributes" \in ext
             THEN Tag("start", "attr", None) \o Tag("text", "", <<"value", 0>>) \o Tag("end", "attr", None)
             ELSE <<>>)
         \o Tag("end", "_peat_", None)

WriteDetail(e) ==
    Tag("start", "detail", None)
    \o Given(e.track, "track") \o Given(e.callsign, "contact") \o Given(e.group, "__group")
    \o Tag("start", "remarks", None) \o Tag("text", "", Escape(e.remarks)) \o Tag("end", "remarks", None)
    \o WriteExtension(e.ext)
    \o FlattenSeq([i \in 1..Len(e.links) |-> Tag("empty", "link", [e.links[i] EXCEPT !.uid = Escape(@)])])
    \o Given(e.priority, "_flow-tags_")
    \o Tag("end", "detail", None)

ToXml(e) == EventTag(e) \o WritePoint(e) \o WriteDetail(e) \o Tag("end", "event", None)

-----------------------------------------------------------------------------
(* CotEvent::from_xml, tag by tag.  Attribute values are taken as they stand in
   the document; the pieces of a text around an escaped character are joined
   without it. *)

Blank == [uid |-> None, type |-> <<>>, time |-> 0, start |-> 0, stale |-> 0, how |-> <<"m-g", 0>>,
          hae |-> None, ce |-> None, track |-> None, callsign |-> None, remarks |-> <<>>, links |-> <<>>]
Pieces(text) == IF text[1] = "amp" THEN <<"cut", 0>> ELSE text

ReadAttributes(t) ==
    CASE t.name = "event" ->
            [read EXCEPT !.uid = t.value.uid, !.type = t.value.type, !.time = t.value.time,
                         !.start = t.value.start, !.stale = t.value.stale, !.how = t.value.how]
      [] t.name = "point" -> [read EXCEPT !.hae = t.value.hae, !.ce = t.value.ce]
      [] t.name = "track" /\ inDetail -> [read EXCEPT !.track = t.value]
      [] t.name = "contact" /\ inDetail -> [read EXCEPT !.callsign = t.value]
      [] t.name = "link" /\ inDetail -> [read EXCEPT !.links = Append(@, t.value)]
      [] OTHER -> read

\* Event::Start and Event::Empty are handled alike.
ReadStart(t) ==
    /\ t.form \in {"start", "empty"}
    /\ read' = ReadAttributes(t)
    /\ inDetail' = (inDetail \/ t.name = "detail")
    /\ inRemarks' = (inRemarks \/ (t.name = "remarks" /\ inDetail))
    /\ remarksText' = IF t.name = "remarks" /\ inDetail THEN <<>> ELSE remarksText
    /\ open' = IF t.form = "start" THEN Append(open, t.name) ELSE open
    /\ odd' = (odd \/ (t.form = "empty" /\ t.name \in {"detail", "remarks"}))

ReadText(t) ==
    /\ t.form = "text"
    /\ remarksText' = IF inRemarks THEN Append(remarksText, Pieces(t.value)) ELSE remarksText
    /\ UNCHANGED <<read, inDetail, inRemarks, open, odd>>

\* Variant: the end of the detail goes unnoticed.
ReadEndStaysInDetail(t) ==
    /\ t.form = "end" /\ open # <<>> /\ open' = Front(open)
    /\ inDetail' = inDetail
    /\ inRemarks' = (inRemarks /\ t.name # "remarks")
    /\ read' = IF t.name = "remarks" /\ remarksText # <<>> THEN [read EXCEPT !.remarks = remarksText] ELSE read
    /\ UNCHANGED <<remarksText, odd>>

ReadEnd(t) ==
    /\ t.form = "end" /\ open # <<>> /\ open' = Front(open)
    /\ inDetail' = (inDetail /\ t.name # "detail")
    /\ inRemarks' = (inRemarks /\ t.name # "remarks")
    /\ read' = IF t.name = "remarks" /\ remarksText # <<>> THEN [read EXCEPT !.remarks = remarksText] ELSE read
    /\ UNCHANGED <<remarksText, odd>>

Read(t) == (ReadStart(t) \/ ReadText(t) \/ ReadEnd(t)) /\ UNCHANGED <<message, event, task>>

\* MissionTask::from_cot_event
TaskType(type) ==
    CASE type = <<"t", "x", "m-c-c">> -> "TrackTarget" [] type = <<"t", "x", "m-c-s">> -> "SearchArea"
      [] type = <<"t", "x", "m-c-a">> -> "Abort" [] type = <<"t", "x", "m-c">> -> "TrackTarget"
      [] OTHER -> "none"

Now == 100
Defaulted(r) ==
    LET time == IF r.time = 0 THEN Now ELSE r.time
    IN  [r EXCEPT !.time = time, !.start = IF @ = 0 THEN time ELSE @, !.stale = IF @ = 0 THEN time + 600000 ELSE @]

\* The document ends: the missing fields are errors or get their defaults.
Finish ==
    /\ xml = <<>> /\ open = <<>> /\ task.state = "reading"
    /\ IF read.uid = None \/ read.type = <<>> \/ read.ce = None
       THEN task' = [task EXCEPT !.state = "error"] /\ read' = read
       ELSE /\ read' = Defaulted(read)
            /\ task' = [state |-> "event", type |-> TaskType(read.type), target |-> read.remarks]
    /\ UNCHANGED <<message, event, xml, open, inDetail, inRemarks, remarksText, odd>>

(* A document is one this encoder wrote, or any other well-formed one of up to
   MaxTags tags: its track and its text are marked with whether they are the
   detail's own. *)

Unseen == [form |-> "any", name |-> "", value |-> None]

Init ==
    /\ \/ /\ message \in Messages
          /\ \E ext \in Extended : event = ToEvent(message, ext)
          /\ xml = ToXml(event)
       \/ message = [kind |-> "foreign"] /\ event = Blank /\ xml = [i \in 1..MaxTags |-> Unseen]
    /\ open = <<>> /\ inDetail = FALSE /\ inRemarks = FALSE /\ remarksText = <<>>
    /\ read = Blank /\ task = [state |-> "reading", type |-> "none", target |-> <<>>] /\ odd = FALSE

ReadOwn == message.kind # "foreign" /\ xml # <<>> /\ xml' = Tail(xml) /\ Read(Head(xml))

Within(path) == IsSuffix(path, open)
Mark(path) == IF Within(path) THEN <<"in", 0>> ELSE <<"out", 0>>
ForeignEvent(type, time) ==
    [uid |-> <<"x", 0>>, type |-> type, time |-> time, start |-> 0, stale |-> 0, how |-> <<"h", 0>>]

ReadForeign ==
    /\ message.kind = "foreign" /\ xml # <<>> /\ xml' = Tail(xml)
    /\ \/ /\ open = <<>> /\ Len(xml) = MaxTags
          /\ \E type \in {<<>>, <<"t", "x", "m-c-s">>} : \E time \in {0, 7} :
                Read(Tag("start", "event", ForeignEvent(type, time))[1])
       \/ /\ Within(<<"event">>)
          /\ \/ Read(Tag("empty", "point", [hae |-> None, ce |-> Unknown])[1])
             \/ \E form \in {"start", "empty"} : Read(Tag(form, "detail", None)[1])
       \/ /\ Within(<<"event">>) \/ Within(<<"detail">>)
          /\ \/ Read(Tag("empty", "track", Mark(<<"detail">>))[1])
             \/ \E form \in {"start", "empty"} : Read(Tag(form, "remarks", None)[1])
       \/ Within(<<"detail">>) /\ Read(Tag("start", "attr", None)[1])
       \/ /\ Within(<<"remarks">>) \/ Within(<<"attr">>)
          /\ Read(Tag("text", "", Mark(<<"detail", "remarks">>))[1])
       \/ open # <<>> /\ Read(Tag("end", Last(open), None)[1])

\* The foreign document is over.
EndForeign ==
    /\ message.kind = "foreign" /\ open = <<>> /\ xml # <<>> /\ Len(xml) < MaxTags /\ xml' = <<>>
    /\ UNCHANGED <<message, event, open, inDetail, inRemarks, remarksText, read, task, odd>>

Next == ReadOwn \/ ReadForeign \/ EndForeign \/ Finish

Spec == Init /\ [][Next]_vars

-----------------------------------------------------------------------------
Fields == {"uid", "type", "how", "hae", "ce", "track", "callsign", "links"}
Plain(e) == "amp" \notin {e.uid[1], e.callsign[1], e.remarks[1]} \cup {e.links[i].uid[1] : i \in DOMAIN e.links}

\* An event this encoder wrote reads back: identity, type, place, track, callsign, links and
\* remarks as they were and the times to the millisecond, as long as no text needs escaping.
EventReadsBack ==
    message.kind # "foreign" /\ task.state # "reading" /\ Plain(event) =>
        /\ task.state = "event"
        /\ \A f \in Fields : read[f] = event[f]
        /\ read.remarks = <<event.remarks>>
        /\ \A f \in {"time", "start", "stale"} : read[f] = Millis(event[f])

\* from_xml takes a track and remarks only from inside a detail element, unless the document
\* closed a detail or a remarks element in the tag that opened it.
DetailIsScoped ==
    ~odd => read.track # <<"out", 0>> /\ <<"out", 0>> \notin Range(read.remarks)
=============================================================================

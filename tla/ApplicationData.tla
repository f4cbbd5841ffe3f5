-------------------------- MODULE ApplicationData ---------------------------
(* What applications keep in a node: pages of documents, shared documents, typed
   records and blobs, each a state machine of its own. *)
EXTENDS Sequences, SequencesExt, FiniteSets, FiniteSetsExt, Integers, TLC

(***************************************************************************)
(* Paged reads of the application API: documents of a collection, by key   *)
(* (peat-ffi/src/lib.rs), and delivery operations, by offset               *)
(* (peat-ffi/src/application_delivery.rs).  A reader scans from no cursor  *)
(* to no cursor while documents are written, deleted and synced in, and    *)
(* operations are submitted and purged by their owner (external).          *)
(***************************************************************************)

CONSTANTS Ids,           \* document and operation ids, as naturals in their order
          MaxLimit,      \* MAX_APPLICATION_QUERY_LIMIT, MAX_PAGE_LIMIT
          MaxDocBytes,   \* MAX_APPLICATION_DOCUMENT_BYTES
          MaxPageBytes,  \* MAX_APPLICATION_PAGE_BYTES
          MaxTargets,
          MaxWrites      \* bound

DocKinds == {"documents", "operations"}
Sizes == {1, MaxDocBytes, MaxDocBytes + 1}

VARIABLES docs,      \* id -> size of the collection scanned
          operations,       \* operations the owner lists, by id
          scan,      \* [kind, cursor, got, kept] of the reader, or NoScan
          purged,    \* history: an operation was purged during the scan
          writes

pagesVars == <<docs, operations, scan, purged, writes>>

NoScan == [kind |-> "none", cursor |-> 0, got |-> {}, kept |-> {}]

PagesInit == docs = << >> /\ operations = {} /\ scan = NoScan /\ purged = FALSE /\ writes = 0

Write == writes < MaxWrites /\ writes' = writes + 1

\* put_document, publish_document, or a peer's document synced in.
PutDocument(id, size) ==
    /\ Write /\ docs' = [i \in DOMAIN docs \cup {id} |-> IF i = id THEN size ELSE docs[i]]
    /\ UNCHANGED <<operations, scan, purged>>

DeleteDocument(id) ==
    /\ Write /\ id \in DOMAIN docs
    /\ docs' = [i \in DOMAIN docs \ {id} |-> docs[i]]
    /\ scan' = [scan EXCEPT !.kept = IF scan.kind = "documents" THEN @ \ {id} ELSE @]
    /\ UNCHANGED <<operations, purged>>

\* application_delivery_submit: the request is refused, or the owner has it.
Requests ==
    [token : BOOLEAN, body : {0, 1, MaxDocBytes + 1}, expires : {"past", "future"},
     targets : {<< >>, <<"a">>, <<"a", "b">>, <<"a", "a">>, <<"bad">>},
     audience : {"direct", "group"}, registered : BOOLEAN]

Accepted(r) ==
    /\ r.token /\ r.body \in 1..MaxDocBytes /\ r.expires = "future"
    /\ Len(r.targets) \in 1..MaxTargets
    /\ r.audience = "direct" => Len(r.targets) = 1
    /\ r.registered
    /\ "bad" \notin Range(r.targets) /\ IsInjective(r.targets)

Submit(id) ==
    /\ Write /\ \E r \in Requests : Accepted(r)
    /\ operations' = operations \cup {id}
    /\ UNCHANGED <<docs, scan, purged>>

\* The owner forgets an operation that ended (external).
Purge(id) ==
    /\ Write /\ id \in operations /\ operations' = operations \ {id}
    /\ scan' = [scan EXCEPT !.kept = IF scan.kind = "operations" THEN @ \ {id} ELSE @]
    /\ purged' = (purged \/ scan.kind = "operations")
    /\ UNCHANGED docs

\* A scan starts with no cursor.
StartScan(kind) ==
    /\ scan.kind = "none" /\ purged' = FALSE
    /\ scan' = [NoScan EXCEPT !.kind = kind, !.kept = IF kind = "documents" THEN DOMAIN docs ELSE operations]
    /\ UNCHANGED <<docs, operations, writes>>

\* The first n elements of a set in id order.
FirstN(S, n) == {x \in S : Cardinality({y \in S : y < x}) < n}

Bytes(S) == FoldSet(LAMBDA x, total : total + docs[x], 0, S)

\* What follows a cursor: the last id returned, or an offset.
AfterCount(S, n) == S \ FirstN(S, n)

After(S, id) == {x \in S : x > id}

Offset(S, n) == S \ FirstN(S, n)

\* node_query_application_documents: any unprojectable document of the
\* collection, and a page too large, fail the call and leave the cursor.
QueryDocuments(limit) ==
    LET rest == After(DOMAIN docs, scan.cursor)
        page == FirstN(rest, limit)
    IN /\ scan.kind = "documents"
       /\ \A i \in DOMAIN docs : docs[i] <= MaxDocBytes
       /\ Bytes(page) <= MaxPageBytes
       /\ scan' = IF page = rest
                  THEN [scan EXCEPT !.got = @ \cup page, !.kind = "documents done"]
                  ELSE [scan EXCEPT !.got = @ \cup page, !.cursor = Max(page)]
       /\ UNCHANGED <<docs, operations, purged, writes>>

\* application_delivery_list (and _subscribe); an offset past the end is refused.
ListOperations(limit) ==
    LET rest == Offset(operations, scan.cursor)
        page == FirstN(rest, limit)
    IN /\ scan.kind = "operations" /\ scan.cursor <= Cardinality(operations)
       /\ scan' = IF page = rest
                  THEN [scan EXCEPT !.got = @ \cup page, !.kind = "operations done"]
                  ELSE [scan EXCEPT !.got = @ \cup page, !.cursor = @ + limit]
       /\ UNCHANGED <<docs, operations, purged, writes>>

\* The reader is done, or gives up after a refusal, and may scan again.
EndScan ==
    /\ scan.kind # "none" /\ scan' = NoScan /\ purged' = FALSE
    /\ UNCHANGED <<docs, operations, writes>>

PagesNext ==
    \/ \E id \in Ids : \/ \E size \in Sizes : PutDocument(id, size)
                       \/ DeleteDocument(id) \/ Submit(id) \/ Purge(id)
    \/ \E kind \in DocKinds : StartScan(kind)
    \/ \E limit \in 1..MaxLimit : QueryDocuments(limit) \/ ListOperations(limit)
    \/ EndScan

PagesSpec == PagesInit /\ [][PagesNext]_pagesVars

\* A scan that reached its end returned every item that was there from its
\* beginning to its end, whatever was written, deleted or submitted between
\* two pages and whatever limits the reader asked for.  The offset cursor of
\* the operations loses an item when another one is purged during the scan.
ScanIsComplete ==
    /\ scan.kind = "documents done" => scan.kept \subseteq scan.got
    /\ scan.kind = "operations done" /\ ~purged => scan.kept \subseteq scan.got

-----------------------------------------------------------------------------
(***************************************************************************)
(* The Automerge documents nodes share over BLE frames: the water counter  *)
(* (peat-ffi/src/water_counter.rs) and the key-value collections           *)
(* (peat-ffi/src/crdt_kv.rs).  A frame carries a whole saved document; it  *)
(* may be lost, duplicated, reordered and arbitrarily old.  A node may     *)
(* crash at any time, also while the file is being written, and comes back *)
(* with what the file holds.                                               *)
(*                                                                         *)
(* Automerge (external): a document is the set of its operations; merging  *)
(* is union.  Two creations of the counter are conflicting assignments, of *)
(* which the one with the greater actor wins, and an increment belongs to  *)
(* the creation it was made on.                                            *)
(***************************************************************************)

CONSTANTS Nodes,        \* as naturals
          Deltas, Keys, Values,
          MaxOps,       \* bound: increments and puts
          MaxCrashes    \* bound

VARIABLES counter,      \* per node: the document in memory, a set of operations
          file,         \* per node: what is on disk
          kv, kvFile,   \* the same for one collection of records
          actor,        \* per node: its current random actor
          frames,       \* counter documents broadcast so far
          kvFrames,
          made,         \* history: per node, the increments it made or merged and did not lose
          ops, crashes

sharedVars == <<counter, file, kv, kvFile, actor, frames, kvFrames, made, ops, crashes>>

GenesisActor == 0
Creation(a) == [op |-> "create", actor |-> a, on |-> a, n |-> 0, delta |-> 0]

\* new_doc: the counter is created by the genesis actor, whoever runs it.
OwnGenesis(a) == {Creation(a)}

NewDoc(a) == {Creation(GenesisActor)}

Creations(doc) == {o \in doc : o.op = "create"}
Winner(doc) == Max({o.actor : o \in Creations(doc)})
Increments(doc) == {o \in doc : o.op = "increment"}
Total(incs) == FoldSet(LAMBDA o, sum : sum + o.delta, 0, incs)

\* read_value: the winning counter with the increments made on it.
Value(doc) == Total({o \in Increments(doc) : o.on = Winner(doc)})

\* A record's value is its last put: the greatest (n, actor).
Later(a, b) == a.n > b.n \/ (a.n = b.n /\ a.actor > b.actor)
SharedGet(doc, k) ==
    LET puts == {o \in doc : o.key = k}
    IN {o.value : o \in {p \in puts : \A q \in puts : q = p \/ Later(p, q)}}

SharedInit ==
    /\ actor = [n \in Nodes |-> n]
    /\ counter = [n \in Nodes |-> NewDoc(n)] /\ file = [n \in Nodes |-> {}]
    /\ kv = [n \in Nodes |-> {}] /\ kvFile = [n \in Nodes |-> {}]
    /\ frames = {} /\ kvFrames = {} /\ made = [n \in Nodes |-> {}] /\ ops = 0 /\ crashes = 0

NextN(doc) == 1 + (IF doc = {} THEN 0 ELSE Max({o.n : o \in doc}))

\* increment: apply, persist, and return the bytes the caller broadcasts.
Increment(n, delta) ==
    LET o == [op |-> "increment", actor |-> actor[n], on |-> Winner(counter[n]),
              n |-> NextN(counter[n]), delta |-> delta]
    IN /\ ops < MaxOps /\ ops' = ops + 1
       /\ counter' = [counter EXCEPT ![n] = @ \cup {o}]
       /\ file' = [file EXCEPT ![n] = counter'[n]]
       /\ frames' = frames \cup {counter'[n]}
       /\ made' = [made EXCEPT ![n] = @ \cup {o}]
       /\ UNCHANGED <<kv, kvFile, actor, kvFrames, crashes>>

\* merge of an inbound frame, persisted.
Merge(n, doc) ==
    /\ counter' = [counter EXCEPT ![n] = @ \cup doc]
    /\ file' = [file EXCEPT ![n] = counter'[n]]
    /\ made' = [made EXCEPT ![n] = @ \cup Increments(doc)]
    /\ UNCHANGED <<kv, kvFile, actor, frames, kvFrames, ops, crashes>>

\* snapshot: the periodic re-broadcast.
Snapshot(n) ==
    /\ frames' = frames \cup {counter[n]}
    /\ kvFrames' = kvFrames \cup {kv[n]}
    /\ UNCHANGED <<counter, file, kv, kvFile, actor, made, ops, crashes>>

KvPut(n, k, v) ==
    LET o == [actor |-> actor[n], n |-> NextN(kv[n]), key |-> k, value |-> v]
    IN /\ ops < MaxOps /\ ops' = ops + 1
       /\ kv' = [kv EXCEPT ![n] = @ \cup {o}]
       /\ kvFile' = [kvFile EXCEPT ![n] = kv'[n]]
       /\ kvFrames' = kvFrames \cup {kv'[n]}
       /\ UNCHANGED <<counter, file, actor, frames, made, crashes>>

KvMerge(n, doc) ==
    /\ kv' = [kv EXCEPT ![n] = @ \cup doc]
    /\ kvFile' = [kvFile EXCEPT ![n] = kv'[n]]
    /\ UNCHANGED <<counter, file, actor, frames, kvFrames, made, ops, crashes>>

\* load_or_init after a crash.  A file torn by the crash does not load and
\* counts as absent (torn); the actor is new in any case.
Restart(n, torn) ==
    LET saved == IF torn THEN {} ELSE file[n]
        kvSaved == IF torn THEN {} ELSE kvFile[n]
    IN /\ crashes < MaxCrashes /\ crashes' = crashes + 1
       /\ actor' = [actor EXCEPT ![n] = Cardinality(Nodes) + crashes']
       /\ counter' = [counter EXCEPT ![n] = NewDoc(actor'[n]) \cup saved]
       /\ kv' = [kv EXCEPT ![n] = kvSaved]
       /\ file' = [file EXCEPT ![n] = saved] /\ kvFile' = [kvFile EXCEPT ![n] = kvSaved]
       /\ made' = [made EXCEPT ![n] = IF torn THEN {} ELSE @]
       /\ UNCHANGED <<frames, kvFrames, ops>>

SharedNext ==
    \E n \in Nodes :
        \/ \E d \in Deltas : Increment(n, d)
        \/ \E doc \in frames : Merge(n, doc)
        \/ \E k \in Keys, v \in Values : KvPut(n, k, v)
        \/ \E doc \in kvFrames : KvMerge(n, doc)
        \/ Snapshot(n)
        \/ \E torn \in BOOLEAN : Restart(n, torn)

SharedSpec == SharedInit /\ [][SharedNext]_sharedVars

\* Every litre counts once: a node shows the sum of the increments it made and
\* of those in the frames it merged, however often and in whatever order the
\* frames came and whichever nodes restarted; and a record has one value.
EachCountsOnce ==
    /\ \A n \in Nodes : Value(counter[n]) = Total(made[n])
    /\ \A n \in Nodes, k \in Keys : Cardinality(SharedGet(kv[n], k)) <= 1

-----------------------------------------------------------------------------
(***************************************************************************)
(* The typed records of the embedding API and the documents they are kept  *)
(* in (peat-ffi/src/lib.rs): a cell, a track or a node is written by one   *)
(* of several writers and read back by get_cell, get_track or get_nodes.   *)
(* A document is the map from JSON path to value; Null is JSON's null,     *)
(* which is also what a number that JSON cannot hold (a NaN) becomes.      *)
(***************************************************************************)

VARIABLES kind,      \* who wrote which record: "cell", "node", "published node", "document node", "track", "canonical track", "ble track"
          written,   \* the record as the writer meant it
          doc,       \* the document
          read       \* what the reader made of it

recordVars == <<kind, written, doc, read>>

Null == [json |-> "null"]
NaN == [json |-> "nan"]
N(n) == [json |-> "number", n |-> n]
S(s) == [json |-> "string", s |-> s]
Json(v) == IF v = NaN THEN Null ELSE v
Opt(o, Tag(_)) == IF o = {} THEN Null ELSE Tag(CHOOSE x \in o : TRUE)
None == [none |-> TRUE]

\* as_f64 / as_i64 / as_str of a path, {} when it is missing or another type.
Number(d, p) == IF p \in DOMAIN d /\ d[p].json = "number" THEN {d[p].n} ELSE {}
Text(d, p) == IF p \in DOMAIN d /\ d[p].json = "string" THEN {d[p].s} ELSE {}
OrElse(o, default) == IF o = {} THEN default ELSE CHOOSE x \in o : TRUE

\* first_json_f64: the first path that holds a number.
FirstNumber(d, paths) ==
    LET hits == {i \in DOMAIN paths : Number(d, paths[i]) # {}}
    IN IF hits = {} THEN {} ELSE Number(d, paths[CHOOSE i \in hits : \A j \in hits : i <= j])

-----------------------------------------------------------------------------
\* A document published as such is kept one level down, under "fields".
Body(d) == IF "fields" \in DOMAIN d THEN d.fields ELSE d

\* Cells.
SerializeCell(c) ==
    [node_count |-> N(c.count), cohort_id |-> Opt(c.cohort, S), leader_id |-> Opt(c.leader, S),
     last_update |-> N(c.updated)]
ParseCell(doc0) ==
    LET d == Body(doc0) IN
    [count |-> OrElse(Number(d, "node_count"), 0), cohort |-> Text(d, "cohort_id"),
     leader |-> Text(d, "leader_id"), updated |-> OrElse(Number(d, "last_update"), 0)]

\* Nodes: put_node, and publishNodeJni's JSON with its own defaults.
Healths == {"NOMINAL", "DEGRADED", "CRITICAL", "FAILED"}
HealthFromStr(s) == IF s \in Healths THEN s ELSE "UNSPECIFIED"
SerializeNode(n) ==
    [node_type |-> S(n.type), health |-> S(n.health), lat |-> Json(n.lat), lon |-> Json(n.lon),
     altitude |-> Json(n.altitude), cell_id |-> Opt(n.cell, S)]
NodeOf(d, type, health) ==
    [type |-> OrElse(Text(d, "node_type"), type),
     health |-> HealthFromStr(OrElse(Text(d, "health"), health)),
     lat |-> N(OrElse(Number(d, "lat"), 0)), lon |-> N(OrElse(Number(d, "lon"), 0)),
     altitude |-> N(OrElse(Number(d, "altitude"), 0)), cell |-> Text(d, "cell_id")]
ParseNode(d) == NodeOf(Body(d), "unknown", "UNSPECIFIED")
ParseNodePublish(d) == NodeOf(d, "SOLDIER", "NOMINAL")

-----------------------------------------------------------------------------
\* Tracks: put_track's document, the canonical schema's (From<Track> reads the
\* same fields), and the BLE translator's.
SerializeTrack(t) ==
    [source_node |-> S(t.source), lat |-> Json(t.lat), lon |-> Json(t.lon), altitude |-> Json(t.altitude),
     cep |-> Json(t.cep), heading |-> Opt(t.heading, N), speed |-> Opt(t.speed, N),
     created_at |-> N(t.created), last_update |-> N(t.updated)]

CanonicalDoc(t) ==
    ("source/node_id" :> S(t.source)) @@ ("position/latitude" :> Json(t.lat))
    @@ ("position/longitude" :> Json(t.lon)) @@ ("position/altitude" :> Json(t.altitude))
    @@ ("position/cep_m" :> Json(t.cep)) @@ ("velocity/bearing" :> Opt(t.heading, N))
    @@ ("velocity/speed_mps" :> Opt(t.speed, N)) @@ ("first_seen/seconds" :> N(t.created))
    @@ ("last_seen/seconds" :> N(t.updated))

PositionToTrackDoc(t) ==
    [source_node |-> S(t.source), lat |-> Json(t.lat), lon |-> Json(t.lon), hae |-> Json(t.altitude),
     cep |-> Json(t.cep), created_at |-> N(t.created), last_update |-> N(t.updated)]

\* source_timestamp_ms of the protobuf form; both counts are in seconds here.
Timestamp(d, p, q) == IF Number(d, p) # {} THEN Number(d, p) ELSE Number(d, q)

HeadingOfKinematics(d) == FirstNumber(d, <<"heading", "heading_deg", "kinematics/heading">>)

Heading(d) == FirstNumber(d, <<"heading", "heading_deg", "velocity/bearing", "kinematics/heading">>)

ParseTrack(d) ==
    [source |-> OrElse(Text(d, "source_node"), OrElse(Text(d, "source/node_id"), "unknown")),
     lat |-> N(OrElse(FirstNumber(d, <<"lat", "latitude", "position/latitude">>), 0)),
     lon |-> N(OrElse(FirstNumber(d, <<"lon", "longitude", "position/longitude">>), 0)),
     altitude |-> N(OrElse(FirstNumber(d, <<"altitude", "altitude_m", "position/altitude">>), 0)),
     cep |-> N(OrElse(FirstNumber(d, <<"cep", "cep_m", "position/cep_m">>), 0)),
     heading |-> Heading(d),
     speed |-> FirstNumber(d, <<"speed", "speed_mps", "velocity/speed_mps", "kinematics/velocity">>),
     created |-> OrElse(Timestamp(d, "created_at", "first_seen/seconds"), 0),
     updated |-> OrElse(Timestamp(d, "last_update", "last_seen/seconds"), 0)]

-----------------------------------------------------------------------------
Cells == [count : {0, 3}, cohort : {{}, {"k"}}, leader : {{}, {"l"}}, updated : {0, 9}]
NodeInfos == [type : {"uav"}, health : Healths \cup {"UNSPECIFIED"}, lat : {N(0), N(4), NaN}, lon : {N(5)},
              altitude : {N(0), N(7)}, cell : {{}, {"c"}}]
Tracks == [source : {"s"}, lat : {N(4), NaN}, lon : {N(0), N(5)}, altitude : {N(0), N(7)}, cep : {N(2)},
           heading : {{}, {1}}, speed : {{}, {6}}, created : {0, 8}, updated : {9}]
BleTracks == {t \in Tracks : t.heading = {} /\ t.speed = {}}
RecordsOf(k) ==
    CASE k = "cell" -> Cells
      [] k \in {"node", "published node", "document node"} -> NodeInfos
      [] k = "ble track" -> BleTracks
      [] OTHER -> Tracks
RecordKinds == {"cell", "node", "published node", "document node", "track", "canonical track", "ble track"}

RecordInit ==
    /\ kind \in RecordKinds /\ written \in RecordsOf(kind)
    /\ doc = None /\ read = None

\* put_cell, put_node, publishNodeJni, publishDocumentJni, put_track, a canonical document synced
\* in, or a position the BLE translator published.
Put ==
    /\ doc = None
    /\ doc' = CASE kind = "cell" -> SerializeCell(written)
                [] kind = "node" -> SerializeNode(written)
                [] kind = "published node" -> SerializeNode(ParseNodePublish(SerializeNode(written)))
                [] kind = "document node" -> [fields |-> SerializeNode(written)]
                [] kind = "track" -> SerializeTrack(written)
                [] kind = "canonical track" -> CanonicalDoc(written)
                [] OTHER -> PositionToTrackDoc(written)
    /\ UNCHANGED <<kind, written, read>>

\* get_cell(s), get_nodes, get_track(s).
RecordGet ==
    /\ doc # None /\ read = None
    /\ read' = CASE kind = "cell" -> ParseCell(doc)
                 [] kind \in {"node", "published node", "document node"} -> ParseNode(doc)
                 [] OTHER -> ParseTrack(doc)
    /\ UNCHANGED <<kind, written, doc>>

RecordNext == Put \/ RecordGet

RecordSpec == RecordInit /\ [][RecordNext]_recordVars

\* A coordinate that JSON cannot hold reads as 0.
Held(r) == [f \in DOMAIN r |-> IF f \in {"lat", "lon", "altitude", "cep"} /\ r[f] = NaN THEN N(0) ELSE r[f]]

\* Every typed writer's record reads back as written, and so does the
\* canonical schema's track: fallback paths, defaults, nulls and the health
\* wording hide no field of what was stored.
RecordReadsBack == read # None /\ kind # "ble track" => read = Held(written)

-----------------------------------------------------------------------------
(***************************************************************************)
(* Blob transfer of one node (peat-ffi/src/lib.rs): a store created by     *)
(* enable_blob_transfer and kept behind a read-write lock, blocking calls  *)
(* that hold the read guard for the whole call, and fetches started in the *)
(* background with a handle to poll.  Enabling again puts a new store in   *)
(* the slot over the same directory; a fetch keeps the store it began      *)
(* with.  The transfer itself is peat-mesh's, external.                    *)
(***************************************************************************)

CONSTANTS Peers,      \* remote peers, all of which hold the blob
          Fetches,    \* fetch handles
          Callers,    \* application threads
          MaxStores   \* bound: enable_blob_transfer calls

VARIABLES store,      \* the store in the slot: 0, none; n, the n-th one created
          created,    \* stores created so far
          built,      \* thread -> the store its enable_blob_transfer has built
          known,      \* store -> peers registered with it
          local,      \* the blob is in the directory
          caller,     \* thread -> what it is doing
          fetch       \* handle -> its task, the store and peer it uses, its status

blobVars == <<store, created, built, known, local, caller, fetch>>

AnyPeer == "any"
NoFetch == [task |-> "none", store |-> 0, from |-> AnyPeer, status |-> "Pending"]

BlobInit ==
    /\ store = 0 /\ created = 0 /\ built = [c \in Callers |-> 0] /\ known = [s \in 1..MaxStores |-> {}] /\ local = FALSE
    /\ caller = [c \in Callers |-> "idle"]
    /\ fetch = [f \in Fetches |-> NoFetch]

Reading == {c \in Callers : caller[c] \in {"put", "get", "get done"}}

\* enable_blob_transfer: the store is built first, the slot locked after.
EnableBuilds(c) ==
    /\ caller[c] = "idle" /\ created < MaxStores
    /\ created' = created + 1 /\ built' = [built EXCEPT ![c] = created']
    /\ caller' = [caller EXCEPT ![c] = "enable"]
    /\ UNCHANGED <<store, known, local, fetch>>

EnableSwaps(c) ==
    /\ caller[c] = "enable" /\ Reading = {}
    /\ store' = built[c]
    /\ caller' = [caller EXCEPT ![c] = "idle"]
    /\ UNCHANGED <<created, built, known, local, fetch>>

\* blob_add_peer, blob_add_peer_id: of the store in the slot only.
BlobAddPeer(c, p) ==
    /\ caller[c] = "idle" /\ store # 0
    /\ known' = [known EXCEPT ![store] = @ \cup {p}]
    /\ UNCHANGED <<store, created, built, local, caller, fetch>>

\* blob_put and blob_get hold the read guard while they block.
Begin(c, op) ==
    /\ caller[c] = "idle" /\ store # 0
    /\ caller' = [caller EXCEPT ![c] = op]
    /\ UNCHANGED <<store, created, built, known, local, fetch>>

BlobPut(c) ==
    /\ caller[c] = "put"
    /\ local' = TRUE /\ caller' = [caller EXCEPT ![c] = "idle"]
    /\ UNCHANGED <<store, created, built, known, fetch>>

\* The blob is in the directory, or a known peer sends it; or the call fails.
BlobGet(c) ==
    /\ caller[c] = "get"
    /\ \/ /\ local \/ known[store] # {}
          /\ local' = TRUE /\ caller' = [caller EXCEPT ![c] = "get done"]
       \/ local' = local /\ caller' = [caller EXCEPT ![c] = "idle"]
    /\ UNCHANGED <<store, created, built, known, fetch>>

\* The file is read and the guard dropped.
BlobGetReads(c) ==
    /\ caller[c] = "get done"
    /\ caller' = [caller EXCEPT ![c] = "idle"]
    /\ UNCHANGED <<store, created, built, known, local, fetch>>

-----------------------------------------------------------------------------
\* blob_fetch_start: the guard is dropped before the task is spawned.
BlobFetchStart(f, from) ==
    /\ fetch[f].task = "none" /\ store # 0
    /\ fetch' = [fetch EXCEPT ![f] = [task |-> "running", store |-> store, from |-> from, status |-> "Pending"]]
    /\ UNCHANGED <<store, created, built, known, local, caller>>

Running(f) == fetch[f].task = "running"
Sources(f) == IF fetch[f].from = AnyPeer THEN known[fetch[f].store] ELSE {fetch[f].from} \cap known[fetch[f].store]

\* A progress event of peat-mesh overwrites the status.
Progress(f) ==
    /\ Running(f) /\ Sources(f) # {}
    /\ \/ fetch[f].status = "Pending" /\ fetch' = [fetch EXCEPT ![f].status = "Started"]
       \/ fetch[f].status = "Started" /\ fetch' = [fetch EXCEPT ![f].status = "Downloading"]
    /\ UNCHANGED <<store, created, built, known, local, caller>>

Completes(f) ==
    /\ Running(f) /\ (local \/ fetch[f].status = "Downloading")
    /\ local' = TRUE
    /\ fetch' = [fetch EXCEPT ![f].status = "Completed", ![f].task = "done"]
    /\ UNCHANGED <<store, created, built, known, caller>>


Reports(f) ==
    fetch' = [fetch EXCEPT ![f].task = "done", ![f].status = "Failed"]

FetchFails(f) ==
    /\ Running(f)
    /\ Reports(f)
    /\ UNCHANGED <<store, created, built, known, local, caller>>

\* dispose, or the handle dropped: the task is aborted, the status stays.
Dispose(f) ==
    /\ fetch[f].task \in {"running", "done"}
    /\ fetch' = [fetch EXCEPT ![f].task = IF @ = "running" THEN "aborted" ELSE @]
    /\ UNCHANGED <<store, created, built, known, local, caller>>

BlobNext ==
    \/ \E c \in Callers :
          \/ EnableBuilds(c) \/ EnableSwaps(c) \/ BlobPut(c) \/ BlobGet(c) \/ BlobGetReads(c)
          \/ \E p \in Peers : BlobAddPeer(c, p)
          \/ \E op \in {"put", "get"} : Begin(c, op)
    \/ \E f \in Fetches :
          \/ \E from \in Peers \cup {AnyPeer} : BlobFetchStart(f, from)
          \/ Progress(f) \/ Completes(f) \/ FetchFails(f) \/ Dispose(f)

BlobSpec == BlobInit /\ [][BlobNext]_blobVars

\* A fetch that has ended says so: the status its handle keeps is Completed,
\* with the blob in the directory, or Failed.  It is never stuck on a stale
\* Downloading, whatever peat-mesh reported, and also when the store was
\* replaced under it.
EndedFetchTells ==
    \A f \in Fetches :
        fetch[f].task = "done" =>
            fetch[f].status = "Failed" \/ (fetch[f].status = "Completed" /\ local)

=============================================================================

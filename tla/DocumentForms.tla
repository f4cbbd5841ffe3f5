--------------------------- MODULE DocumentForms ----------------------------
(* How documents are asked for and converted: query evaluation, and JSON to
   Automerge and back; two state machines. *)
EXTENDS Integers, Sequences, FiniteSets, SequencesExt

(***************************************************************************)
(* Query evaluation in peat-protocol/src/sync/automerge.rs: the pattern    *)
(* based evaluator of custom queries, its LIKE matcher, and the two        *)
(* evaluators of structured queries, one for each backend.                 *)
(*                                                                         *)
(* A custom query is a sequence of tokens: comparisons "A" and "B" of a    *)
(* field with a quoted string, an unrecognised pattern "U", the connectives*)
(* and parentheses.  A string is a sequence of letters.  Every question    *)
(* asked of the evaluators is an initial state; evaluating it is a step.   *)
(***************************************************************************)

CONSTANTS
    MaxValue,      \* length of a string matched with LIKE
    MaxPattern     \* length of a LIKE pattern

Leaf == {"A", "B", "U"}

-----------------------------------------------------------------------------
(* split_compound: the first delimiter outside parentheses. *)
Depth(ts, i) ==
    Cardinality({j \in 1..i : ts[j] = "("}) - Cardinality({j \in 1..i : ts[j] = ")"})

Splits(ts, op) == {i \in DOMAIN ts : ts[i] = op /\ Depth(ts, i) = 0}

First(S) == CHOOSE i \in S : \A j \in S : i <= j

Wrapped(ts) == Len(ts) >= 2 /\ ts[1] = "(" /\ Last(ts) = ")"
Inner(ts) == SubSeq(ts, 2, Len(ts) - 1)

(* What is left is matched with one pattern.  A lone comparison is evaluated
   and an unrecognised pattern matches.  Text with a comparison in it is split
   at the first ==: the rest is one string literal if it ends with a quote,
   which no document has, and otherwise of unknown form, which matches. *)
EvalPattern(ts, truth) ==
    IF Len(ts) = 1 THEN ts[1] = "U" \/ truth[ts[1]]
    ELSE Range(ts) \cap {"A", "B"} = {} \/ Last(ts) \notin {"A", "B"}

(* Variant: conjunctions are split before disjunctions. *)
RECURSIVE EvaluateAndFirst(_, _)
EvaluateAndFirst(ts, truth) ==
    LET ors == Splits(ts, "OR")
        ands == Splits(ts, "AND")
        left(i) == EvaluateAndFirst(SubSeq(ts, 1, i - 1), truth)
        right(i) == EvaluateAndFirst(SubSeq(ts, i + 1, Len(ts)), truth)
        bare == IF Wrapped(ts) THEN Inner(ts) ELSE ts
    IN CASE ands # {} -> left(First(ands)) /\ right(First(ands))
         [] ands = {} /\ ors # {} -> left(First(ors)) \/ right(First(ors))
         [] OTHER -> IF bare[1] = "NOT"
                     THEN ~EvaluateAndFirst(IF Wrapped(Tail(bare)) THEN Inner(Tail(bare))
                                            ELSE Tail(bare), truth)
                     ELSE EvalPattern(bare, truth)

(* evaluate_custom_query: or, and, outer parentheses, not, pattern. *)
RECURSIVE EvaluateCustomQuery(_, _)
EvaluateCustomQuery(ts, truth) ==
    LET ors == Splits(ts, "OR")
        ands == Splits(ts, "AND")
        left(i) == EvaluateCustomQuery(SubSeq(ts, 1, i - 1), truth)
        right(i) == EvaluateCustomQuery(SubSeq(ts, i + 1, Len(ts)), truth)
        bare == IF Wrapped(ts) THEN Inner(ts) ELSE ts
    IN CASE ors # {} -> left(First(ors)) \/ right(First(ors))
         [] ors = {} /\ ands # {} -> left(First(ands)) /\ right(First(ands))
         [] OTHER -> IF bare[1] = "NOT"
                     THEN ~EvaluateCustomQuery(IF Wrapped(Tail(bare)) THEN Inner(Tail(bare))
                                               ELSE Tail(bare), truth)
                     ELSE EvalPattern(bare, truth)

(* The queries asked, as syntax trees, with their text and their meaning. *)
Leaves == {[k |-> "leaf", t |-> t] : t \in Leaf}
Nots(S) == {[k |-> "not", e |-> e] : e \in S}
Parens(S) == {[k |-> "paren", e |-> e] : e \in S}
Binary(S, T) == {[k |-> "bin", op |-> op, l |-> l, r |-> r] :
                   op \in {"AND", "OR"}, l \in S, r \in T}

Simple == Leaves \cup Nots(Leaves) \cup Parens(Leaves)
Compound == Binary(Leaves, Leaves)
Query == Simple \cup Binary(Simple, Simple) \cup Binary(Leaves, Compound)
           \cup Nots(Parens(Compound)) \cup Parens(Compound)
           \cup Binary(Parens(Compound), Leaves)

RECURSIVE Text(_)
Text(q) == CASE q.k = "leaf" -> <<q.t>>
             [] q.k = "not" -> <<"NOT">> \o Text(q.e)
             [] q.k = "paren" -> <<"(">> \o Text(q.e) \o <<")">>
             [] q.k = "bin" -> Text(q.l) \o <<q.op>> \o Text(q.r)

(* Meaning with the usual precedence: Binary(Leaves, Compound) prints without
   parentheses, so a conjunction to its left binds tighter. *)
RECURSIVE Means(_, _)
Means(q, truth) ==
    CASE q.k = "leaf" -> truth[q.t]
      [] q.k = "not" -> ~Means(q.e, truth)
      [] q.k = "paren" -> Means(q.e, truth)
      [] q.k = "bin" ->
           IF q.op = "AND" /\ q.r.k = "bin" /\ q.r.op = "OR"
           THEN (Means(q.l, truth) /\ Means(q.r.l, truth)) \/ Means(q.r.r, truth)
           ELSE IF q.op = "AND" THEN Means(q.l, truth) /\ Means(q.r, truth)
           ELSE Means(q.l, truth) \/ Means(q.r, truth)

RECURSIVE NestsCompound(_)
NestsCompound(q) ==
    CASE q.k = "leaf" -> FALSE
      [] q.k = "not" -> "U" \in Range(Text(q)) \/ NestsCompound(q.e)
      [] q.k = "paren" -> q.e.k = "bin" \/ NestsCompound(q.e)
      [] q.k = "bin" -> NestsCompound(q.l) \/ NestsCompound(q.r)

-----------------------------------------------------------------------------
(* match_like_pattern: segments between wildcards, the first anchored at the
   start, the last at the end, the others found one after the other. *)
IsPrefixOf(s, v) == Len(s) <= Len(v) /\ SubSeq(v, 1, Len(s)) = s
IsSuffixOf(s, v) == Len(s) <= Len(v) /\ SubSeq(v, Len(v) - Len(s) + 1, Len(v)) = s

RECURSIVE SplitWild(_)
SplitWild(p) ==
    IF "%" \notin Range(p) THEN <<p>>
    ELSE LET i == First({j \in DOMAIN p : p[j] = "%"})
         IN <<SubSeq(p, 1, i - 1)>> \o SplitWild(SubSeq(p, i + 1, Len(p)))

RECURSIVE Segments(_, _, _, _)
Segments(v, segs, i, pos) ==
    IF i > Len(segs) THEN TRUE
    ELSE LET s == segs[i]
             found == {j \in 0..(Len(v) - Len(s)) :
                         j >= pos /\ SubSeq(v, j + 1, j + Len(s)) = s}
         IN CASE s = <<>> -> Segments(v, segs, i + 1, pos)
              [] s # <<>> /\ i = 1 ->
                   IsPrefixOf(s, v) /\ Segments(v, segs, i + 1, Len(s))
              [] s # <<>> /\ i > 1 /\ i = Len(segs) ->
                   IsSuffixOf(s, v) /\ Segments(v, segs, i + 1, pos)
              [] OTHER -> found # {} /\ Segments(v, segs, i + 1, First(found) + Len(s))

MatchLikePattern(v, p) == Segments(v, SplitWild(p), 1, 0)

(* What LIKE means: % stands for any letters, everything else for itself. *)
RECURSIVE Like(_, _)
Like(v, p) ==
    IF p = <<>> THEN v = <<>>
    ELSE IF Head(p) = "%" THEN Like(v, Tail(p)) \/ (v # <<>> /\ Like(Tail(v), p))
    ELSE v # <<>> /\ Head(v) = Head(p) /\ Like(Tail(v), Tail(p))

-----------------------------------------------------------------------------
(* Structured queries over one field.  A value is [type, n]. *)
Value == [type : {"num", "str", "bool", "none"}, n : 0..1]
Present(v) == v.type # "none"
Order(a, b) == IF a.n < b.n THEN -1 ELSE IF a.n > b.n THEN 1 ELSE 0
Comparable(a, b) == a.type = b.type /\ a.type \in {"num", "str"}

Basic == {[k |-> k, v |-> v] : k \in {"eq", "lt", "gt"}, v \in {w \in Value : Present(w)}}
           \cup {[k |-> k] : k \in {"all", "within", "unknown"}}
Structured == Basic \cup {[k |-> "not", e |-> e] : e \in Basic}
                \cup {[k |-> k, l |-> l, r |-> r] : k \in {"and", "or"}, l \in Basic, r \in Basic}

(* The in-memory backend: comparing values of different types is an error,
   which ends the evaluation unless it was already decided. *)
RECURSIVE MatchesQueryMemory(_, _)
MatchesQueryMemory(q, d) ==
    LET sub(e) == MatchesQueryMemory(e, d)
        bool(b) == IF b THEN "yes" ELSE "no"
    IN CASE q.k = "all" -> "yes"
         [] q.k = "unknown" -> "no"
         [] q.k = "within" -> bool(d.type = "num" /\ d.n = 0)
         [] q.k = "eq" -> bool(Present(d) /\ d = q.v)
         [] q.k \in {"lt", "gt"} ->
              IF ~Present(d) THEN "no"
              ELSE IF ~Comparable(d, q.v) THEN "error"
              ELSE bool(Order(d, q.v) = IF q.k = "lt" THEN -1 ELSE 1)
         [] q.k = "not" -> IF sub(q.e) = "error" THEN "error" ELSE bool(sub(q.e) = "no")
         [] q.k = "and" -> IF sub(q.l) = "yes" THEN sub(q.r) ELSE sub(q.l)
         [] q.k = "or" -> IF sub(q.l) = "no" THEN sub(q.r) ELSE sub(q.l)

(* Variant: strings are only told apart. *)
CompareValuesForEquality(a, b) == IF ~Comparable(a, b) \/ a = b THEN 0
                                  ELSE IF a.type = "str" THEN 1
                                  ELSE Order(a, b)

(* The other backend: unlike values compare as equal. *)
CompareValues(a, b) == IF Comparable(a, b) THEN Order(a, b) ELSE 0

RECURSIVE MatchesQuery(_, _)
MatchesQuery(q, d) ==
    CASE q.k = "all" -> TRUE
      [] q.k = "unknown" -> FALSE
      [] q.k = "within" -> d.type = "num" /\ d.n = 0
      [] q.k = "eq" -> d = q.v
      [] q.k = "lt" -> Present(d) /\ CompareValues(d, q.v) < 0
      [] q.k = "gt" -> Present(d) /\ CompareValues(d, q.v) > 0
      [] q.k = "not" -> ~MatchesQuery(q.e, d)
      [] q.k = "and" -> MatchesQuery(q.l, d) /\ MatchesQuery(q.r, d)
      [] q.k = "or" -> MatchesQuery(q.l, d) \/ MatchesQuery(q.r, d)

-----------------------------------------------------------------------------
VARIABLES question, answer

queryVars == <<question, answer>>

Strings(S, n) == UNION {[1..k -> S] : k \in 0..n}

Question ==
    [kind : {"custom"}, q : Query, truth : [Leaf -> BOOLEAN]]
    \cup [kind : {"like"}, v : Strings({"a", "b"}, MaxValue),
          p : Strings({"a", "b", "%"}, MaxPattern)]
    \cup [kind : {"structured"}, q : Structured, d : Value]

(* No answer yet is the empty set. *)
QueryInit == question \in Question /\ answer = {}

Evaluate ==
    /\ answer = {}
    /\ answer' = CASE question.kind = "custom" ->
                        {EvaluateCustomQuery(Text(question.q), question.truth)}
                   [] question.kind = "like" ->
                        {MatchLikePattern(question.v, question.p)}
                   [] question.kind = "structured" ->
                        {[memory |-> MatchesQueryMemory(question.q, question.d),
                          iroh |-> MatchesQuery(question.q, question.d)]}
    /\ UNCHANGED question

QueryNext == Evaluate

QuerySpec == QueryInit /\ [][QueryNext]_queryVars


(* A custom query and a LIKE pattern never hide a document that matches: an
   unrecognised pattern counts as matching.  A compound in parentheses and a
   negated unrecognised pattern are the exceptions. *)
NeverHides ==
    CASE question.kind = "custom" ->
           NestsCompound(question.q) \/ ~Means(question.q, question.truth) \/ FALSE \notin answer
      [] question.kind = "like" -> Like(question.v, question.p) => FALSE \notin answer
      [] OTHER -> TRUE

-----------------------------------------------------------------------------
(***************************************************************************)
(* Documents as JSON and as Automerge objects: the in-memory backend's     *)
(* conversion (peat-protocol/src/sync/automerge.rs) and the one behind     *)
(* typed collections (peat-protocol/src/storage/automerge_conversion.rs),  *)
(* followed over successive writes of one field of one document.           *)
(*                                                                         *)
(* A JSON value is a record of its kind.  A string remembers what it was   *)
(* made from: "text" for a string and "json" for a serialised value.       *)
(* An object has one field and an array at most MaxItems items.            *)
(***************************************************************************)

CONSTANTS MaxItems, MaxUpserts

Null == [k |-> "null"]
Num == [k |-> "num"]
Str(of) == [k |-> "str", of |-> of]
Obj(v) == [k |-> "object", v |-> v]
Arr(items) == [k |-> "array", items |-> items]

(* A field that is not in the document, and a transaction that failed. *)
Missing == [k |-> "missing"]
Failed == [k |-> "failed"]

Scalar == {Null, Num, Str("text")}
Item == Scalar \cup {Obj(s) : s \in Scalar} \cup {Arr(<<Num>>)}
Json == Item \cup {Arr(s) : s \in UNION {[1..n -> Item] : n \in 0..MaxItems}}
          \cup {Obj(Arr(<<i>>)) : i \in Item}

-----------------------------------------------------------------------------
(* Inserting items into a new list one after the other, each at its index in
   the array: an item that is skipped leaves the next index past the end of
   the list, and inserting there fails the transaction. *)
Gap(items, skipped) ==
    \E i, j \in DOMAIN items : i < j /\ items[i] \in skipped /\ items[j] \notin skipped

(* insert_json_value: a null is skipped, an array or object becomes a string. *)
InsertJsonValue(item) == IF item.k \in {"object", "array"} THEN Str("json") ELSE item

(* Variant: what is in a list is kept as it is. *)
PutListNested(items) == Arr([i \in DOMAIN items |->
                               IF items[i].k = "array" THEN Arr(<<items[i]>>)
                               ELSE InsertJsonValue(items[i])])

PutList(items) == Arr([i \in DOMAIN items |-> InsertJsonValue(items[i])])

(* put_json_value into a map: a null leaves the key out. *)
PutScalarOrList(value) ==
    IF value.k # "array" THEN value
    ELSE IF Gap(value.items, {Null}) THEN Failed
    ELSE PutList(SelectSeq(value.items, LAMBDA i : i # Null))

PutJsonValue(value) ==
    IF value.k # "object" THEN PutScalarOrList(value)
    ELSE LET inner == PutScalarOrList(value.v)
         IN IF inner = Failed THEN Failed
            ELSE Obj(IF inner = Null THEN Missing ELSE inner)

(* apply_document_to_automerge: the field of a document that is new. *)
ApplyDocument(value) == LET put == PutJsonValue(value)
                        IN IF put = Null THEN Missing ELSE put

(* automerge_value_to_json: the same values come back. *)
AutomergeValueToJson(stored) == stored

-----------------------------------------------------------------------------
(* populate_from_json: in a list only strings and objects are kept. *)
Dropped == {i \in Item : i.k \notin {"str", "object"}}

PopulateList(items) ==
    IF Gap(items, Dropped) THEN Failed
    ELSE LET kept == SelectSeq(items, LAMBDA i : i \notin Dropped)
         IN Arr([i \in DOMAIN kept |->
                   IF kept[i] = Obj(Null) THEN Obj(Missing) ELSE kept[i]])

PopulateField(value) == IF value.k = "array" THEN PopulateList(value.items) ELSE value

(* Variant: a list is extended where it should be replaced. *)
MessageIntoExtends(value, existing) ==
    IF value.k = "array" /\ existing.k = "array" /\ PopulateField(value) # Failed
    THEN Arr(existing.items \o PopulateField(value).items)
    ELSE IF value = Null THEN existing
    ELSE PopulateField(value)

(* message_to_automerge_into: written over a fork of what is stored, in which
   a key that the message leaves null keeps its value. *)
MessageInto(value, existing) ==
    LET inner == IF value.k = "object" THEN PopulateField(value.v) ELSE Null
    IN CASE value = Null -> existing
         [] value.k = "object" -> IF inner = Failed THEN Failed
                                  ELSE Obj(IF inner = Null THEN Missing ELSE inner)
         [] OTHER -> PopulateField(value)

(* extract_to_json: of a list, the strings and the objects. *)
ExtractToJson(stored) ==
    IF stored.k # "array" THEN stored
    ELSE Arr(SelectSeq(stored.items, LAMBDA i : i.k \in {"str", "object"}))

(* What a typed message has to be for nothing of it to be dropped. *)
RECURSIVE Kept(_)
Kept(value) ==
    CASE value.k = "object" -> value.v # Null /\ Kept(value.v)
      [] value.k = "array" -> \A i \in DOMAIN value.items :
                                 value.items[i] \notin Dropped /\ Kept(value.items[i])
      [] OTHER -> TRUE

-----------------------------------------------------------------------------
VARIABLES
    memory,     \* the field in the in-memory backend
    typed,      \* the field in the typed collection
    written,    \* the value of the last write to the typed collection
    upserts

jsonVars == <<memory, typed, written, upserts>>

JsonInit ==
    /\ memory = Missing
    /\ typed = Missing
    /\ written = Null
    /\ upserts = 0

MemoryUpsert(value) ==
    /\ upserts < MaxUpserts
    /\ upserts' = upserts + 1
    /\ memory' = IF ApplyDocument(value) = Failed THEN memory ELSE ApplyDocument(value)
    /\ UNCHANGED <<typed, written>>

TypedUpsert(value) ==
    LET doc == MessageInto(value, typed)
    IN /\ upserts < MaxUpserts
       /\ upserts' = upserts + 1
       /\ typed' = IF doc = Failed THEN typed ELSE doc
       /\ written' = IF doc = Failed THEN written ELSE value
       /\ UNCHANGED memory

(* delete of a typed collection. *)
TypedDelete ==
    /\ typed # Missing
    /\ typed' = Missing
    /\ written' = Null
    /\ UNCHANGED <<memory, upserts>>

JsonNext ==
    \/ \E value \in Json : MemoryUpsert(value) \/ TypedUpsert(value)
    \/ TypedDelete

JsonSpec == JsonInit /\ [][JsonNext]_jsonVars

(* A document read from the in-memory backend and written back is the same
   document: the conversion loses what it loses at the first write. *)
RewritingSettles ==
    LET read == AutomergeValueToJson(memory)
    IN read # Missing => ApplyDocument(read) = memory

(* A typed collection returns what was last written to the field, unless the
   message left it null or held an item its conversion drops. *)
TypedReadsBack ==
    written # Null /\ Kept(written) => ExtractToJson(typed) = written

=============================================================================

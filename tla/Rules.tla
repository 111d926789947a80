------------------------------- MODULE Rules -------------------------------
(***************************************************************************)
(* What the node accepts from an operator or a client, each by the code's  *)
(* own loop or recursion: the bridge's subject mappings                    *)
(* (nats_bridge/config.rs), a SendAttachments request (attachments/        *)
(* validate.rs, with the name its files get at the receiver, ingest.rs and *)
(* inbox.rs), and the query of a subscription (query.rs).  One input is    *)
(* checked per behaviour; the invariants compare the verdict with a        *)
(* definition that has no loop.                                            *)
(***************************************************************************)
EXTENDS Integers, SequencesExt

CONSTANTS
  RawMappings,    \* lists of subject=collection arguments
  Bundles,        \* the files of a request
  Queries, Docs,  \* wire-level queries, and documents they are evaluated on
  MaxFiles, MaxBundle, MaxFile, MaxNodes,  \* limits of AttachmentConfig
  Width,          \* bits of size_bytes
  Mantissa,       \* bits that a double keeps of an integer
  MaxDepth        \* MAX_DEPTH

VARIABLES
  task,     \* which of the three
  given,    \* its input
  step,     \* elements looked at so far
  kept,     \* mappings: the accepted ones; request: the files looked up on disk
  issues,   \* mappings: what is wrong with which one
  verdict

vars == <<task, given, step, kept, issues, verdict>>

Urls == {"none", "scheme", "unparsable", "decorated", "good"}
BadSubjects == {"empty", "white", "invalid", "wildcard", "reserved"}
BadCollections == {"empty", "white", "long", "invalid", "reserved"}
Scopes == [kind : {"unset", "variantless", "all", "formation", "capable"}, nodes : {0}]
          \cup [kind : {"nodes"}, nodes : 0..MaxNodes + 1]

Init ==
  /\ \/ task = "mappings" /\ given \in [url : Urls, list : RawMappings, node : {"valid", "invalid"}]
     \/ task = "request" /\ given \in [files : Bundles, scope : Scopes]
     \/ task = "query" /\ given \in [q : Queries, doc : Docs]
  /\ step = 0 /\ kept = {} /\ issues = {} /\ verdict = "running"

--------------------------------------------------------------------------
\* BridgeConfig::from_raw.  The accepted mapping, if any, that has the subject
\* or the collection of mapping i.
Same(i, part) == {j \in kept : given.list[j][part] = given.list[i][part]}

\* Wrong on purpose: only the subject has to be new.
DuplicatesOfSubject(i) == {[at |-> i, kind |-> "subject", of |-> j] : j \in Same(i, "subject")}

\* A part that is bad by itself equals none of the accepted ones.
Duplicates(i) ==
  UNION {{[at |-> i, kind |-> part, of |-> j] : j \in Same(i, part)} :
           part \in {"subject", "collection"}}

\* One round of parse_mappings: subject and collection each by itself, then
\* against the mappings accepted so far.
ParseMapping ==
  LET i == step + 1
      raw == given.list[i]
      malformed == {[at |-> i, kind |-> x, of |-> i] : x \in
                      ({raw.subject} \cap BadSubjects) \cup ({raw.collection} \cap BadCollections)}
      wrong == IF raw.delimiters # 1 THEN {[at |-> i, kind |-> "delimiter", of |-> i]}
               ELSE malformed \cup Duplicates(i) IN
  /\ task = "mappings" /\ verdict = "running" /\ step < Len(given.list)
  /\ step' = i /\ issues' = issues \cup wrong
  /\ kept' = IF wrong = {} THEN kept \cup {i} ELSE kept
  /\ UNCHANGED <<task, given, verdict>>

\* nats:// or tls://, a host, and neither path nor query nor fragment.
ParseEndpoint(url) == url \notin {"scheme", "unparsable", "decorated"}

\* A URL that is given has to be good, even if no mapping needs it.
FromRaw ==
  IF issues # {} \/ ~ParseEndpoint(given.url) \/ (given.url = "none" /\ given.list # <<>>)
  THEN "rejected"
  ELSE IF given.list = <<>> THEN "disabled" ELSE "enabled"

\* The node's identity becomes a header: it matters only to a bridge that is enabled.
ValidateNodeIdentity(config) ==
  IF config = "enabled" /\ given.node = "invalid" THEN "rejected" ELSE config

EndMappings ==
  /\ task = "mappings" /\ verdict = "running" /\ step = Len(given.list)
  /\ verdict' = ValidateNodeIdentity(FromRaw)
  /\ UNCHANGED <<task, given, step, kept, issues>>

--------------------------------------------------------------------------
\* Rule 2: a sum that does not fit in size_bytes is an error, not a wrapped sum.
Overflow == -1

\* Wrong on purpose: the sum wraps.
TotalWrapping(files) ==
  FoldLeft(LAMBDA acc, f : (acc + f.size) % 2^Width, 0, files)

Total(files) ==
  FoldLeft(LAMBDA acc, f : IF acc = Overflow \/ acc + f.size >= 2^Width THEN Overflow
                           ELSE acc + f.size, 0, files)

ValidateScope(scope) ==
  CASE scope.kind \in {"unset", "variantless"} -> "invalid"
    [] scope.kind = "all" -> "ok"
    [] scope.kind \in {"formation", "capable"} -> "precondition"
    [] OTHER -> IF scope.nodes = 0 THEN "invalid"
                ELSE IF scope.nodes > MaxNodes THEN "exhausted" ELSE "ok"

\* Rules 1, 2 and 10, in this order, before any file is looked at.
Shape(files, scope) ==
  IF files = <<>> THEN "invalid"
  ELSE IF Len(files) > MaxFiles \/ Total(files) \notin 0..MaxBundle THEN "exhausted"
  ELSE ValidateScope(scope)

\* Components of a path: ".", "..", "/" and names.
Unsafe == {"..", "/"}
Names(path) == SelectSeq(path, LAMBDA c : c # ".")

\* Rules 9, 3 and 4 look at the request alone ...
Form(f) ==
  IF f.flaw \in {"sha", "root"} \/ f.path = <<>> \/ ToSet(f.path) \cap Unsafe # {}
  THEN "invalid" ELSE "ok"

\* ... and rules 5 to 8 at the file, which "." alone does not name.
OnDisk(f) ==
  IF f.flaw \in {"unresolved", "escape", "irregular", "size"} \/ Names(f.path) = <<>> THEN "invalid"
  ELSE IF f.size > MaxFile THEN "exhausted" ELSE "ok"

\* Wrong on purpose: the scope is left to the distribution that follows.
ValidateShapeUnscoped ==
  /\ task = "request" /\ verdict = "running" /\ step = 0
  /\ LET s == Shape(given.files, [kind |-> "all", nodes |-> 0]) IN
       IF s = "ok" THEN step' = 1 /\ UNCHANGED verdict ELSE verdict' = s /\ UNCHANGED step
  /\ UNCHANGED <<task, given, kept, issues>>

ValidateShape ==
  /\ task = "request" /\ verdict = "running" /\ step = 0
  /\ LET s == Shape(given.files, given.scope) IN
       IF s = "ok" THEN step' = 1 /\ UNCHANGED verdict ELSE verdict' = s /\ UNCHANGED step
  /\ UNCHANGED <<task, given, kept, issues>>

ValidateFile ==
  /\ task = "request" /\ verdict = "running" /\ step \in 1..Len(given.files)
  /\ LET f == given.files[step] IN
       /\ kept' = IF Form(f) = "ok" THEN kept \cup {step} ELSE kept
       /\ IF Form(f) = "ok" /\ OnDisk(f) = "ok" THEN step' = step + 1 /\ UNCHANGED verdict
          ELSE /\ verdict' = IF Form(f) = "ok" THEN OnDisk(f) ELSE Form(f)
               /\ UNCHANGED step
  /\ UNCHANGED <<task, given, issues>>

EndRequest ==
  /\ task = "request" /\ verdict = "running" /\ step = Len(given.files) + 1 /\ step > 1
  /\ verdict' = "accepted" /\ UNCHANGED <<task, given, step, kept, issues>>

\* build_blob_metadata names the blob by the relative path, unless the caller
\* gave a display name; inbox_relpath makes a path of that name, or none.
BlobName(f) == IF f.display = <<>> THEN f.path ELSE f.display

\* Wrong on purpose: the last component alone.
InboxRelpathFlat(name) == <<Last(name)>>

InboxRelpath(name) == IF ToSet(name) \cap Unsafe # {} THEN <<>> ELSE Names(name)

--------------------------------------------------------------------------
\* Wrong on purpose: the last level is not refused.
RECURSIVE BuildDeeper(_, _)
BuildDeeper(q, depth) ==
  /\ depth >= 0
  /\ CASE q.op \in {"eq", "lt", "gt"} -> q.field # "" /\ q.value.type # "malformed"
       [] q.op \in {"and", "or", "not"} -> \A i \in DOMAIN q.args : BuildDeeper(q.args[i], depth - 1)
       [] OTHER -> q.op = "all"

\* Matcher::build with the levels that are left.
RECURSIVE Build(_, _)
Build(q, depth) ==
  /\ depth > 0
  /\ CASE q.op \in {"eq", "lt", "gt"} -> q.field # "" /\ q.value.type # "malformed"
       [] q.op \in {"and", "or", "not"} -> \A i \in DOMAIN q.args : Build(q.args[i], depth - 1)
       [] OTHER -> q.op = "all"

\* as_f64 rounds a large integer to a neighbour that fits, half to even.
AsF64(n) ==
  LET half == n \div 2 IN
  IF n < 2^Mantissa THEN n ELSE 2 * (IF n % 4 = 3 THEN half + 1 ELSE half)

\* Wrong on purpose: the types are not looked at.
CompareMixed(a, b) ==
  IF AsF64(a.n) < AsF64(b.n) THEN "less" ELSE IF AsF64(a.n) > AsF64(b.n) THEN "greater" ELSE "equal"

\* compare: numbers as doubles, strings in their order, nothing else.
Compare(a, b) ==
  LET Key(v) == IF v.type = "string" THEN v.n ELSE AsF64(v.n) IN
  IF a.type # b.type \/ a.type \notin {"number", "string"} THEN "none"
  ELSE IF Key(a) < Key(b) THEN "less" ELSE IF Key(a) > Key(b) THEN "greater" ELSE "equal"

\* The comparison of eq is that of serde_json: 1 and 1.0 differ, by rep.
RECURSIVE Eval(_, _)
Eval(q, doc) ==
  CASE q.op = "all" -> TRUE
    [] q.op = "eq" -> q.field \in DOMAIN doc /\ doc[q.field] = q.value
    [] q.op = "lt" -> q.field \in DOMAIN doc /\ Compare(doc[q.field], q.value) = "less"
    [] q.op = "gt" -> q.field \in DOMAIN doc /\ Compare(doc[q.field], q.value) = "greater"
    [] q.op = "and" -> \A i \in DOMAIN q.args : Eval(q.args[i], doc)
    [] q.op = "or" -> \E i \in DOMAIN q.args : Eval(q.args[i], doc)
    [] q.op = "not" -> ~Eval(q.args[1], doc)

\* subscribe: a malformed query is refused, a good one decides on each upsert.
Query ==
  /\ task = "query" /\ verdict = "running"
  /\ verdict' = IF ~Build(given.q, MaxDepth) THEN "refused"
                ELSE IF Eval(given.q, given.doc) THEN "passes" ELSE "dropped"
  /\ UNCHANGED <<task, given, step, kept, issues>>

--------------------------------------------------------------------------
Next == ParseMapping \/ EndMappings \/ ValidateShape \/ ValidateFile \/ EndRequest \/ Query

Spec == Init /\ [][Next]_vars

--------------------------------------------------------------------------
WellFormed(raw) ==
  raw.delimiters = 1 /\ raw.subject \notin BadSubjects /\ raw.collection \notin BadCollections

\* The bridge is enabled exactly if every argument is a well-formed mapping and no
\* subject and no collection occurs twice, although an argument is compared with
\* the accepted ones before it only (config.rs, parse_mappings).
MappingsExact ==
  verdict \in {"rejected", "disabled", "enabled"} =>
    LET good == /\ \A i \in DOMAIN given.list : WellFormed(given.list[i])
                /\ \A i, j \in DOMAIN given.list : i # j =>
                     /\ given.list[i].subject # given.list[j].subject
                     /\ given.list[i].collection # given.list[j].collection IN
    /\ verdict = "enabled" <=>
         given.list # <<>> /\ good /\ given.url = "good" /\ given.node = "valid"
    /\ verdict = "disabled" <=> given.list = <<>> /\ given.url \in {"none", "good"}
    /\ verdict = "enabled" => kept = DOMAIN given.list

Plus(a, b) == a + b
Served(scope) == scope.kind = "all" \/ (scope.kind = "nodes" /\ scope.nodes \in 1..MaxNodes)
Accepts(f) == /\ f.flaw = "none" /\ f.size <= MaxFile /\ Names(f.path) # <<>>
              /\ ToSet(f.path) \cap Unsafe = {}

\* A request is accepted exactly if all rules hold of it, with the true sum of the
\* sizes (validate.rs, validate_request: "catch overflow ... rather than silently
\* wrapping").
RequestExact ==
  task = "request" /\ verdict # "running" =>
    (verdict = "accepted" <=>
       /\ given.files # <<>> /\ Len(given.files) <= MaxFiles
       /\ FoldFunction(Plus, 0, [i \in DOMAIN given.files |-> given.files[i].size]) <= MaxBundle
       /\ Served(given.scope)
       /\ \A i \in DOMAIN given.files : Accepts(given.files[i]))

\* A request that is refused for its shape has cost no look at the disk (validate.rs:
\* "without first incurring N file stats"), and none looks beyond the first file that
\* is refused.
LooksLate ==
  task = "request" /\ kept # {} =>
    /\ Served(given.scope)
    /\ \A i \in kept : \A j \in 1..i - 1 : Accepts(given.files[j])

\* What a sender's validation accepts, the receiver's check of the name accepts, too:
\* the file lands at the same path below the inbox, "." left out, unless the caller
\* named it otherwise (validate.rs, rule 4, and inbox.rs, inbox_relpath).
MirrorsLayout ==
  verdict = "accepted" =>
    \A i \in DOMAIN given.files :
      LET f == given.files[i]
          rel == InboxRelpath(BlobName(f)) IN
      /\ ToSet(rel) \cap (Unsafe \cup {"."}) = {}
      /\ f.display = <<>> => rel = Names(f.path) /\ rel # <<>>

RECURSIVE Levels(_)
Levels(q) == IF q.op \notin {"and", "or", "not"} THEN 1
             ELSE 1 + Max({0} \cup {Levels(q.args[i]) : i \in DOMAIN q.args})

RECURSIVE Nodes(_)
Nodes(q) ==
  {q} \cup (IF q.op \in {"and", "or", "not"} THEN UNION {Nodes(q.args[i]) : i \in DOMAIN q.args} ELSE {})

Malformed(q) ==
  q.op = "unset" \/ (q.op \in {"eq", "lt", "gt"} /\ (q.field = "" \/ q.value.type = "malformed"))

\* Reference: the double nearest to an integer, the even one of two.
Doubles == {m \in 0..2^Width : m < 2^Mantissa \/ m % 2 = 0}
Distance(m, n) == IF m < n THEN n - m ELSE m - n
Nearest(n) == CHOOSE m \in Doubles : \A o \in Doubles \ {m} :
  Distance(m, n) < Distance(o, n) \/ (Distance(m, n) = Distance(o, n) /\ m % 4 = 0)

\* Reference: values of one type have an order, numbers that of the nearest doubles.
Before(v, w) ==
  \/ v.type = "string" /\ w.type = "string" /\ v.n < w.n
  \/ v.type = "number" /\ w.type = "number" /\ Nearest(v.n) < Nearest(w.n)

\* Reference: what a leaf asks of the field, if the document has it.  An integer is equal
\* to no decimal, which json_eq's comment has otherwise: "including integer/float
\* equivalence (e.g. 1 == 1.0)" (query.rs:161-163).
Asks(q, v) ==
  CASE q.op = "eq" -> /\ v.type = q.value.type /\ v.n = q.value.n
                      /\ v.type = "number" => v.rep = q.value.rep
    [] q.op = "lt" -> Before(v, q.value)
    [] q.op = "gt" -> Before(q.value, v)

\* Reference: negation is pushed to the leaves.  A field that is missing, or has
\* another type, makes eq, lt and gt false and their negations true.
RECURSIVE Holds(_, _, _)
Holds(q, doc, wanted) ==
  CASE q.op = "not" -> Holds(q.args[1], doc, ~wanted)
    [] q.op = "all" -> wanted
    [] q.op \in {"eq", "lt", "gt"} -> (q.field \in DOMAIN doc /\ Asks(q, doc[q.field])) = wanted
    [] q.op = (IF wanted THEN "and" ELSE "or") ->
         \A i \in DOMAIN q.args : Holds(q.args[i], doc, wanted)
    [] OTHER -> \E i \in DOMAIN q.args : Holds(q.args[i], doc, wanted)

\* A query is refused exactly if it has more than MAX_DEPTH levels or a malformed leaf,
\* and one that is built means what its normal form means (query.rs, build and eval).
QueryExact ==
  /\ task = "query" /\ verdict # "running" =>
       (verdict = "refused" <=> Levels(given.q) > MaxDepth \/ \E q \in Nodes(given.q) : Malformed(q))
  /\ verdict \in {"passes", "dropped"} =>
       (verdict = "passes" <=> Holds(given.q, given.doc, TRUE))

\* Rounding to doubles loses order but never inverts it: what lt or gt lets pass is
\* in truth less or greater, and of the same type (query.rs, compare).
OrderIsSound ==
  verdict = "passes" /\ given.q.op \in {"lt", "gt"} =>
    LET v == given.doc[given.q.field] IN
    /\ v.type = given.q.value.type
    /\ IF given.q.op = "lt" THEN v.n < given.q.value.n ELSE v.n > given.q.value.n
=============================================================================

----------------------------- MODULE Arguments -----------------------------
(***************************************************************************)
(* Two lists that an operator gives on a command line, each worked through *)
(* in order: the --attachment-root entries of the node, followed by its    *)
(* inbox (attachments/config.rs), and the --set expressions of peat create *)
(* and peat update, followed by the document id and the defaults of a      *)
(* registered type (cli/writes.rs, create.rs, update.rs).  The invariants  *)
(* compare the result with definitions that do not depend on the loops.    *)
(***************************************************************************)
EXTENDS Integers, SequencesExt

CONSTANTS
  RootLists, InboxPaths,  \* raw_roots, and what is at inbox_path
  SetLists, Bases,        \* lists of --set expressions, and what they are applied to
  Scalars,                \* what --from may read that is not an object
  DocId,                  \* the document id of the target
  Zero                    \* proto3_zero: the default of every top-level field

VARIABLES
  job,      \* "roots" or "document"
  input,
  at,       \* list elements done so far
  roots,    \* name :> canonical path of the accepted roots
  inbox,    \* what is at the inbox path now
  doc,      \* the document so far
  outcome

vars == <<job, input, at, roots, inbox, doc, outcome>>

Empty == [k \in {} |-> k]
Object(m) == [type |-> "object", fields |-> m]
Entry(k, v) == [x \in {k} |-> v]
IsObject(v) == v.type = "object"

Init ==
  /\ \/ /\ job = "roots" /\ input \in [list : RootLists, inbox : InboxPaths]
        /\ inbox = input.inbox /\ doc = Object(Empty)
     \/ /\ job = "document" /\ inbox = "none"
        /\ \/ input \in [list : SetLists, base : Bases, registered : BOOLEAN]
           \/ input \in [list : {<<>>}, base : Bases \cup Scalars, registered : BOOLEAN]
        /\ doc = input.base
  /\ at = 0 /\ roots = Empty /\ outcome = "running"

--------------------------------------------------------------------------
\* parse_root_spec, on a spec that is not empty: the first thing that is wrong with it.
Flaw(spec) ==
  CASE spec.form = "bare" -> "separator"
    [] spec.name = "invalid" -> "name"
    [] spec.path = "unresolved" -> "canonicalise"
    [] spec.path = "file" -> "directory"
    [] OTHER -> "none"

\* One round of the loop of AttachmentConfig::from_raw: an empty entry is dropped, a
\* flawed one or a name seen before ends it.
AddRoot ==
  LET spec == input.list[at + 1]
  IN /\ job = "roots" /\ outcome = "running" /\ at < Len(input.list) /\ at' = at + 1
     /\ \/ spec.form = "empty" /\ UNCHANGED <<roots, outcome>>
        \/ spec.form # "empty" /\ Flaw(spec) # "none" /\ outcome' = Flaw(spec) /\ UNCHANGED roots
        \/ /\ spec.form # "empty" /\ Flaw(spec) = "none"
           /\ IF spec.name \in DOMAIN roots
              THEN outcome' = "duplicate" /\ UNCHANGED roots
              ELSE roots' = Entry(spec.name, spec.path) @@ roots /\ UNCHANGED outcome
     /\ UNCHANGED <<job, input, inbox, doc>>

\* canonicalise_or_create_inbox: a missing directory is created, or cannot be.
InboxFlaw(there) ==
  CASE there = "uncreatable" -> "inboxPath"
    [] there = "file" -> "inboxDirectory"
    [] OTHER -> "none"

\* The end of AttachmentConfig::from_raw, after the last root.
PrepareInbox ==
  /\ job = "roots" /\ outcome = "running" /\ at = Len(input.list)
  /\ inbox' = IF inbox = "missing" THEN "created" ELSE inbox
  /\ outcome' = IF InboxFlaw(inbox) = "none" THEN "prepared" ELSE InboxFlaw(inbox)
  /\ UNCHANGED <<job, input, at, roots, doc>>

--------------------------------------------------------------------------
\* coerce: an integer that i64 cannot hold is read as a float, a float that is not
\* finite stays a string.
Coerce(raw) ==
  [type |-> CASE raw.form \in {"null", "bool", "integer"} -> raw.form
              [] raw.form \in {"big", "decimal"} -> "float"
              [] raw.form \in {"infinite", "text"} -> "string",
   text |-> raw.text]

\* set_path: a value on the way that is not an object becomes an empty one.
RECURSIVE SetPath(_, _, _)
SetPath(v, parts, new) ==
  LET map == IF IsObject(v) THEN v.fields ELSE Empty
      k == Head(parts)
      below == IF k \in DOMAIN map THEN map[k] ELSE Object(Empty)
  IN Object(Entry(k, IF Len(parts) = 1 THEN new ELSE SetPath(below, Tail(parts), new)) @@ map)

Malformed(set) == ~set.separator \/ "" \in Range(set.path)

\* One round of apply_sets.
ApplySet ==
  LET set == input.list[at + 1]
  IN /\ job = "document" /\ outcome = "running" /\ at < Len(input.list) /\ at' = at + 1
     /\ IF Malformed(set)
        THEN outcome' = "malformed" /\ UNCHANGED doc
        ELSE doc' = SetPath(doc, set.path, Coerce(set.raw)) /\ UNCHANGED outcome
     /\ UNCHANGED <<job, input, roots, inbox>>

\* The id of a document of a registered type: absent, it is filled in from the target.
WithId(m) == m @@ Entry("id", [type |-> "string", text |-> DocId])

\* apply_proto3_defaults, on an object: the caller's fields win.
WithDefaults(m) == m @@ Zero

IdDiffers(m) == "id" \in DOMAIN m /\ m["id"].type = "string" /\ m["id"].text # DocId

\* create::run and update::run, once the document is read or built.
Complete ==
  /\ job = "document" /\ outcome = "running" /\ at = Len(input.list)
  /\ IF input.registered /\ IsObject(doc)
     THEN IF IdDiffers(doc.fields)
          THEN outcome' = "mismatch" /\ UNCHANGED doc
          ELSE doc' = Object(WithDefaults(WithId(doc.fields))) /\ outcome' = "prepared"
     ELSE outcome' = "prepared" /\ UNCHANGED doc
  /\ UNCHANGED <<job, input, at, roots, inbox>>

Next == AddRoot \/ PrepareInbox \/ ApplySet \/ Complete

--------------------------------------------------------------------------
Specs == {i \in DOMAIN input.list : input.list[i].form # "empty"}

\* The roots are accepted exactly if each entry that is not empty is sound, no two share
\* a name and the inbox is usable; the allowlist then has exactly them; and the inbox
\* directory is created only once every root is accepted, so that a refused command
\* line leaves none behind (AttachmentConfig::from_raw).
RootsExact ==
  LET sound == \A i \in Specs : Flaw(input.list[i]) = "none"
      distinct == \A i, j \in Specs : input.list[i].name = input.list[j].name => i = j
  IN job = "roots" /\ outcome # "running" =>
       /\ outcome = "prepared" <=>
            sound /\ distinct /\ input.inbox \in {"none", "missing", "directory"}
       /\ outcome = "prepared" =>
            /\ DOMAIN roots = {input.list[i].name : i \in Specs}
            /\ \A i \in Specs : roots[input.list[i].name] = input.list[i].path
       /\ inbox = "created" => outcome = "prepared" /\ input.inbox = "missing"

\* The paths and values of a document that has no further fields below them.
RECURSIVE Tips(_)
Tips(v) ==
  IF ~IsObject(v) \/ DOMAIN v.fields = {} THEN {<<<<>>, v>>}
  ELSE UNION {{<<<<k>> \o t[1], t[2]>> : t \in Tips(v.fields[k])} : k \in DOMAIN v.fields}

Related(p, q) == IsPrefix(p, q) \/ IsPrefix(q, p)

\* What the operator wrote and what was there before, by who speaks last: an expression
\* yields to a later one at, above or below its path, the base to every one of them.
LastWords ==
  {<<input.list[i].path, Coerce(input.list[i].raw)>> : i \in
     {n \in DOMAIN input.list : \A m \in n + 1 .. Len(input.list) :
        ~Related(input.list[n].path, input.list[m].path)}}
  \cup {t \in Tips(input.base) : \A n \in DOMAIN input.list : ~Related(t[1], input.list[n].path)}

\* A prepared document holds the last word on every path and nothing else but, for a
\* registered type, the target's id and the defaults of fields nobody mentioned; and
\* its id, where it is a string, is the target's.  A malformed expression anywhere, or
\* another id, refuses the whole (apply_sets, set_path, apply_proto3_defaults; the
\* reconciliation of the id in create::run and update::run).
DocumentExact ==
  job = "document" /\ outcome # "running" =>
    LET typed == input.registered /\ (input.list # <<>> \/ IsObject(input.base))
        mentioned == {t[1][1] : t \in {l \in LastWords : l[1] # <<>>}}
        named == {<<<<"id">>, [type |-> "string", text |-> DocId]>> : x \in {"id"} \ mentioned}
        filled == {<<<<k>>, Zero[k]>> : k \in DOMAIN Zero \ (mentioned \cup {"id"})}
        bad == \E i \in DOMAIN input.list : Malformed(input.list[i])
        other == \E t \in LastWords : t[1] = <<"id">> /\ t[2].type = "string" /\ t[2].text # DocId
    IN /\ outcome = "malformed" <=> bad
       /\ outcome = "mismatch" <=> ~bad /\ typed /\ other
       /\ outcome = "prepared" =>
            Tips(doc) = IF ~typed THEN LastWords
                        ELSE {t \in LastWords : t[1] # <<>>} \cup named \cup filled
============================================================================

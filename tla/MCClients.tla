----------------------------- MODULE MCClients -----------------------------
(***************************************************************************)
(* What clients and operators ask of the node, one part per behaviour:     *)
(* SendAttachments requests of several clients (Sending), commands of the  *)
(* peat command line (Cli), and the input that is accepted or refused:     *)
(* bridge mappings, attachment requests and queries (Rules), attachment    *)
(* roots and the fields of a document (Arguments).                         *)
(***************************************************************************)
EXTENDS Sending, Cli, TLC

CONSTANTS
  r1, r2, r3, i1, i2, i3, x, y, k1, k2,
  s1, s2, l1, l2, MaxFiles, MaxBundle, MaxFile, MaxNodes, Width, Mantissa, MaxDepth

VARIABLES
  topic,   \* the part that runs
  task, given, step, kept, issues, verdict,
  job, input, at, roots, inbox, doc, outcome

\* Three requests of two clients under ids that they may share, of files with a common
\* content; one distribution may be cancelled.
Naming(i, j, k) == r1 :> i @@ r2 :> j @@ r3 :> k
MCNamings == {Naming(i1, i2, i2), Naming(i1, i2, i3)}
MCFiles == r1 :> <<x, y>> @@ r2 :> <<y>> @@ r3 :> <<y>>
MCUnwanted == {<<r2, 1>>}
MCClient == r1 :> k1 @@ r2 :> k2 @@ r3 :> k1

\* Up to three mappings.
BadText == {"empty", "white", "invalid", "wildcard", "reserved", "long"}
Mapping(d, s, l) == [delimiters |-> d, subject |-> s, collection |-> l]
AllMappings == {Mapping(1, s, l) : s \in (BadText \ {"long"}) \cup {s1, s2},
                                   l \in (BadText \ {"wildcard"}) \cup {l1, l2}}
               \cup {Mapping(0, s1, l1), Mapping(2, s1, l1)}
FewMappings == {Mapping(1, s, l) : s \in {"wildcard", s1, s2}, l \in {"reserved", l1, l2}}
MCRawMappings == {<<>>} \cup {<<m>> : m \in AllMappings} \cup {<<m, o>> : m, o \in AllMappings}
                 \cup {<<m, o, q>> : m, o, q \in FewMappings}

\* Up to three files, with sizes whose sum overflows.
File(n, w, p, d) == [size |-> n, flaw |-> w, path |-> p, display |-> d]
Flaws == {"none", "sha", "root", "unresolved", "escape", "irregular", "size"}
Paths == {<<>>, <<"x">>, <<".">>, <<".", "x">>, <<"y", "x">>, <<"..", "x">>, <<"x", "..">>, <<"/", "x">>}
AllFiles == {File(n, w, p, d) : n \in {4, 7}, w \in Flaws, p \in Paths,
                                d \in {<<>>, <<"z">>, <<"..", "z">>}}
FewFiles == {File(n, w, <<"y", "x">>, <<>>) : n \in {0, 2, 4, 7}, w \in {"none", "size"}}
MCBundles == {<<>>} \cup {<<f>> : f \in AllFiles} \cup {<<f, g>> : f \in FewFiles, g \in AllFiles}
             \cup {<<f, g, h>> : f, g, h \in FewFiles}

\* Queries of up to four levels, and numbers that a double cannot hold.
Num(n) == [type |-> "number", n |-> n, rep |-> "int"]
Dbl(n) == [type |-> "number", n |-> n, rep |-> "float"]
Str(n) == [type |-> "string", n |-> n]
Leaves == {[op |-> o, field |-> f, value |-> v] : o \in {"eq", "lt", "gt"}, f \in {"a", ""},
             v \in {Num(1), Num(4), Num(5), Dbl(1), Str(1), [type |-> "bool", n |-> 1],
                    [type |-> "malformed", n |-> 0]}}
          \cup {[op |-> "all"], [op |-> "unset"]}
FewLeaves == {[op |-> "gt", field |-> "a", value |-> Num(4)], [op |-> "all"]}
Level(S) == S \cup {[op |-> "not", args |-> <<q>>] : q \in S}
              \cup {[op |-> o, args |-> z] : o \in {"and", "or"},
                      z \in {<<>>} \cup {<<q>> : q \in S} \cup {<<q, r>> : q, r \in S}}
MCQueries == Leaves \cup Level(Level(FewLeaves)) \cup
             {[op |-> "not", args |-> <<q>>] : q \in Level(Level(FewLeaves))}
MCDocs == {[b |-> Num(1)]} \cup
          {[a |-> v] : v \in {Num(0), Num(3), Num(4), Num(5), Num(7), Dbl(4), Str(0), Str(2),
                              [type |-> "bool", n |-> 1]}}

\* Up to three attachment roots, and every kind of inbox.
Root(f, n, p) == [form |-> f, name |-> n, path |-> p]
AllRoots == {Root("empty", "", ""), Root("bare", "", "")}
            \cup {Root("spec", n, p) : n \in {"m", "n", "invalid"}, p \in {"p", "q", "unresolved", "file"}}
MCRootLists == {<<>>} \cup {<<r>> : r \in AllRoots} \cup {<<r, s>> : r, s \in AllRoots}
               \cup {<<r, Root("empty", "", ""), s>> : r, s \in AllRoots}
MCInboxPaths == {"none", "missing", "uncreatable", "file", "directory"}

\* Up to three fields to set, at paths that overlap with each other and with what is
\* there, and every kind of value.
Raw(f, t) == [form |-> f, text |-> t]
SetTo(p, r) == [separator |-> TRUE, path |-> p, raw |-> r]
FieldPaths == {<<"a">>, <<"b">>, <<"a", "a">>, <<"a", "b">>, <<"a", "b", "a">>}
FewSets(t) == {SetTo(p, Raw("text", t)) : p \in FieldPaths \cup {<<"id">>, <<"a", "">>}}
AllSets == {SetTo(p, Raw(f, "own")) : p \in FieldPaths \cup {<<"id">>},
              f \in {"null", "bool", "integer", "big", "decimal", "infinite", "text"}}
           \cup {SetTo(p, Raw("text", t)) : p \in {<<"id">>, <<"id", "a">>, <<"">>}, t \in {"own", "other"}}
           \cup {[separator |-> FALSE, path |-> <<"a">>, raw |-> Raw("text", "")]}
MCSetLists == {<<e>> : e \in AllSets} \cup {<<e, f>> : e \in FewSets("own"), f \in AllSets}
              \cup {<<e, f, g>> : e \in FewSets("own"), f \in FewSets("other"), g \in FewSets("own")}
Text(t) == [type |-> "string", text |-> t]
Fields(m) == [type |-> "object", fields |-> m]
NoFields == Fields([f \in {} |-> f])
MCBases == {NoFields} \cup {Fields("a" :> v @@ m) :
              v \in {Text("u"), NoFields, Fields("a" :> Text("u") @@ "b" :> Fields("b" :> Text("u")))},
              m \in {"c" :> Text("u"), "id" :> Text("own"), "id" :> Text("other")}}
MCScalars == {Text("u")}
MCZero == "id" :> Text("") @@ "a" :> Text("zero") @@ "b" :> Text("zero") @@ "d" :> Text("zero")

Given == INSTANCE Arguments WITH
  RootLists <- MCRootLists, InboxPaths <- MCInboxPaths, SetLists <- MCSetLists, Bases <- MCBases,
  Scalars <- MCScalars, DocId <- "own", Zero <- MCZero

Inputs == INSTANCE Rules WITH
  RawMappings <- MCRawMappings, Bundles <- MCBundles, Queries <- MCQueries, Docs <- MCDocs

inputVars == <<task, given, step, kept, issues, verdict>>
givenVars == <<job, input, at, roots, inbox, doc, outcome>>
parts == <<topic, vars, cliVars, inputVars, givenVars>>

\* Two commands, of which one at most waits for its peer.  They meet in the persistent
\* store or through the peer: delete, query and waiting are tried with the first, observe
\* with the second, create and update with both.
ClientsInit ==
  /\ topic \in {"sending", "cli", "rules", "arguments"} /\ Init /\ CliInit
  /\ topic # "sending" => id = Naming(i1, i2, i3)
  /\ topic = "cli" => /\ \A i, j \in Cmds : cmd[i].wait /\ cmd[j].wait => i = j
                      /\ \E i \in Cmds : cmd[i].persistent
                      /\ \A i \in Cmds : cmd[i].wait \/ cmd[i].verb = "query" => cmd[i].persistent
                      /\ \A i \in Cmds : cmd[i].verb = "observe" => ~cmd[i].persistent
                      /\ \A i \in Cmds : cmd[i].verb = "delete" => cmd[i].persistent
  /\ topic # "cli" => node = {} /\ \A k \in Cmds :
       cmd[k].verb = "create" /\ ~cmd[k].wait /\ ~cmd[k].persistent
  /\ IF topic = "rules" THEN Inputs!Init ELSE
       task = "none" /\ given = <<>> /\ step = 0 /\ kept = {} /\ issues = {} /\ verdict = "running"
  /\ IF topic = "arguments" THEN Given!Init ELSE
       /\ job = "none" /\ input = <<>> /\ at = 0 /\ roots = <<>> /\ inbox = "none"
       /\ doc = <<>> /\ outcome = "running"

ClientsNext ==
  \/ topic = "sending" /\ Next /\ UNCHANGED <<topic, cliVars, inputVars, givenVars>>
  \/ topic = "cli" /\ CliNext /\ UNCHANGED <<topic, vars, inputVars, givenVars>>
  \/ topic = "rules" /\ Inputs!Next /\ UNCHANGED <<topic, vars, cliVars, givenVars>>
  \/ topic = "arguments" /\ Given!Next /\ UNCHANGED <<topic, vars, cliVars, inputVars>>

ClientsSpec == ClientsInit /\ [][ClientsNext]_parts

Symmetry == Permutations(Cmds)

--------------------------------------------------------------------------
\* Mappings, requests, queries, attachment roots and fields to set are accepted exactly
\* if the whole of them is well formed, with true sums, levels and comparisons, the last
\* word on every field, and no look at the disk or directory made for what is refused
\* (Rules: MappingsExact, RequestExact, LooksLate, MirrorsLayout, QueryExact,
\* OrderIsSound; Arguments: RootsExact, DocumentExact).
VerdictsExact ==
  /\ topic = "rules" =>
       /\ Inputs!MappingsExact /\ Inputs!RequestExact /\ Inputs!LooksLate
       /\ Inputs!MirrorsLayout /\ Inputs!QueryExact /\ Inputs!OrderIsSound
  /\ topic = "arguments" => Given!RootsExact /\ Given!DocumentExact
============================================================================

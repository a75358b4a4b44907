--------------------------- MODULE ManifestParser ---------------------------
(***************************************************************************)
(* Parser::parse_file (src/src/parser.cpp) and the Manifest and BuildGraph *)
(* it fills (src/src/manifest.cpp, rule.cpp, build_graph.cpp, node.cpp):   *)
(* one step per line, and one per output and input of a build statement,   *)
(* because BuildGraph::add_output may throw in the middle of it.           *)
(*                                                                         *)
(* A line is what trim, starts_with, find(':') and split make of it.  The  *)
(* parser may be used again, for another file and a new Manifest.          *)
(***************************************************************************)
EXTENDS Naturals, Sequences, FiniteSets, Functions

CONSTANTS
  Name,       (* what rules may be called                                  *)
  Path,       (* what files may be called                                  *)
  Text,       (* commands and depfiles                                     *)
  Empty,      (* the empty text                                            *)
  none,       (* no rule: a null pointer                                   *)
  Statement,  (* the lines a manifest may have                             *)
  MaxLines    (* bound: lines of a manifest                                *)

(* "blank" is an empty line or a comment, "other" anything unknown.        *)
Line ==
       [kind : {"blank", "other"}]
  \cup [kind : {"rule"}, name : Name]
  \cup [kind : {"command", "depfile"}, text : Text \cup {Empty}]
  \cup [kind : {"build"}, colon : BOOLEAN, outputs : Seq(Path),
        rule : Name \cup {none}, inputs : Seq(Path)]

ASSUME ParserAssumption ==
  /\ Empty \notin Text /\ none \notin Name
  /\ \A s \in Statement :
       /\ s.kind \in {"blank", "other", "rule", "command", "depfile", "build"}
       /\ s.kind = "rule" => s.name \in Name
       /\ s.kind \in {"command", "depfile"} => s.text \in Text \cup {Empty}
       /\ s.kind = "build" =>
            /\ s.colon \in BOOLEAN
            /\ s.outputs \in Seq(Path) /\ s.inputs \in Seq(Path)
            /\ s.rule \in Name \cup {none}
  /\ MaxLines \in Nat

VARIABLES
  pc,            (* "line": the loop of parse_file; "outputs", "inputs":   *)
                 (* those of parse_build; or the answer                    *)
  state,         (* state_                                                 *)
  current_rule,  (* current_rule_                                          *)
  command,       (* command[r]: of a rule of the manifest                  *)
  depfile,       (* depfile[r], likewise                                   *)
  rules,         (* the names in Manifest::rules_                          *)
  edges,         (* BuildGraph::edges_                                     *)
  nodes,         (* BuildGraph::nodes_                                     *)
  in_edge,       (* Node::in_edge_, 0 for none                             *)
  out_edges,     (* Node::out_edges_                                       *)
  statement,     (* the build statement being parsed                       *)
  next,          (* the output or input whose turn it is                   *)
  lines,         (* history: the lines read                                *)
  unread         (* history: the file could not be read to its end         *)

graph == <<edges, nodes, in_edge, out_edges>>
manifest == <<command, depfile, rules, graph>>
parser == <<state, current_rule>>
vars == <<pc, parser, manifest, statement, next, lines, unread>>

blank == [kind |-> "blank"]

(* A Manifest that nothing was added to.                                   *)
NewManifest ==
  /\ command' = [r \in Name |-> Empty] /\ depfile' = [r \in Name |-> Empty]
  /\ rules' = {} /\ edges' = <<>> /\ nodes' = {}
  /\ in_edge' = [n \in Path |-> 0] /\ out_edges' = [n \in Path |-> <<>>]

Init ==
  /\ pc = "accepted" /\ state = "None" /\ current_rule = none
  /\ command = [r \in Name |-> Empty] /\ depfile = [r \in Name |-> Empty]
  /\ rules = {} /\ edges = <<>> /\ nodes = {}
  /\ in_edge = [n \in Path |-> 0] /\ out_edges = [n \in Path |-> <<>>]
  /\ statement = blank /\ next = 0
  /\ lines = <<>> /\ unread = FALSE

-----------------------------------------------------------------------------
(* parse_file() resets the parser.  Mutant: it does not.                   *)
KeepState == UNCHANGED parser
ResetState == state' = "None" /\ current_rule' = none

OpenFile ==
  /\ pc \in {"accepted", "rejected"}
  /\ ResetState /\ NewManifest
  /\ statement' = blank /\ next' = 0 /\ lines' = <<>>
  /\ \E opens \in BOOLEAN :
       /\ pc' = IF opens THEN "line" ELSE "rejected"
       /\ unread' = ~opens

Read(s) == pc = "line" /\ Len(lines) < MaxLines /\ lines' = Append(lines, s)

Reject == /\ pc' = "rejected"
          /\ UNCHANGED <<parser, manifest, next, unread>>

SkipLine(s) ==
  /\ Read(s) /\ s.kind = "blank"
  /\ UNCHANGED <<pc, parser, manifest, statement, next, unread>>

UnknownStatement(s) ==
  /\ Read(s) /\ s.kind = "other"
  /\ Reject /\ UNCHANGED statement

(* Manifest::add_rule throws when the name is taken.                       *)
NewName(r) == r \notin rules

DeclareRule(s) ==
  /\ Read(s) /\ s.kind = "rule"
  /\ \/ ~NewName(s.name) /\ Reject /\ UNCHANGED statement
     \/ /\ NewName(s.name)
        /\ rules' = rules \cup {s.name}
        /\ command' = [command EXCEPT ![s.name] = Empty]
        /\ depfile' = [depfile EXCEPT ![s.name] = Empty]
        /\ state' = "Rule" /\ current_rule' = s.name
        /\ UNCHANGED <<pc, graph, statement, next, unread>>

(* A command or a depfile belongs to the rule above it.                    *)
InRule(s) == state = "Rule" /\ current_rule # none /\ s.text # Empty

SetCommand(s) ==
  /\ Read(s) /\ s.kind = "command"
  /\ \/ ~InRule(s) /\ Reject /\ UNCHANGED statement
     \/ /\ InRule(s)
        /\ command' = [command EXCEPT ![current_rule] = s.text]
        /\ UNCHANGED <<pc, parser, depfile, rules, graph, statement, next,
                       unread>>

SetDepfile(s) ==
  /\ Read(s) /\ s.kind = "depfile"
  /\ \/ ~InRule(s) /\ Reject /\ UNCHANGED statement
     \/ /\ InRule(s)
        /\ depfile' = [depfile EXCEPT ![current_rule] = s.text]
        /\ UNCHANGED <<pc, parser, command, rules, graph, statement, next,
                       unread>>

(* The checks of parse_build().  Mutant: the rule may get its command      *)
(* later.                                                                  *)
Declared(s) == s.rule \in rules
HasCommand(s) == s.rule \in rules /\ command[s.rule] # Empty
WellFormed(s) == s.colon /\ s.outputs # <<>> /\ s.inputs # <<>>

BeginBuild(s) ==
  /\ Read(s) /\ s.kind = "build"
  /\ \/ ~(WellFormed(s) /\ HasCommand(s)) /\ Reject /\ UNCHANGED statement
     \/ /\ WellFormed(s) /\ HasCommand(s)
        /\ statement' = s /\ next' = 1 /\ pc' = "outputs"
        /\ edges' = Append(edges, [rule |-> s.rule, outputs |-> <<>>,
                                   inputs |-> <<>>])
        /\ UNCHANGED <<parser, command, depfile, rules, nodes, in_edge,
                       out_edges, unread>>

(* BuildGraph::add_output throws when the node has a producer.  Mutant:    *)
(* only when that is another edge.                                         *)
NoOtherProducer(n) == in_edge[n] \in {0, Len(edges)}
NoProducer(n) == in_edge[n] = 0

AddOutput ==
  /\ pc = "outputs"
  /\ LET n == statement.outputs[next] IN
       /\ nodes' = nodes \cup {n}
       /\ \/ /\ ~NoProducer(n)
             /\ pc' = "rejected"
             /\ UNCHANGED <<edges, in_edge, next>>
          \/ /\ NoProducer(n)
             /\ edges' = [edges EXCEPT ![Len(edges)].outputs = Append(@, n)]
             /\ in_edge' = [in_edge EXCEPT ![n] = Len(edges)]
             /\ IF next = Len(statement.outputs)
                THEN pc' = "inputs" /\ next' = 1
                ELSE pc' = pc /\ next' = next + 1
  /\ UNCHANGED <<parser, command, depfile, rules, out_edges, statement, lines,
                 unread>>

(* After the last input, no rule is current.  Mutant: it stays so.         *)
StayInRule == UNCHANGED parser
LeaveRule == state' = "Build" /\ current_rule' = none

AddInput ==
  /\ pc = "inputs"
  /\ LET n == statement.inputs[next] IN
       /\ nodes' = nodes \cup {n}
       /\ edges' = [edges EXCEPT ![Len(edges)].inputs = Append(@, n)]
       /\ out_edges' = [out_edges EXCEPT ![n] = Append(@, Len(edges))]
  /\ IF next = Len(statement.inputs)
     THEN pc' = "line" /\ next' = 0 /\ statement' = blank /\ LeaveRule
     ELSE /\ next' = next + 1
          /\ UNCHANGED <<pc, statement, parser>>
  /\ UNCHANGED <<command, depfile, rules, in_edge, lines, unread>>

(* getline fails: at the end of the file, or the stream is bad.            *)
EndOfFile ==
  /\ pc = "line"
  /\ \E bad \in BOOLEAN :
       /\ pc' = IF bad THEN "rejected" ELSE "accepted"
       /\ unread' = bad
  /\ UNCHANGED <<parser, manifest, statement, next, lines>>

ParseLine ==
  \E s \in Statement :
    \/ SkipLine(s) \/ UnknownStatement(s)
    \/ DeclareRule(s) \/ SetCommand(s) \/ SetDepfile(s) \/ BeginBuild(s)

Next == OpenFile \/ ParseLine \/ AddOutput \/ AddInput \/ EndOfFile

Spec == Init /\ [][Next]_vars

-----------------------------------------------------------------------------
(* Every variable is in its range.                                         *)
TypeOK ==
  /\ pc \in {"line", "outputs", "inputs", "accepted", "rejected"}
  /\ state \in {"None", "Rule", "Build"}
  /\ current_rule \in rules \cup {none} /\ rules \subseteq Name
  /\ command \in [Name -> Text \cup {Empty}]
  /\ depfile \in [Name -> Text \cup {Empty}]
  /\ edges \in Seq([rule : rules, outputs : Seq(nodes), inputs : Seq(nodes)])
  /\ nodes \subseteq Path
  /\ in_edge \in [Path -> 0..Len(edges)]
  /\ out_edges \in [Path -> Seq(1..Len(edges))]
  /\ statement \in Statement \cup {blank}
  /\ next \in Nat
  /\ lines \in Seq(Statement) /\ unread \in BOOLEAN

(* How often x stands in s.                                                *)
Times(x, s) == Cardinality({i \in DOMAIN s : s[i] = x})

(* The two directions of the graph agree, also in the middle of a          *)
(* statement and after an exception: in_edge_ names the one edge that has  *)
(* the node as an output, out_edges_ those that have it as an input, as    *)
(* often as they do.                                                       *)
GraphAgrees ==
  /\ \A n \in Path, e \in 1..Len(edges) :
       /\ n \in Range(edges[e].outputs) <=> in_edge[n] = e
       /\ Times(n, edges[e].inputs) = Times(e, out_edges[n])
  /\ \A e \in 1..Len(edges) : IsInjective(edges[e].outputs)

(* The command and the depfile of a rule that an edge uses do not change   *)
(* any more: what an edge will run is what stood above its build           *)
(* statement.                                                              *)
RuleInUseIsFixed ==
  [][\A e \in DOMAIN edges :
       LET r == edges[e].rule IN
         e \in DOMAIN edges' => /\ command'[r] = command[r]
                                /\ depfile'[r] = depfile[r]]_vars

-----------------------------------------------------------------------------
(* What a manifest means, from its lines alone.                            *)

(* The line i is indented under the line j, which opens a rule.            *)
Under(i, j) ==
  /\ lines[j].kind = "rule"
  /\ \A k \in j + 1..i - 1 : lines[k].kind \notin {"rule", "build"}

(* The lines before i that say something of the rule r, of one kind.       *)
Said(r, kind, i) ==
  {j \in 1..i - 1 : /\ lines[j].kind = kind
                    /\ \E h \in 1..j - 1 : Under(j, h) /\ lines[h].name = r}

LegalBuild(i) ==
  LET s == lines[i] IN
    /\ s.colon /\ s.outputs # <<>> /\ s.inputs # <<>>
    /\ Said(s.rule, "command", i) # {}
    /\ IsInjective(s.outputs)
    /\ \A j \in 1..i - 1 :
         lines[j].kind = "build" =>
           Range(lines[j].outputs) \cap Range(s.outputs) = {}

LegalLine(i) ==
  LET s == lines[i] IN
    \/ s.kind = "blank"
    \/ s.kind = "rule" /\ \A j \in 1..i - 1 :
                            lines[j].kind = "rule" => lines[j].name # s.name
    \/ /\ s.kind \in {"command", "depfile"} /\ s.text # Empty
       /\ \E h \in 1..i - 1 : Under(i, h)
    \/ s.kind = "build" /\ LegalBuild(i)

AcceptsTheLegal ==
  /\ pc \in {"accepted", "line"} => \A i \in 1..Len(lines) : LegalLine(i)
  /\ pc = "rejected" /\ ~unread => ~LegalLine(Len(lines))

(* How many edges the first i lines describe.                              *)
EdgesTo(i) == Cardinality({j \in 1..i : lines[j].kind = "build"})

(* The last thing said of the rule r, or nothing.                          *)
SaysLast(r, kind, text) ==
  LET said == Said(r, kind, Len(lines) + 1) IN
    \/ said = {} /\ text = Empty
    \/ \E j \in said : lines[j].text = text /\ \A k \in said : k <= j

GraphIsTheManifest ==
  pc = "accepted" =>
    /\ Len(edges) = EdgesTo(Len(lines))
    /\ \A i \in 1..Len(lines) :
         lines[i].kind = "build" =>
           edges[EdgesTo(i)] = [rule |-> lines[i].rule,
                                outputs |-> lines[i].outputs,
                                inputs |-> lines[i].inputs]
    /\ \A r \in rules : /\ SaysLast(r, "command", command[r])
                         /\ SaysLast(r, "depfile", depfile[r])

(* A file is accepted exactly when each of its lines is legal where it     *)
(* stands, given those above it, whatever the parser has read before; and  *)
(* what it describes is what main() builds: one edge per build statement,  *)
(* in their order, with its files and the last command and depfile given   *)
(* to its rule.                                                            *)
ParsesFaithfully == AcceptsTheLegal /\ GraphIsTheManifest

=============================================================================

------------------------ MODULE ManifestParserProofs ------------------------
(***************************************************************************)
(* The graph that the parser fills is well formed at every step, for every *)
(* manifest; what it accepts is what the lines of the manifest say; and    *)
(* what an edge of it runs and reads is what its rule and its files say.   *)
(***************************************************************************)
EXTENDS EdgeText, SequenceLemmas

ParsedEdge == [rule : rules, outputs : Seq(nodes), inputs : Seq(nodes)]

(* In a build statement there is a file left to add to the last edge.      *)
StatementInv ==
  pc \in {"outputs", "inputs"} =>
    /\ statement \in Statement /\ statement.kind = "build"
    /\ WellFormed(statement)
    /\ Len(edges) # 0
    /\ next \in 1..Len(IF pc = "outputs" THEN statement.outputs
                                         ELSE statement.inputs)

(* No edge uses the rule that is being described.                          *)
RuleInv ==
  pc = "line" /\ state = "Rule" =>
    \A e \in DOMAIN edges : edges[e].rule # current_rule

IInv == TypeOK /\ StatementInv /\ RuleInv /\ GraphAgrees

-----------------------------------------------------------------------------
(* How often an element stands in a sequence.                              *)
LEMMA TimesNone ==
  ASSUME NEW s, NEW x, \A i \in DOMAIN s : s[i] # x
  PROVE  Times(x, s) = 0
<1>1. {i \in DOMAIN s : s[i] = x} = {}
  OBVIOUS
<1>. QED BY <1>1, FS_EmptySet DEF Times

LEMMA TimesAppend ==
  ASSUME NEW S, NEW s \in Seq(S), NEW y \in S, NEW x
  PROVE  /\ Times(x, s) \in Nat
         /\ x = y => Times(x, Append(s, y)) = Times(x, s) + 1
         /\ x # y => Times(x, Append(s, y)) = Times(x, s)
<1>. DEFINE T == {i \in DOMAIN s : s[i] = x}
            u == Append(s, y)
            U == {i \in DOMAIN u : u[i] = x}
<1>1. /\ Len(s) \in Nat /\ DOMAIN s = 1..Len(s)
      /\ DOMAIN u = 1..Len(s) + 1 /\ u[Len(s) + 1] = y
      /\ \A i \in 1..Len(s) : u[i] = s[i]
  BY LenProperties, AppendProperties
<1>. HIDE DEF u
<1>2. IsFiniteSet(T) /\ Cardinality(T) \in Nat
  <2>1. IsFiniteSet(1..Len(s))
    BY <1>1, FS_Interval
  <2>2. T \subseteq 1..Len(s)
    BY <1>1
  <2>3. IsFiniteSet(T)
    BY <2>1, <2>2, FS_Subset
  <2>. QED BY <2>3, FS_CardinalityType
<1>3. CASE x = y
  <2>1. U = T \cup {Len(s) + 1} /\ Len(s) + 1 \notin T
    BY <1>1, <1>3
  <2>2. Cardinality(U) = Cardinality(T) + 1
    <3>. HIDE DEF T, U
    <3>. QED BY <1>2, <2>1, FS_AddElement
  <2>. QED BY <1>2, <1>3, <2>2 DEF Times, u
<1>4. CASE x # y
  <2>1. U = T
    BY <1>1, <1>4
  <2>. QED BY <1>2, <1>4, <2>1 DEF Times, u
<1>. QED BY <1>3, <1>4

-----------------------------------------------------------------------------
LEMMA InitEstablishes == Init => IInv
<1>. SUFFICES ASSUME Init PROVE IInv
  OBVIOUS
<1>1. edges = <<>> /\ \A n \in Path : in_edge[n] = 0 /\ out_edges[n] = <<>>
  BY DEF Init
<1>2. TypeOK
  <2>1. edges \in Seq([rule : rules, outputs : Seq(nodes),
                      inputs : Seq(nodes)])
    BY <1>1
  <2>2. /\ in_edge \in [Path -> 0..Len(edges)]
        /\ out_edges \in [Path -> Seq(1..Len(edges))]
    BY <1>1 DEF Init
  <2>3. lines \in Seq(Statement)
    BY DEF Init
  <2>. QED BY <2>1, <2>2, <2>3 DEF Init, TypeOK, blank
<1>3. StatementInv /\ RuleInv
  BY DEF Init, StatementInv, RuleInv
<1>4. GraphAgrees
  BY <1>1 DEF GraphAgrees
<1>. QED BY <1>2, <1>3, <1>4 DEF IInv

(* The files of a build statement are paths.                               *)
LEMMA StatementFiles ==
  ASSUME IInv, pc \in {"outputs", "inputs"}
  PROVE  /\ statement.outputs \in Seq(Path) /\ statement.inputs \in Seq(Path)
         /\ pc = "outputs" => statement.outputs[next] \in Path
         /\ pc = "inputs" => statement.inputs[next] \in Path
<1>1. statement.outputs \in Seq(Path) /\ statement.inputs \in Seq(Path)
  BY ParserAssumption DEF IInv, StatementInv
<1>. QED BY <1>1 DEF IInv, StatementInv

(* An edge of the graph, with its files.                                   *)
LEMMA EdgeTyped ==
  ASSUME TypeOK, NEW e \in DOMAIN edges
  PROVE  /\ e \in 1..Len(edges) /\ Len(edges) \in Nat
         /\ edges[e] \in ParsedEdge
         /\ edges[e].rule \in rules
         /\ edges[e].outputs \in Seq(nodes) /\ edges[e].inputs \in Seq(nodes)
         /\ edges[e] = [rule |-> edges[e].rule,
                        outputs |-> edges[e].outputs,
                        inputs |-> edges[e].inputs]
<1>1. edges \in Seq(ParsedEdge) /\ DOMAIN edges = 1..Len(edges)
  BY DEF TypeOK, ParsedEdge
<1>2. edges[e] \in ParsedEdge
  BY <1>1
<1>. HIDE DEF ParsedEdge
<1>3. \A p \in ParsedEdge : /\ p.rule \in rules
                       /\ p.outputs \in Seq(nodes) /\ p.inputs \in Seq(nodes)
                       /\ p = [rule |-> p.rule, outputs |-> p.outputs,
                               inputs |-> p.inputs]
  BY DEF ParsedEdge
<1>. QED BY <1>1, <1>2, <1>3

(* With the same edges, and no fewer rules and nodes, the graph stays so.  *)
LEMMA GraphKept ==
  ASSUME TypeOK, GraphAgrees, UNCHANGED <<edges, in_edge, out_edges>>,
         rules \subseteq rules', nodes \subseteq nodes'
  PROVE  GraphAgrees' /\ edges' \in Seq(ParsedEdge')
<1>1. edges \in Seq(ParsedEdge) /\ ParsedEdge \subseteq ParsedEdge'
  BY DEF TypeOK, ParsedEdge
<1>2. edges \in Seq(ParsedEdge')
  BY <1>1
<1>. QED BY <1>2 DEF GraphAgrees

-----------------------------------------------------------------------------
(* Steps that leave the graph alone.                                       *)

LEMMA OpenKeeps == IInv /\ OpenFile => IInv'
<1>. SUFFICES ASSUME IInv, OpenFile PROVE IInv'
  OBVIOUS
<1>. USE DEF OpenFile, ResetState, NewManifest
<1>1. edges' = <<>> /\ \A n \in Path : in_edge'[n] = 0 /\ out_edges'[n] = <<>>
  OBVIOUS
<1>2. TypeOK'
  <2>1. edges' \in Seq([rule : rules', outputs : Seq(nodes'),
                        inputs : Seq(nodes')])
    BY <1>1
  <2>2. /\ in_edge' \in [Path -> 0..Len(edges')]
        /\ out_edges' \in [Path -> Seq(1..Len(edges'))]
    BY <1>1
  <2>3. lines' \in Seq(Statement) /\ unread' \in BOOLEAN /\ next' \in Nat
        /\ pc' \in {"line", "rejected"}
    OBVIOUS
  <2>. QED BY <2>1, <2>2, <2>3 DEF TypeOK, blank
<1>3. StatementInv' /\ RuleInv'
  BY DEF StatementInv, RuleInv
<1>4. GraphAgrees'
  BY <1>1 DEF GraphAgrees
<1>. QED BY <1>2, <1>3, <1>4 DEF IInv

(* A line is read that adds nothing to the graph; a rule is opened only if *)
(* it is new, so that no edge can use it.                                  *)
LEMMA LineKeeps ==
  ASSUME IInv, NEW s \in Statement, Read(s),
         SkipLine(s) \/ UnknownStatement(s) \/ DeclareRule(s)
           \/ SetCommand(s) \/ SetDepfile(s) \/ (BeginBuild(s) /\ Reject)
  PROVE  IInv'
<1>. USE DEF Read, Reject, parser, manifest, graph
<1>1. /\ pc' \in {"line", "rejected"} /\ lines' \in Seq(Statement)
      /\ UNCHANGED <<graph, next, unread, statement>>
      /\ rules \subseteq rules' /\ rules' \subseteq Name
      /\ current_rule' \in rules' \cup {none}
      /\ state' \in {"None", "Rule", "Build"}
  BY ParserAssumption
     DEF IInv, TypeOK, SkipLine, UnknownStatement, DeclareRule, SetCommand,
         SetDepfile, BeginBuild
<1>2. /\ command' \in [Name -> Text \cup {Empty}]
      /\ depfile' \in [Name -> Text \cup {Empty}]
  BY ParserAssumption
     DEF IInv, TypeOK, SkipLine, UnknownStatement, DeclareRule, SetCommand,
         SetDepfile, BeginBuild
<1>3. GraphAgrees' /\ edges' \in Seq(ParsedEdge')
  BY <1>1, GraphKept DEF IInv
<1>4. TypeOK'
  BY <1>1, <1>2, <1>3 DEF IInv, TypeOK, ParsedEdge
<1>5. StatementInv'
  BY <1>1 DEF StatementInv
<1>6. RuleInv'
  <2>1. CASE state' = state /\ current_rule' = current_rule
    BY <1>1, <2>1 DEF IInv, RuleInv
  <2>2. CASE NewName(s.name) /\ current_rule' = s.name
    BY <1>1, <2>2, EdgeTyped DEF IInv, RuleInv, NewName
  <2>. QED BY <2>1, <2>2 DEF SkipLine, UnknownStatement, DeclareRule,
                             SetCommand, SetDepfile, BeginBuild
<1>. QED BY <1>3, <1>4, <1>5, <1>6 DEF IInv

LEMMA EndKeeps == IInv /\ (EndOfFile \/ UNCHANGED vars) => IInv'
<1>. SUFFICES ASSUME IInv, EndOfFile \/ UNCHANGED vars PROVE IInv'
  OBVIOUS
<1>1. /\ UNCHANGED <<parser, manifest, next, lines, statement>>
      /\ unread' \in BOOLEAN
      /\ pc' = pc \/ pc' \in {"accepted", "rejected"}
  BY DEF EndOfFile, vars, IInv, TypeOK
<1>. USE DEF parser, manifest, graph
<1>2. GraphAgrees' /\ edges' \in Seq(ParsedEdge')
  BY <1>1, GraphKept DEF IInv
<1>3. TypeOK'
  BY <1>1, <1>2 DEF IInv, TypeOK, ParsedEdge
<1>4. StatementInv' /\ RuleInv'
  BY <1>1 DEF IInv, StatementInv, WellFormed, RuleInv
<1>. QED BY <1>2, <1>3, <1>4 DEF IInv

-----------------------------------------------------------------------------
(* Steps that build the graph.                                             *)

LEMMA BeginKeeps ==
  ASSUME IInv, NEW s \in Statement, BeginBuild(s)
  PROVE  IInv'
<1>1. CASE Reject /\ UNCHANGED statement
  BY <1>1, LineKeeps DEF BeginBuild
<1>2. CASE /\ WellFormed(s) /\ HasCommand(s)
           /\ statement' = s /\ next' = 1 /\ pc' = "outputs"
           /\ edges' = Append(edges, [rule |-> s.rule, outputs |-> <<>>,
                                      inputs |-> <<>>])
           /\ UNCHANGED <<parser, command, depfile, rules, nodes, in_edge,
                          out_edges, unread>>
  <2>. DEFINE new == [rule |-> s.rule, outputs |-> <<>>, inputs |-> <<>>]
              k == Len(edges)
  <2>1. /\ s.kind = "build" /\ lines' \in Seq(Statement)
        /\ s.outputs \in Seq(Path) /\ s.inputs \in Seq(Path)
    BY ParserAssumption DEF BeginBuild, Read, IInv, TypeOK
  <2>2. edges \in Seq(ParsedEdge) /\ k \in Nat /\ new \in ParsedEdge
    BY <1>2 DEF IInv, TypeOK, ParsedEdge, HasCommand
  <2>3. /\ edges' \in Seq(ParsedEdge) /\ Len(edges') = k + 1
        /\ \A e \in 1..k : edges'[e] = edges[e]
        /\ edges'[k + 1] = new
    <3>. HIDE DEF new, k
    <3>1. edges' = Append(edges, new) /\ k = Len(edges)
      BY <1>2 DEF new, k
    <3>. QED BY <2>2, <3>1
  <2>4. edges' \in Seq(ParsedEdge')
    BY <1>2, <2>3 DEF ParsedEdge
  <2>5. TypeOK'
    <3>1. in_edge' \in [Path -> 0..Len(edges')]
      BY <1>2, <2>2, <2>3 DEF IInv, TypeOK
    <3>2. out_edges' \in [Path -> Seq(1..Len(edges'))]
      <4>1. Seq(1..k) \subseteq Seq(1..k + 1)
        BY <2>2
      <4>. QED BY <1>2, <2>2, <2>3, <4>1 DEF IInv, TypeOK
    <3>. QED BY <1>2, <2>1, <2>4, <3>1, <3>2 DEF IInv, TypeOK, ParsedEdge,
                                                    parser
  <2>6. StatementInv'
    <3>1. Len(s.outputs) \in Nat /\ Len(s.outputs) # 0
      BY <1>2, <2>1 DEF WellFormed
    <3>. QED BY <1>2, <2>1, <2>2, <2>3, <3>1 DEF StatementInv, WellFormed
  <2>7. RuleInv'
    BY <1>2 DEF RuleInv
  <2>8. GraphAgrees'
    <3>1. \A n \in Path : /\ in_edge[n] # k + 1
                          /\ Times(k + 1, out_edges[n]) = 0
      <4>1. \A n \in Path : in_edge[n] # k + 1 /\ out_edges[n] \in Seq(1..k)
        BY <2>2 DEF IInv, TypeOK
      <4>2. \A n \in Path : \A i \in DOMAIN out_edges[n] :
              out_edges[n][i] # k + 1
        BY <2>2, <4>1, LenProperties, ElementOfSeq
      <4>. QED BY <4>1, <4>2, TimesNone
    <3>2. Range(<<>>) = {} /\ IsInjective(<<>>)
      BY DEF Range, IsInjective
    <3>3. \A n \in Path : Times(n, <<>>) = 0
      BY TimesNone
    <3>4. \A e \in 1..k + 1 : e \in 1..k \/ e = k + 1
      BY <2>2
    <3>. QED BY <1>2, <2>3, <3>1, <3>2, <3>3, <3>4 DEF IInv, GraphAgrees
  <2>. QED BY <2>5, <2>6, <2>7, <2>8 DEF IInv
<1>. QED BY <1>1, <1>2 DEF BeginBuild

LEMMA OutputKeeps == IInv /\ AddOutput => IInv'
<1>. SUFFICES ASSUME IInv, AddOutput PROVE IInv'
  OBVIOUS
<1>. DEFINE n == statement.outputs[next]  k == Len(edges)
<1>1. /\ pc = "outputs" /\ n \in Path
      /\ statement.outputs \in Seq(Path) /\ statement.inputs \in Seq(Path)
  BY StatementFiles DEF AddOutput
<1>2. /\ nodes' = nodes \cup {n} /\ nodes' \subseteq Path
      /\ UNCHANGED <<parser, command, depfile, rules, out_edges, statement,
                     lines, unread>>
  BY <1>1 DEF AddOutput, IInv, TypeOK
<1>3. k \in Nat /\ k \in DOMAIN edges
  BY <1>1, EmptySeq, LenProperties DEF IInv, StatementInv, TypeOK
<1>6. /\ k = Len(edges) /\ n = statement.outputs[next]
      /\ edges \in Seq(ParsedEdge) /\ DOMAIN edges = 1..k
  BY DEF IInv, TypeOK, ParsedEdge
<1>. HIDE DEF n, k
<1>4. CASE /\ ~NoProducer(n) /\ pc' = "rejected"
           /\ UNCHANGED <<edges, in_edge, next>>
  <2>1. GraphAgrees' /\ edges' \in Seq(ParsedEdge')
    BY <1>2, <1>4, GraphKept DEF IInv
  <2>2. TypeOK'
    BY <1>2, <1>4, <2>1 DEF IInv, TypeOK, ParsedEdge,
                                                    parser
  <2>. QED BY <1>4, <2>1, <2>2 DEF IInv, StatementInv, RuleInv
<1>5. CASE /\ NoProducer(n)
           /\ edges' = [edges EXCEPT ![k].outputs = Append(@, n)]
           /\ in_edge' = [in_edge EXCEPT ![n] = k]
           /\ IF next = Len(statement.outputs)
              THEN pc' = "inputs" /\ next' = 1
              ELSE pc' = pc /\ next' = next + 1
  <2>. DEFINE outs == edges[k].outputs
  <2>1. /\ \A e \in DOMAIN edges :
             /\ edges[e].rule \in rules
             /\ edges[e].outputs \in Seq(nodes')
             /\ edges[e].inputs \in Seq(nodes')
        /\ outs \in Seq(nodes')
    BY <1>2, <1>3, EdgeTyped DEF IInv
  <2>2. /\ DOMAIN edges' = DOMAIN edges /\ Len(edges') = k
        /\ \A e \in DOMAIN edges \ {k} : edges'[e] = edges[e]
        /\ edges'[k] = [rule |-> edges[k].rule, outputs |-> Append(outs, n),
                        inputs |-> edges[k].inputs]
    <3>1. edges[k] = [rule |-> edges[k].rule, outputs |-> outs,
                      inputs |-> edges[k].inputs]
      BY <1>3, EdgeTyped DEF IInv
    <3>2. edges' = [edges EXCEPT ![k] = [edges[k] EXCEPT !.outputs =
                                           Append(outs, n)]]
      BY <1>5
    <3>3. /\ DOMAIN edges' = DOMAIN edges
          /\ \A e \in DOMAIN edges \ {k} : edges'[e] = edges[e]
          /\ edges'[k] = [edges[k] EXCEPT !.outputs = Append(outs, n)]
      BY <1>3, <3>2
    <3>4. [edges[k] EXCEPT !.outputs = Append(outs, n)] =
            [rule |-> edges[k].rule, outputs |-> Append(outs, n),
             inputs |-> edges[k].inputs]
      BY <3>1
    <3>5. Len(edges') = k
      BY <1>3, <1>6, <3>2
    <3>. QED BY <3>3, <3>4, <3>5
  <2>3. /\ Append(outs, n) \in Seq(nodes')
        /\ Range(Append(outs, n)) = Range(outs) \cup {n}
        /\ IsInjective(outs) /\ n \notin Range(outs)
             => IsInjective(Append(outs, n))
    BY <1>2, <2>1, AppendOne
  <2>4. edges' \in Seq(ParsedEdge')
    <3>1. edges'[k] \in ParsedEdge'
      BY <1>2, <1>3, <2>1, <2>2, <2>3 DEF ParsedEdge
    <3>2. \A e \in DOMAIN edges \ {k} : edges'[e] \in ParsedEdge'
      <4>1. ParsedEdge \subseteq ParsedEdge'
        BY <1>2 DEF ParsedEdge
      <4>. QED BY <1>6, <2>2, <4>1
    <3>3. edges' = [e \in 1..k |-> edges'[e]]
      BY <1>5, <1>6
    <3>. QED BY <1>3, <1>6, <3>1, <3>2, <3>3
  <2>5. TypeOK'
    <3>1. in_edge' \in [Path -> 0..Len(edges')]
      BY <1>1, <1>3, <1>5, <2>2 DEF IInv, TypeOK
    <3>2. out_edges' \in [Path -> Seq(1..Len(edges'))]
      BY <1>2, <1>6, <2>2 DEF IInv, TypeOK
    <3>3. next' \in Nat /\ pc' \in {"outputs", "inputs"}
      BY <1>1, <1>5 DEF IInv, StatementInv
    <3>. QED BY <1>2, <2>4, <3>1, <3>2, <3>3 DEF IInv, TypeOK, ParsedEdge,
                                                    parser
  <2>6. StatementInv'
    <3>1. Len(statement.inputs) \in Nat /\ Len(statement.inputs) # 0
      BY <1>1 DEF IInv, StatementInv, WellFormed
    <3>2. Len(statement.outputs) \in Nat
      BY <1>1
    <3>. QED BY <1>1, <1>2, <1>3, <1>5, <2>2, <3>1, <3>2
             DEF IInv, StatementInv, WellFormed
  <2>7. RuleInv'
    BY <1>1, <1>5 DEF RuleInv
  <2>8. GraphAgrees'
    <3>1. \A m \in Path, e \in 1..k :
            /\ m \in Range(edges[e].outputs) <=> in_edge[m] = e
            /\ Times(m, edges[e].inputs) = Times(e, out_edges[m])
      BY <1>6 DEF IInv, GraphAgrees
    <3>2. in_edge[n] = 0 /\ n \notin Range(outs) /\ IsInjective(outs)
      BY <1>1, <1>3, <1>5, <3>1 DEF NoProducer, IInv, GraphAgrees
    <3>3. \A m \in Path, e \in 1..k :
            m \in Range(edges'[e].outputs) <=> in_edge'[m] = e
      <4>1. SUFFICES ASSUME NEW m \in Path, NEW e \in 1..k
                     PROVE  m \in Range(edges'[e].outputs) <=> in_edge'[m] = e
        OBVIOUS
      <4>2. in_edge'[m] = IF m = n THEN k ELSE in_edge[m]
        BY <1>1, <1>5 DEF IInv, TypeOK
      <4>3. CASE e = k
        <5>1. Range(edges'[k].outputs) = Range(outs) \cup {n}
          BY <2>2, <2>3
        <5>2. m \in Range(outs) <=> in_edge[m] = k
          BY <3>1, <4>3
        <5>. QED BY <3>2, <4>2, <4>3, <5>1, <5>2
      <4>4. CASE e # k
        <5>1. edges'[e] = edges[e]
          BY <1>6, <2>2, <4>4
        <5>. QED BY <3>1, <3>2, <4>2, <4>4, <5>1
      <4>. QED BY <4>3, <4>4
    <3>4. \A m \in Path, e \in 1..k :
            Times(m, edges'[e].inputs) = Times(e, out_edges'[m])
      <4>1. \A e \in 1..k : edges'[e].inputs = edges[e].inputs
        BY <1>3, <1>6, <2>2
      <4>. QED BY <1>2, <3>1, <4>1
    <3>5. \A e \in 1..k : IsInjective(edges'[e].outputs)
      <4>1. IsInjective(edges'[k].outputs)
        BY <2>2, <2>3, <3>2
      <4>2. \A e \in 1..k \ {k} : IsInjective(edges'[e].outputs)
        BY <1>6, <2>2 DEF IInv, GraphAgrees
      <4>. QED BY <4>1, <4>2
    <3>. QED BY <2>2, <3>3, <3>4, <3>5 DEF GraphAgrees
  <2>. QED BY <2>5, <2>6, <2>7, <2>8 DEF IInv
<1>. QED BY <1>1, <1>4, <1>5 DEF AddOutput, n, k

LEMMA InputKeeps == IInv /\ AddInput => IInv'
<1>. SUFFICES ASSUME IInv, AddInput PROVE IInv'
  OBVIOUS
<1>. DEFINE n == statement.inputs[next]  k == Len(edges)
            ins == edges[k].inputs
<1>1. /\ pc = "inputs" /\ n \in Path
      /\ statement.outputs \in Seq(Path) /\ statement.inputs \in Seq(Path)
  BY StatementFiles DEF AddInput
<1>2. /\ nodes' = nodes \cup {n} /\ nodes' \subseteq Path
      /\ UNCHANGED <<command, depfile, rules, in_edge, lines, unread>>
  BY <1>1 DEF AddInput, IInv, TypeOK
<1>3. k \in Nat /\ k \in DOMAIN edges
  BY <1>1, EmptySeq, LenProperties DEF IInv, StatementInv, TypeOK
<1>4. /\ k = Len(edges) /\ n = statement.inputs[next] /\ ins = edges[k].inputs
      /\ edges \in Seq(ParsedEdge) /\ DOMAIN edges = 1..k
  BY DEF IInv, TypeOK, ParsedEdge
<1>5. /\ edges' = [edges EXCEPT ![k].inputs = Append(@, n)]
      /\ out_edges' = [out_edges EXCEPT ![n] = Append(@, k)]
  BY DEF AddInput
<1>6. /\ pc' \in {"inputs", "line"} /\ state' \in {"None", "Rule", "Build"}
      /\ current_rule' \in rules \cup {none} /\ next' \in Nat
      /\ statement' \in Statement \cup {blank}
      /\ pc' = "line" => state' = "Build"
      /\ pc' = "inputs" => /\ next # Len(statement.inputs) /\ next' = next + 1
                           /\ statement' = statement
  <2>1. /\ next \in Nat /\ current_rule \in rules \cup {none}
        /\ state \in {"None", "Rule", "Build"}
        /\ statement \in Statement \cup {blank}
    BY DEF IInv, TypeOK
  <2>2. CASE /\ next = Len(statement.inputs)
             /\ pc' = "line" /\ next' = 0 /\ statement' = blank /\ LeaveRule
    BY <2>2 DEF LeaveRule
  <2>3. CASE /\ next # Len(statement.inputs) /\ next' = next + 1
             /\ UNCHANGED <<pc, statement, parser>>
    BY <1>1, <2>1, <2>3 DEF parser
  <2>. QED BY <2>2, <2>3 DEF AddInput
<1>. HIDE DEF n, k, ins
<1>7. /\ ins \in Seq(nodes')
      /\ edges[k] = [rule |-> edges[k].rule, outputs |-> edges[k].outputs,
                     inputs |-> ins]
      /\ edges[k].rule \in rules /\ edges[k].outputs \in Seq(nodes')
  BY <1>2, <1>3, <1>4, EdgeTyped DEF IInv
<1>8. /\ DOMAIN edges' = DOMAIN edges /\ Len(edges') = k
      /\ \A e \in DOMAIN edges \ {k} : edges'[e] = edges[e]
      /\ edges'[k] = [rule |-> edges[k].rule, outputs |-> edges[k].outputs,
                      inputs |-> Append(ins, n)]
  <2>1. edges' = [edges EXCEPT ![k] = [edges[k] EXCEPT !.inputs =
                                         Append(ins, n)]]
    BY <1>4, <1>5
  <2>2. /\ DOMAIN edges' = DOMAIN edges
        /\ \A e \in DOMAIN edges \ {k} : edges'[e] = edges[e]
        /\ edges'[k] = [edges[k] EXCEPT !.inputs = Append(ins, n)]
    BY <1>3, <2>1
  <2>3. [edges[k] EXCEPT !.inputs = Append(ins, n)] =
          [rule |-> edges[k].rule, outputs |-> edges[k].outputs,
           inputs |-> Append(ins, n)]
    <3>1. edges[k] = [rule |-> edges[k].rule, outputs |-> edges[k].outputs,
                      inputs |-> ins]
      BY <1>7
    <3>. QED BY <3>1
  <2>4. Len(edges') = k
    BY <1>3, <1>4, <2>1
  <2>. QED BY <2>2, <2>3, <2>4
<1>9. /\ Append(ins, n) \in Seq(nodes')
      /\ Range(Append(ins, n)) = Range(ins) \cup {n}
  BY <1>2, <1>7, AppendOne
<1>10. /\ out_edges[n] \in Seq(1..k) /\ k \in 1..k
       /\ Append(out_edges[n], k) \in Seq(1..k)
       /\ Range(Append(out_edges[n], k)) = Range(out_edges[n]) \cup {k}
  <2>1. out_edges[n] \in Seq(1..k) /\ k \in 1..k
    BY <1>1, <1>3, <1>4 DEF IInv, TypeOK
  <2>. QED BY <2>1, AppendOne
<1>11. edges' \in Seq(ParsedEdge')
  <2>1. edges'[k] \in ParsedEdge'
    BY <1>2, <1>7, <1>8, <1>9 DEF ParsedEdge
  <2>2. ParsedEdge \subseteq ParsedEdge'
    BY <1>2 DEF ParsedEdge
  <2>3. \A e \in DOMAIN edges \ {k} : edges'[e] \in ParsedEdge'
    BY <1>4, <1>8, <2>2
  <2>4. edges' = [e \in 1..k |-> edges'[e]]
    BY <1>4, <1>5
  <2>. QED BY <1>3, <1>4, <2>1, <2>3, <2>4
<1>12. TypeOK'
  <2>1. in_edge' \in [Path -> 0..Len(edges')]
    BY <1>2, <1>4, <1>8 DEF IInv, TypeOK
  <2>2. out_edges' \in [Path -> Seq(1..Len(edges'))]
    BY <1>4, <1>5, <1>8, <1>10 DEF IInv, TypeOK
  <2>. QED BY <1>2, <1>6, <1>11, <2>1, <2>2 DEF IInv, TypeOK, ParsedEdge
<1>13. StatementInv'
  <2>1. Len(statement.inputs) \in Nat
    BY <1>1
  <2>. QED BY <1>1, <1>3, <1>4, <1>6, <1>8, <2>1
           DEF IInv, StatementInv, WellFormed
<1>14. RuleInv'
  BY <1>6 DEF RuleInv
<1>15. GraphAgrees'
  <2>1. \A m \in Path, e \in 1..k :
          /\ m \in Range(edges[e].outputs) <=> in_edge[m] = e
          /\ Times(m, edges[e].inputs) = Times(e, out_edges[m])
    BY <1>4 DEF IInv, GraphAgrees
  <2>2. \A e \in 1..k : edges'[e].outputs = edges[e].outputs
    BY <1>3, <1>4, <1>8
  <2>3. \A m \in Path, e \in 1..k :
          Times(m, edges'[e].inputs) = Times(e, out_edges'[m])
    <3>1. SUFFICES ASSUME NEW m \in Path, NEW e \in 1..k
                   PROVE  Times(m, edges'[e].inputs) = Times(e, out_edges'[m])
      OBVIOUS
    <3>2. /\ e = k => edges'[e].inputs = Append(edges[e].inputs, n)
          /\ e # k => edges'[e].inputs = edges[e].inputs
          /\ m = n => out_edges'[m] = Append(out_edges[m], k)
          /\ m # n => out_edges'[m] = out_edges[m]
      <4>1. /\ e = k => edges'[e].inputs = Append(edges[e].inputs, n)
            /\ e # k => edges'[e].inputs = edges[e].inputs
        BY <1>4, <1>8
      <4>2. /\ m = n => out_edges'[m] = Append(out_edges[m], k)
            /\ m # n => out_edges'[m] = out_edges[m]
        BY <1>1, <1>5 DEF IInv, TypeOK
      <4>. QED BY <4>1, <4>2
    <3>3. edges[k].inputs \in Seq(nodes') /\ n \in nodes'
      BY <1>2, <1>4, <1>7
    <3>4. e = k => /\ Times(m, edges[e].inputs) \in Nat
                   /\ Times(m, edges'[e].inputs) =
                        IF m = n THEN Times(m, edges[e].inputs) + 1
                        ELSE Times(m, edges[e].inputs)
      <4>1. Times(m, edges[k].inputs) \in Nat
        BY <3>3, TimesAppend
      <4>2. /\ m = n => Times(m, Append(edges[k].inputs, n)) =
                          Times(m, edges[k].inputs) + 1
            /\ m # n => Times(m, Append(edges[k].inputs, n)) =
                          Times(m, edges[k].inputs)
        BY <3>3, TimesAppend
      <4>. QED BY <3>2, <4>1, <4>2
    <3>5. m = n => Times(e, out_edges'[m]) =
                     IF e = k THEN Times(e, out_edges[m]) + 1
                     ELSE Times(e, out_edges[m])
      <4>1. ASSUME m = n PROVE out_edges[m] \in Seq(1..k) /\ k \in 1..k
        BY <1>10, <4>1
      <4>2. ASSUME m = n
            PROVE  /\ e = k => Times(e, Append(out_edges[m], k)) =
                                 Times(e, out_edges[m]) + 1
                   /\ e # k => Times(e, Append(out_edges[m], k)) =
                                 Times(e, out_edges[m])
        BY <4>1, <4>2, TimesAppend
      <4>. QED BY <3>2, <4>2
    <3>. QED BY <2>1, <3>2, <3>4, <3>5
  <2>4. \A e \in 1..k : IsInjective(edges'[e].outputs)
    BY <1>4, <2>2 DEF IInv, GraphAgrees
  <2>. QED BY <1>2, <1>8, <2>1, <2>2, <2>3, <2>4 DEF GraphAgrees
<1>. QED BY <1>12, <1>13, <1>14, <1>15 DEF IInv

LEMMA NextKeeps == IInv /\ [Next]_vars => IInv'
<1>. SUFFICES ASSUME IInv, [Next]_vars PROVE IInv'
  OBVIOUS
<1>1. ASSUME ParseLine PROVE IInv'
  <2>1. PICK s \in Statement :
          \/ SkipLine(s) \/ UnknownStatement(s)
          \/ DeclareRule(s) \/ SetCommand(s) \/ SetDepfile(s) \/ BeginBuild(s)
    BY <1>1 DEF ParseLine
  <2>2. CASE BeginBuild(s)
    BY <2>2, BeginKeeps
  <2>3. CASE ~BeginBuild(s)
    <3>1. Read(s)
      BY <2>1, <2>3 DEF SkipLine, UnknownStatement, DeclareRule, SetCommand,
                        SetDepfile
    <3>. QED BY <2>1, <2>3, <3>1, LineKeeps
  <2>. QED BY <2>2, <2>3
<1>2. CASE OpenFile \/ AddOutput \/ AddInput
  BY <1>2, OpenKeeps, OutputKeeps, InputKeeps
<1>3. CASE EndOfFile \/ UNCHANGED vars
  BY <1>3, EndKeeps
<1>. QED BY <1>1, <1>2, <1>3 DEF Next

LEMMA Inductive == Spec => []IInv
BY InitEstablishes, NextKeeps, PTL DEF Spec

-----------------------------------------------------------------------------
(* The variables keep their types: edges have known rules and nodes, and   *)
(* no node refers to an edge that is not there.                            *)
THEOREM TypeCorrect == Spec => []TypeOK
BY Inductive, PTL DEF IInv

(* The two directions of the graph agree whatever the manifest says, and   *)
(* also where an exception leaves the parser.                              *)
THEOREM DirectionsAgree == Spec => []GraphAgrees
BY Inductive, PTL DEF IInv

(* What an edge of the graph will run does not change any more.            *)
THEOREM RulesInUseAreFixed == Spec => RuleInUseIsFixed
<1>. DEFINE Fixed == \A e \in DOMAIN edges :
                       LET r == edges[e].rule IN
                         e \in DOMAIN edges' => /\ command'[r] = command[r]
                                                /\ depfile'[r] = depfile[r]
<1>1. ASSUME IInv, [Next]_vars PROVE [Fixed]_vars
  <2>1. SUFFICES ASSUME Next, NEW e \in DOMAIN edges, e \in DOMAIN edges'
                 PROVE  /\ command'[edges[e].rule] = command[edges[e].rule]
                        /\ depfile'[edges[e].rule] = depfile[edges[e].rule]
    BY <1>1
  <2>2. edges[e].rule \in rules /\ rules \subseteq Name
    BY <1>1, EdgeTyped DEF IInv, TypeOK
  <2>3. CASE OpenFile
    BY <2>1, <2>3 DEF OpenFile, NewManifest
  <2>4. CASE UNCHANGED <<command, depfile>>
    BY <2>4
  <2>5. ASSUME NEW s \in Statement, DeclareRule(s), NewName(s.name)
        PROVE  /\ command'[edges[e].rule] = command[edges[e].rule]
               /\ depfile'[edges[e].rule] = depfile[edges[e].rule]
    <3>1. edges[e].rule # s.name
      BY <2>2, <2>5 DEF NewName
    <3>. QED BY <1>1, <2>2, <2>5, <3>1 DEF DeclareRule, IInv, TypeOK
  <2>6. ASSUME NEW s \in Statement, SetCommand(s) \/ SetDepfile(s), InRule(s)
        PROVE  /\ command'[edges[e].rule] = command[edges[e].rule]
               /\ depfile'[edges[e].rule] = depfile[edges[e].rule]
    <3>1. edges[e].rule # current_rule
      BY <1>1, <2>6 DEF IInv, RuleInv, SetCommand, SetDepfile, Read, InRule
    <3>. QED BY <1>1, <2>2, <2>6, <3>1
             DEF SetCommand, SetDepfile, IInv, TypeOK
  <2>7. ASSUME NEW s \in Statement,
               \/ SkipLine(s) \/ UnknownStatement(s) \/ BeginBuild(s)
               \/ DeclareRule(s) /\ ~NewName(s.name)
               \/ (SetCommand(s) \/ SetDepfile(s)) /\ ~InRule(s)
        PROVE  UNCHANGED <<command, depfile>>
    BY <2>7 DEF SkipLine, UnknownStatement, BeginBuild, DeclareRule,
                SetCommand, SetDepfile, Reject, manifest
  <2>8. CASE AddOutput \/ AddInput \/ EndOfFile
    BY <2>4, <2>8 DEF AddOutput, AddInput, EndOfFile, manifest
  <2>. QED BY <2>1, <2>3, <2>4, <2>5, <2>6, <2>7, <2>8 DEF Next, ParseLine
<1>. QED BY <1>1, Inductive, PTL DEF Spec, RuleInUseIsFixed

-----------------------------------------------------------------------------
(* What the parser has made of the lines it has read.                      *)

(* The lines that are done with.                                           *)
Passed == IF pc \in {"outputs", "inputs"} THEN Len(lines) - 1 ELSE Len(lines)

LegalInv == \A i \in 1..Passed : LegalLine(i)

RulesInv ==
  \A r \in Name : /\ r \in rules <=> \E j \in 1..Len(lines) :
                       lines[j].kind = "rule" /\ lines[j].name = r
                  /\ SaysLast(r, "command", command[r])
                  /\ SaysLast(r, "depfile", depfile[r])

(* The rule that the next line may say something of.                       *)
CurrentInv ==
  pc = "line" =>
    IF state = "Rule"
    THEN \E h \in 1..Len(lines) :
           Under(Len(lines) + 1, h) /\ lines[h].name = current_rule
    ELSE \A h \in 1..Len(lines) : ~Under(Len(lines) + 1, h)

EdgesInv ==
  /\ Len(edges) = EdgesTo(Len(lines))
  /\ \A i \in 1..Passed :
       lines[i].kind = "build" =>
         edges[EdgesTo(i)] = [rule |-> lines[i].rule,
                              outputs |-> lines[i].outputs,
                              inputs |-> lines[i].inputs]
  /\ \A e \in 1..Len(edges) : \E i \in 1..Len(lines) :
       lines[i].kind = "build" /\ EdgesTo(i) = e

(* The edge of the statement being parsed has what was read of it.         *)
Begun(q) == SubSeq(q, 1, next - 1)
StatementRead ==
  pc \in {"outputs", "inputs"} =>
    /\ Len(lines) # 0 /\ lines[Len(lines)] = statement
    /\ Said(statement.rule, "command", Len(lines)) # {}
    /\ edges[Len(edges)] =
         [rule |-> statement.rule,
          outputs |-> IF pc = "outputs" THEN Begun(statement.outputs)
                                        ELSE statement.outputs,
          inputs |-> IF pc = "outputs" THEN <<>> ELSE Begun(statement.inputs)]

MeaningInv ==
  /\ pc = "rejected" => unread \/ ~LegalLine(Len(lines))
  /\ pc # "rejected" => /\ LegalInv /\ RulesInv /\ CurrentInv /\ EdgesInv
                        /\ StatementRead

-----------------------------------------------------------------------------
(* A line more does not change what the lines above it mean.               *)

LEMMA Reading ==
  ASSUME lines \in Seq(Statement), NEW s \in Statement,
         lines' = Append(lines, s)
  PROVE  /\ Len(lines) \in Nat /\ Len(lines') = Len(lines) + 1
         /\ lines'[Len(lines) + 1] = s /\ lines' \in Seq(Statement)
         /\ \A j \in 1..Len(lines) : lines'[j] = lines[j]
BY AppendProperties, LenProperties

LEMMA UnderKept ==
  ASSUME lines \in Seq(Statement), NEW s \in Statement,
         lines' = Append(lines, s)
  PROVE  \A i \in 1..Len(lines) + 1 : \A j \in 1..i - 1 :
           Under(i, j)' <=> Under(i, j)
<1>. SUFFICES ASSUME NEW i \in 1..Len(lines) + 1, NEW j \in 1..i - 1
              PROVE  Under(i, j)' <=> Under(i, j)
  OBVIOUS
<1>1. \A k \in 1..i - 1 : lines'[k] = lines[k]
  BY Reading
<1>2. \A k \in j + 1..i - 1 : k \in 1..i - 1
  BY Reading
<1>. QED BY <1>1, <1>2 DEF Under

LEMMA SaidKept ==
  ASSUME lines \in Seq(Statement), NEW s \in Statement,
         lines' = Append(lines, s)
  PROVE  \A i \in 1..Len(lines) + 1 : \A r, k :
           Said(r, k, i)' = Said(r, k, i)
<1>. SUFFICES ASSUME NEW i \in 1..Len(lines) + 1, NEW r, NEW k
              PROVE  Said(r, k, i)' = Said(r, k, i)
  OBVIOUS
<1>1. \A j \in 1..i - 1 : /\ lines'[j] = lines[j] /\ j \in 1..Len(lines) + 1
                          /\ \A h \in 1..j - 1 : h \in 1..i - 1
  BY Reading
<1>2. \A j \in 1..i - 1 : \A h \in 1..j - 1 :
        Under(j, h)' /\ lines'[h].name = r <=>
          Under(j, h) /\ lines[h].name = r
  BY <1>1, UnderKept
<1>. QED BY <1>1, <1>2 DEF Said

(* What the new line says is said of the rule it is under.                 *)
SpeaksOf(s, r, k) ==
  s.kind = k /\ \E h \in 1..Len(lines) : /\ Under(Len(lines) + 1, h)
                                         /\ lines[h].name = r

LEMMA SaidNext ==
  ASSUME lines \in Seq(Statement), NEW s \in Statement,
         lines' = Append(lines, s), NEW r, NEW k
  PROVE  Said(r, k, Len(lines) + 1)' =
           Said(r, k, Len(lines) + 1) \cup
             {i \in {Len(lines) + 1} : SpeaksOf(s, r, k)}
<1>. DEFINE n == Len(lines)
<1>1. /\ n \in Nat /\ Len(lines') = n + 1 /\ lines'[n + 1] = s
      /\ \A j \in 1..n : lines'[j] = lines[j]
  BY Reading
<1>2. \A j \in 1..n + 1 : \A h \in 1..j - 1 :
        Under(j, h)' /\ lines'[h].name = r <=>
          Under(j, h) /\ lines[h].name = r
  <2>1. SUFFICES ASSUME NEW j \in 1..n + 1, NEW h \in 1..j - 1
                 PROVE  /\ Under(j, h)' <=> Under(j, h)
                        /\ lines'[h] = lines[h]
    OBVIOUS
  <2>2. h \in 1..n
    BY <1>1
  <2>. QED BY <1>1, <2>2, UnderKept
<1>3. Said(r, k, Len(lines) + 1)' =
        {j \in 1..n + 1 : /\ lines'[j].kind = k
                          /\ \E h \in 1..j - 1 : Under(j, h)'
                                                 /\ lines'[h].name = r}
  BY <1>1 DEF Said
<1>4. @ = {j \in 1..n + 1 : /\ lines'[j].kind = k
                            /\ \E h \in 1..j - 1 : Under(j, h)
                                                   /\ lines[h].name = r}
  BY <1>2
<1>5. 1..n + 1 = 1..n \cup {n + 1} /\ (n + 1) - 1 = n /\ n + 1 \notin 1..n
  BY <1>1
<1>6. Said(r, k, Len(lines) + 1) =
        {j \in 1..n : /\ lines[j].kind = k
                      /\ \E h \in 1..j - 1 : Under(j, h) /\ lines[h].name = r}
  BY <1>5 DEF Said
<1>7. {i \in {n + 1} : SpeaksOf(s, r, k)} =
        {j \in {n + 1} : /\ lines'[j].kind = k
                         /\ \E h \in 1..j - 1 : Under(j, h)
                                                /\ lines[h].name = r}
  BY <1>1, <1>5 DEF SpeaksOf
<1>. HIDE DEF n
<1>. QED BY <1>1, <1>3, <1>4, <1>5, <1>6, <1>7 DEF n

LEMMA LegalKept ==
  ASSUME lines \in Seq(Statement), NEW s \in Statement,
         lines' = Append(lines, s), NEW i \in 1..Len(lines)
  PROVE  LegalLine(i)' <=> LegalLine(i)
<1>1. /\ \A j \in 1..i : lines'[j] = lines[j]
      /\ i \in 1..i /\ \A j \in 1..i - 1 : j \in 1..i
      /\ i \in 1..Len(lines) + 1
  BY Reading
<1>2. LegalBuild(i)' <=> LegalBuild(i)
  <2>1. Said(lines[i].rule, "command", i)' = Said(lines[i].rule, "command", i)
    <3>. DEFINE Heard(r) ==
                  {j \in 1..i - 1 :
                     /\ lines'[j].kind = "command"
                     /\ \E h \in 1..j - 1 : Under(j, h)'
                                            /\ lines'[h].name = r}
    <3>1. \A r : Said(r, "command", i)' = Said(r, "command", i)
      BY <1>1, SaidKept
    <3>2. \A r : Said(r, "command", i)' = Heard(r)
      BY DEF Said
    <3>3. Said(lines[i].rule, "command", i)' = Heard(lines'[i].rule)
      BY DEF Said
    <3>. HIDE DEF Heard
    <3>. QED BY <1>1, <3>1, <3>2, <3>3
  <2>. QED BY <1>1, <2>1 DEF LegalBuild
<1>3. \A h \in 1..i - 1 : Under(i, h)' <=> Under(i, h)
  BY <1>1, UnderKept
<1>. QED BY <1>1, <1>2, <1>3 DEF LegalLine

(* The number of edges grows by one with a build statement.                *)
LEMMA CountKept ==
  ASSUME lines \in Seq(Statement), NEW s \in Statement,
         lines' = Append(lines, s)
  PROVE  /\ \A i \in 0..Len(lines) : EdgesTo(i)' = EdgesTo(i)
         /\ \A i \in 0..Len(lines) : EdgesTo(i) \in Nat
         /\ \A i \in 1..Len(lines) :
              lines[i].kind = "build" => EdgesTo(i) \in 1..EdgesTo(Len(lines))
         /\ EdgesTo(Len(lines))' =
              EdgesTo(Len(lines)) + IF s.kind = "build" THEN 1 ELSE 0
<1>. DEFINE n == Len(lines)
            B(i) == {j \in 1..i : lines[j].kind = "build"}
<1>1. /\ n \in Nat /\ Len(lines') = n + 1 /\ lines'[n + 1] = s
      /\ \A j \in 1..n : lines'[j] = lines[j]
  BY Reading
<1>2. \A i \in 0..n : IsFiniteSet(B(i)) /\ Cardinality(B(i)) \in Nat
                      /\ \A x \in SUBSET B(i) : Cardinality(x) <= Cardinality(B(i))
  <2>1. SUFFICES ASSUME NEW i \in 0..n
                 PROVE  IsFiniteSet(B(i)) /\ Cardinality(B(i)) \in Nat
                        /\ \A x \in SUBSET B(i) :
                             Cardinality(x) <= Cardinality(B(i))
    OBVIOUS
  <2>2. IsFiniteSet(1..i) /\ B(i) \in SUBSET (1..i)
    <3>1. i \in Int
      BY <1>1
    <3>2. IsFiniteSet(1..i)
      BY <3>1, FS_Interval
    <3>3. B(i) \in SUBSET (1..i)
      OBVIOUS
    <3>. QED BY <3>2, <3>3
  <2>3. IsFiniteSet(B(i))
    BY <2>2, FS_Subset
  <2>. QED BY <2>3, FS_CardinalityType, FS_Subset
<1>3. \A i \in 0..n : EdgesTo(i) = Cardinality(B(i))
  BY DEF EdgesTo
<1>4. \A i \in 0..n : EdgesTo(i)' = Cardinality(B(i))
  <2>1. SUFFICES ASSUME NEW i \in 0..n PROVE EdgesTo(i)' = Cardinality(B(i))
    OBVIOUS
  <2>2. {j \in 1..i : lines'[j].kind = "build"} = B(i)
    BY <1>1
  <2>. QED BY <2>2 DEF EdgesTo
<1>5. \A i \in 1..n : B(i) \subseteq B(n)
  BY <1>1
<1>6. \A i \in 1..n : lines[i].kind = "build" => i \in B(i)
  BY <1>1
<1>7. Len(lines') = n + 1 /\ n + 1 \notin B(n)
  BY <1>1
<1>8. {j \in 1..n + 1 : lines'[j].kind = "build"} =
        IF s.kind = "build" THEN B(n) \cup {n + 1} ELSE B(n)
  <2>1. 1..n + 1 = 1..n \cup {n + 1}
    BY <1>1
  <2>. QED BY <1>1, <2>1
<1>9. n \in Nat /\ n = Len(lines)
  BY <1>1
<1>10. EdgesTo(Len(lines))' =
         Cardinality({j \in 1..n + 1 : lines'[j].kind = "build"})
  BY <1>1 DEF EdgesTo
<1>. HIDE DEF B, n
<1>11. ASSUME NEW i \in 1..n, lines[i].kind = "build"
       PROVE  EdgesTo(i) \in 1..EdgesTo(Len(lines))
  <2>1. i \in 0..n /\ n \in 0..n
    BY <1>9
  <2>2. Cardinality(B(i)) <= Cardinality(B(n))
    BY <1>2, <1>5, <2>1
  <2>3. Cardinality(B(i)) # 0
    BY <1>2, <1>6, <1>11, <2>1, FS_EmptySet
  <2>4. /\ EdgesTo(i) = Cardinality(B(i)) /\ EdgesTo(i) \in Nat
        /\ EdgesTo(n) = Cardinality(B(n)) /\ EdgesTo(n) \in Nat
    BY <1>2, <1>3, <2>1
  <2>. QED BY <1>9, <2>2, <2>3, <2>4
<1>12. EdgesTo(Len(lines))' =
         EdgesTo(Len(lines)) + IF s.kind = "build" THEN 1 ELSE 0
  <2>1. /\ n \in 0..n /\ IsFiniteSet(B(n)) /\ Cardinality(B(n)) \in Nat
        /\ EdgesTo(n) = Cardinality(B(n))
    BY <1>2, <1>3, <1>9
  <2>2. Cardinality(B(n) \cup {n + 1}) = Cardinality(B(n)) + 1
    BY <1>7, <2>1, FS_AddElement
  <2>3. CASE s.kind = "build"
    BY <1>8, <1>9, <1>10, <2>1, <2>2, <2>3
  <2>4. CASE s.kind # "build"
    <3>1. EdgesTo(Len(lines))' = EdgesTo(n)
      BY <1>8, <1>10, <2>1, <2>4
    <3>2. EdgesTo(n) + 0 = EdgesTo(n) /\ EdgesTo(Len(lines)) = EdgesTo(n)
      BY <1>9, <2>1
    <3>. QED BY <2>4, <3>1, <3>2
  <2>. QED BY <2>3, <2>4
<1>. QED BY <1>2, <1>3, <1>4, <1>9, <1>11, <1>12

-----------------------------------------------------------------------------
(* A line is under one rule at most.                                       *)
LEMMA UnderOnce ==
  ASSUME lines \in Seq(Statement), NEW i \in 1..Len(lines) + 1,
         NEW g \in 1..i - 1, NEW h \in 1..i - 1, Under(i, g), Under(i, h)
  PROVE  g = h
<1>1. Len(lines) \in Nat
  BY LenProperties
<1>. QED BY <1>1 DEF Under

(* What the line after the new one is under.                               *)
LEMMA UnderNext ==
  ASSUME lines \in Seq(Statement), NEW s \in Statement,
         lines' = Append(lines, s)
  PROVE  /\ \A h \in 1..Len(lines) :
              Under(Len(lines) + 1, h)' <=>
                Under(Len(lines) + 1, h) /\ s.kind \notin {"rule", "build"}
         /\ Under(Len(lines) + 1, Len(lines))' <=> s.kind = "rule"
<1>. DEFINE n == Len(lines)
<1>1. /\ n \in Nat /\ Len(lines') = n + 1 /\ lines'[n + 1] = s
      /\ \A j \in 1..n : lines'[j] = lines[j]
  BY Reading
<1>2. ASSUME NEW h \in 1..n
      PROVE  Under(Len(lines) + 1, h)' <=>
               Under(Len(lines) + 1, h) /\ s.kind \notin {"rule", "build"}
  <2>1. /\ h + 1..(n + 2) - 1 = (h + 1..(n + 1) - 1) \cup {n + 1}
        /\ \A k \in h + 1..(n + 1) - 1 : lines'[k] = lines[k]
        /\ lines'[h] = lines[h]
    BY <1>1
  <2>2. Under(Len(lines) + 1, h)' <=>
          /\ lines[h].kind = "rule"
          /\ \A k \in h + 1..(n + 2) - 1 :
               lines'[k].kind \notin {"rule", "build"}
    BY <1>1, <2>1 DEF Under
  <2>. QED BY <1>1, <2>1, <2>2 DEF Under
<1>3. Under(Len(lines) + 1, Len(lines))' <=> s.kind = "rule"
  BY <1>1 DEF Under
<1>. QED BY <1>2, <1>3

(* When the line s is legal behind the lines there are.                    *)
LegalNext(s) ==
  \/ s.kind = "blank"
  \/ /\ s.kind = "rule"
     /\ \A j \in 1..Len(lines) :
          lines[j].kind = "rule" => lines[j].name # s.name
  \/ /\ s.kind \in {"command", "depfile"} /\ s.text # Empty
     /\ \E h \in 1..Len(lines) : Under(Len(lines) + 1, h)
  \/ /\ s.kind = "build"
     /\ s.colon /\ s.outputs # <<>> /\ s.inputs # <<>>
     /\ Said(s.rule, "command", Len(lines) + 1) # {}
     /\ IsInjective(s.outputs)
     /\ \A j \in 1..Len(lines) :
          lines[j].kind = "build" =>
            Range(lines[j].outputs) \cap Range(s.outputs) = {}

LEMMA LastLegal ==
  ASSUME lines \in Seq(Statement), NEW s \in Statement,
         lines' = Append(lines, s)
  PROVE  /\ LegalLine(Len(lines))' <=> LegalNext(s)
         /\ \A r, k : Said(r, k, Len(lines))' = Said(r, k, Len(lines) + 1)
<1>. DEFINE n == Len(lines)
<1>1. /\ n \in Nat /\ Len(lines') = n + 1 /\ lines'[n + 1] = s
      /\ \A j \in 1..n : lines'[j] = lines[j]
      /\ (n + 1) - 1 = n
  BY Reading
<1>2. PICK m \in 1..Len(lines) + 1 : m = Len(lines) + 1
  BY <1>1
<1>3. \A h \in 1..n : Under(Len(lines), h)' <=> Under(Len(lines) + 1, h)
  <2>1. \A h \in 1..n : Under(m, h)' <=> Under(m, h)
    BY <1>1, <1>2, UnderKept
  <2>2. \A h \in 1..n : Under(Len(lines), h)' <=> Under(m, h)'
    BY <1>1, <1>2 DEF Under
  <2>. QED BY <1>2, <2>1, <2>2
<1>4. \A r, k : Said(r, k, Len(lines))' = Said(r, k, Len(lines) + 1)
  <2>1. \A r, k : Said(r, k, m)' = Said(r, k, m)
    BY <1>2, SaidKept
  <2>2. \A r, k : Said(r, k, Len(lines))' = Said(r, k, m)'
    BY <1>1, <1>2 DEF Said
  <2>. QED BY <1>2, <2>1, <2>2
<1>5. LegalBuild(Len(lines))' <=>
        /\ s.colon /\ s.outputs # <<>> /\ s.inputs # <<>>
        /\ Said(s.rule, "command", Len(lines) + 1) # {}
        /\ IsInjective(s.outputs)
        /\ \A j \in 1..Len(lines) :
             lines[j].kind = "build" =>
               Range(lines[j].outputs) \cap Range(s.outputs) = {}
  <2>. DEFINE Heard(r) ==
                {j \in 1..n : /\ lines'[j].kind = "command"
                              /\ \E h \in 1..j - 1 : Under(j, h)'
                                                     /\ lines'[h].name = r}
  <2>1. \A r : Said(r, "command", Len(lines))' = Heard(r)
    BY <1>1 DEF Said
  <2>2. Said(lines[Len(lines)].rule, "command", Len(lines))' = Heard(s.rule)
    BY <1>1 DEF Said
  <2>. HIDE DEF Heard
  <2>3. Said(lines[Len(lines)].rule, "command", Len(lines))' =
          Said(s.rule, "command", Len(lines) + 1)
    BY <1>4, <2>1, <2>2
  <2>. QED BY <1>1, <2>3 DEF LegalBuild
<1>. QED BY <1>1, <1>3, <1>4, <1>5 DEF LegalLine, LegalNext

(* An edge more was described further up.                                  *)
LEMMA CountOrder ==
  ASSUME lines \in Seq(Statement), NEW i \in 0..Len(lines),
         NEW j \in 1..Len(lines), i < j, lines[j].kind = "build"
  PROVE  EdgesTo(i) \in Nat /\ EdgesTo(j) \in Nat /\ EdgesTo(i) < EdgesTo(j)
<1>. DEFINE A == {k \in 1..i : lines[k].kind = "build"}
            B == {k \in 1..j : lines[k].kind = "build"}
<1>1. IsFiniteSet(1..j) /\ B \in SUBSET (1..j)
  <2>1. Len(lines) \in Nat /\ j \in Int
    BY LenProperties
  <2>2. IsFiniteSet(1..j)
    BY <2>1, FS_Interval
  <2>3. B \in SUBSET (1..j)
    OBVIOUS
  <2>. QED BY <2>2, <2>3
<1>2. IsFiniteSet(B)
  BY <1>1, FS_Subset
<1>3. A \in SUBSET B /\ j \in B /\ j \notin A
  OBVIOUS
<1>4. EdgesTo(i) = Cardinality(A) /\ EdgesTo(j) = Cardinality(B)
  BY DEF EdgesTo
<1>. HIDE DEF A, B
<1>5. IsFiniteSet(A) /\ Cardinality(A) <= Cardinality(B)
      /\ Cardinality(A) # Cardinality(B)
  BY <1>2, <1>3, FS_Subset
<1>6. Cardinality(A) \in Nat /\ Cardinality(B) \in Nat
  BY <1>2, <1>5, FS_CardinalityType
<1>. QED BY <1>4, <1>5, <1>6

-----------------------------------------------------------------------------
(* The steps keep what the lines mean.                                     *)

LEMMA MeaningBegins == Init => MeaningInv
<1>. SUFFICES ASSUME Init PROVE MeaningInv
  OBVIOUS
<1>1. /\ pc = "accepted" /\ Passed = 0 /\ Len(lines) = 0 /\ Len(edges) = 0
      /\ rules = {} /\ 1..0 = {}
  BY DEF Init, Passed
<1>2. \A r \in Name, k \in {"command", "depfile"} : SaysLast(r, k, Empty)
  BY <1>1 DEF SaysLast, Said
<1>3. RulesInv
  BY <1>1, <1>2 DEF RulesInv, Init
<1>4. EdgesInv
  <2>1. EdgesTo(0) = Cardinality({})
    BY <1>1 DEF EdgesTo
  <2>. QED BY <1>1, <2>1, FS_EmptySet DEF EdgesInv
<1>. QED BY <1>1, <1>3, <1>4 DEF MeaningInv, LegalInv, CurrentInv,
                                 StatementRead

LEMMA OpenMeans == OpenFile => MeaningInv'
<1>. SUFFICES ASSUME OpenFile PROVE MeaningInv'
  OBVIOUS
<1>0. pc' = "line" \/ (pc' = "rejected" /\ unread')
  <2>1. PICK opens \in BOOLEAN : /\ pc' = IF opens THEN "line" ELSE "rejected"
                                /\ unread' = ~opens
    BY DEF OpenFile
  <2>2. CASE opens = TRUE
    BY <2>1, <2>2
  <2>3. CASE opens = FALSE
    BY <2>1, <2>3
  <2>. QED BY <2>2, <2>3
<1>1. /\ pc' \in {"line", "rejected"}
      /\ pc' = "rejected" => unread'
      /\ lines' = <<>> /\ Len(lines') = 0 /\ Len(edges') = 0
      /\ rules' = {} /\ state' = "None" /\ 1..0 = {}
      /\ \A r \in Name : command'[r] = Empty /\ depfile'[r] = Empty
  BY <1>0 DEF OpenFile, ResetState, NewManifest
<1>2. Passed' = 0
  BY <1>1 DEF Passed
<1>3. RulesInv'
  <2>1. \A r, k : Said(r, k, Len(lines) + 1)' = {}
    BY <1>1 DEF Said
  <2>. QED BY <1>1, <2>1 DEF RulesInv, SaysLast
<1>4. EdgesInv'
  <2>1. EdgesTo(Len(lines))' = Cardinality({})
    BY <1>1 DEF EdgesTo
  <2>. QED BY <1>1, <1>2, <2>1, FS_EmptySet DEF EdgesInv
<1>. QED BY <1>1, <1>2, <1>3, <1>4 DEF MeaningInv, LegalInv, CurrentInv,
                                       StatementRead

LastOf(said, read, text) ==
  \/ said = {} /\ text = Empty
  \/ \E j \in said : read[j].text = text /\ \A i \in said : i <= j

(* The rules after a line that declares one, or says something of one.     *)
LEMMA RulesNext ==
  ASSUME lines \in Seq(Statement), NEW s \in Statement,
         lines' = Append(lines, s), RulesInv,
         \A r \in Name :
           /\ r \in rules' <=> r \in rules \/ (s.kind = "rule" /\ s.name = r)
           /\ command'[r] = IF SpeaksOf(s, r, "command") THEN s.text
                                                         ELSE command[r]
           /\ depfile'[r] = IF SpeaksOf(s, r, "depfile") THEN s.text
                                                         ELSE depfile[r]
  PROVE  RulesInv'
<1>. DEFINE n == Len(lines)
<1>1. /\ n \in Nat /\ Len(lines') = n + 1 /\ lines'[n + 1] = s
      /\ \A j \in 1..n : lines'[j] = lines[j]
      /\ 1..n + 1 = 1..n \cup {n + 1}
  BY Reading
<1>2. ASSUME NEW r \in Name
      PROVE  r \in rules' <=> \E j \in 1..Len(lines') :
               lines'[j].kind = "rule" /\ lines'[j].name = r
  BY <1>1 DEF RulesInv
<1>3. ASSUME NEW r, NEW k, NEW old, NEW new, SaysLast(r, k, old),
             new = IF SpeaksOf(s, r, k) THEN s.text ELSE old
      PROVE  LastOf(Said(r, k, Len(lines) + 1)', lines', new)
  <2>. DEFINE said == Said(r, k, Len(lines) + 1)
              saidNext == Said(r, k, Len(lines) + 1)'
  <2>1. said \subseteq 1..n
    BY <1>1 DEF Said
  <2>2. saidNext = said \cup {i \in {n + 1} : SpeaksOf(s, r, k)}
    BY SaidNext
  <2>3. \/ said = {} /\ old = Empty
        \/ \E j \in said : lines[j].text = old /\ \A i \in said : i <= j
    BY <1>3 DEF SaysLast
  <2>. HIDE DEF said, saidNext
  <2>4. CASE SpeaksOf(s, r, k)
    <3>1. n + 1 \in saidNext /\ \A i \in saidNext : i <= n + 1
      BY <1>1, <2>1, <2>2, <2>4
    <3>2. lines'[n + 1].text = new
      BY <1>1, <1>3, <2>4
    <3>3. \E j \in saidNext : /\ lines'[j].text = new
                              /\ \A i \in saidNext : i <= j
      BY <3>1, <3>2
    <3>. QED BY <3>3 DEF saidNext, LastOf
  <2>5. CASE ~SpeaksOf(s, r, k)
    <3>1. saidNext = said /\ new = old
      BY <1>3, <2>2, <2>5
    <3>2. \A j \in said : lines'[j] = lines[j]
      BY <1>1, <2>1
    <3>3. \/ saidNext = {} /\ new = Empty
          \/ \E j \in saidNext : /\ lines'[j].text = new
                                 /\ \A i \in saidNext : i <= j
      BY <2>3, <3>1, <3>2
    <3>. QED BY <3>3 DEF saidNext, LastOf
  <2>. QED BY <2>4, <2>5
<1>4. ASSUME NEW r \in Name
      PROVE  SaysLast(r, "command", command[r])'
  <2>1. /\ SaysLast(r, "command", command[r])
        /\ command'[r] = IF SpeaksOf(s, r, "command") THEN s.text
                                                   ELSE command[r]
    BY DEF RulesInv
  <2>2. LastOf(Said(r, "command", Len(lines) + 1)', lines', command'[r])
    BY <1>3, <2>1
  <2>. QED BY <2>2 DEF SaysLast, LastOf
<1>5. ASSUME NEW r \in Name
      PROVE  SaysLast(r, "depfile", depfile[r])'
  <2>1. /\ SaysLast(r, "depfile", depfile[r])
        /\ depfile'[r] = IF SpeaksOf(s, r, "depfile") THEN s.text
                                                   ELSE depfile[r]
    BY DEF RulesInv
  <2>2. LastOf(Said(r, "depfile", Len(lines) + 1)', lines', depfile'[r])
    BY <1>3, <2>1
  <2>. QED BY <2>2 DEF SaysLast, LastOf
<1>. QED BY <1>2, <1>4, <1>5 DEF RulesInv

(* A rule has a command if something above says so.                        *)
LEMMA CommandSaid ==
  ASSUME IInv, MeaningInv, pc = "line", NEW s \in Statement,
         s.kind = "build"
  PROVE  HasCommand(s) <=> Said(s.rule, "command", Len(lines) + 1) # {}
<1>1. /\ RulesInv /\ LegalInv /\ Passed = Len(lines) /\ Len(lines) \in Nat
      /\ lines \in Seq(Statement) /\ rules \subseteq Name
  BY LenProperties DEF MeaningInv, Passed, IInv, TypeOK
<1>2. \A j \in 1..Len(lines) : lines[j] \in Statement
  BY <1>1
<1>3. ASSUME HasCommand(s)
      PROVE  Said(s.rule, "command", Len(lines) + 1) # {}
  <2>1. s.rule \in Name /\ command[s.rule] # Empty
    BY <1>1, <1>3 DEF HasCommand
  <2>. QED BY <1>1, <2>1 DEF RulesInv, SaysLast
<1>4. ASSUME NEW i \in Said(s.rule, "command", Len(lines) + 1)
      PROVE  HasCommand(s)
  <2>1. PICK h \in 1..i - 1 : Under(i, h) /\ lines[h].name = s.rule
    BY <1>4 DEF Said
  <2>2. i \in 1..Len(lines) /\ h \in 1..Len(lines) /\ lines[h].kind = "rule"
    BY <1>1, <2>1 DEF Said, Under
  <2>3. s.rule \in Name /\ s.rule \in rules
    BY <1>1, <1>2, <2>1, <2>2, ParserAssumption DEF RulesInv
  <2>4. PICK j \in Said(s.rule, "command", Len(lines) + 1) :
          lines[j].text = command[s.rule]
    BY <1>1, <1>4, <2>3 DEF RulesInv, SaysLast
  <2>5. j \in 1..Len(lines) /\ lines[j].kind = "command"
    BY <1>1 DEF Said
  <2>6. lines[j].text # Empty
    BY <1>1, <2>5 DEF LegalInv, LegalLine
  <2>. QED BY <2>3, <2>4, <2>6 DEF HasCommand
<1>. QED BY <1>3, <1>4

(* A rule that no line declares has nothing said of it.                    *)
LEMMA UnknownRule ==
  ASSUME IInv, RulesInv, NEW r \in Name, r \notin rules
  PROVE  command[r] = Empty /\ depfile[r] = Empty
<1>1. Len(lines) \in Nat
  BY LenProperties DEF IInv, TypeOK
<1>2. ASSUME NEW k, NEW i \in Said(r, k, Len(lines) + 1) PROVE FALSE
  <2>1. PICK h \in 1..i - 1 : Under(i, h) /\ lines[h].name = r
    BY <1>2 DEF Said
  <2>2. i \in 1..Len(lines) /\ h \in 1..Len(lines) /\ lines[h].kind = "rule"
    BY <1>1, <2>1 DEF Said, Under
  <2>. QED BY <2>1, <2>2 DEF RulesInv
<1>. QED BY <1>2 DEF RulesInv, SaysLast

(* Lines other than build statements that are accepted.                    *)
LEMMA LineMeans ==
  ASSUME IInv, MeaningInv, NEW s \in Statement, Read(s),
         \/ SkipLine(s)
         \/ DeclareRule(s) /\ NewName(s.name)
         \/ SetCommand(s) /\ InRule(s)
         \/ SetDepfile(s) /\ InRule(s)
  PROVE  MeaningInv'
<1>. DEFINE n == Len(lines)
<1>1. /\ pc = "line" /\ Passed = Len(lines) /\ lines \in Seq(Statement)
      /\ lines' = Append(lines, s)
      /\ LegalInv /\ RulesInv /\ CurrentInv /\ EdgesInv
  BY DEF Read, MeaningInv, Passed, IInv, TypeOK
<1>2. /\ pc' = "line" /\ UNCHANGED edges
      /\ s.kind \in {"blank", "rule", "command", "depfile"}
  BY <1>1 DEF SkipLine, DeclareRule, SetCommand, SetDepfile, InRule, NewName,
              Reject, manifest, graph
<1>3. /\ n \in Nat /\ Len(lines') = n + 1 /\ lines'[n + 1] = s
      /\ \A j \in 1..n : lines'[j] = lines[j]
      /\ 1..n + 1 = 1..n \cup {n + 1} /\ Passed' = n + 1
  BY <1>1, <1>2, Reading DEF Passed
<1>4. InRule(s) =>
        \E h \in 1..n : Under(n + 1, h) /\ lines[h].name = current_rule
  BY <1>1 DEF InRule, CurrentInv
<1>5. ASSUME InRule(s), NEW r, NEW h \in 1..n, Under(n + 1, h),
             lines[h].name = r
      PROVE  r = current_rule
  <2>1. PICK g \in 1..n : Under(n + 1, g) /\ lines[g].name = current_rule
    BY <1>4, <1>5
  <2>2. g = h
    BY <1>1, <1>3, <1>5, <2>1, UnderOnce
  <2>. QED BY <1>5, <2>1, <2>2
<1>6. LegalNext(s)
  <2>1. CASE SkipLine(s)
    BY <2>1 DEF SkipLine, LegalNext
  <2>2. CASE DeclareRule(s) /\ NewName(s.name)
    <3>1. s.kind = "rule" /\ s.name \in Name /\ s.name \notin rules
      BY <2>2, ParserAssumption DEF DeclareRule, NewName
    <3>. QED BY <1>1, <3>1 DEF RulesInv, LegalNext
  <2>3. CASE (SetCommand(s) \/ SetDepfile(s)) /\ InRule(s)
    BY <1>4, <2>3 DEF SetCommand, SetDepfile, InRule, LegalNext
  <2>. QED BY <2>1, <2>2, <2>3
<1>7. LegalInv'
  <2>1. \A i \in 1..n : LegalLine(i)'
    BY <1>1, LegalKept DEF LegalInv
  <2>2. LegalLine(Len(lines))'
    BY <1>1, <1>6, LastLegal
  <2>. QED BY <1>3, <2>1, <2>2 DEF LegalInv
<1>8. RulesInv'
  <2>1. ASSUME NEW r \in Name
        PROVE  /\ r \in rules' <=> \/ r \in rules
                                   \/ s.kind = "rule" /\ s.name = r
               /\ command'[r] = IF SpeaksOf(s, r, "command") THEN s.text
                                                             ELSE command[r]
               /\ depfile'[r] = IF SpeaksOf(s, r, "depfile") THEN s.text
                                                             ELSE depfile[r]
    <3>1. \A k : SpeaksOf(s, r, k) /\ InRule(s) => r = current_rule
      BY <1>5 DEF SpeaksOf
    <3>2. InRule(s) => SpeaksOf(s, current_rule, s.kind)
      BY <1>4 DEF SpeaksOf
    <3>3. \A k : s.kind # k => ~SpeaksOf(s, r, k)
      BY DEF SpeaksOf
    <3>4. /\ command \in [Name -> Text \cup {Empty}]
          /\ depfile \in [Name -> Text \cup {Empty}]
      BY DEF IInv, TypeOK
    <3>5. CASE SkipLine(s)
      BY <3>3, <3>5 DEF SkipLine, manifest
    <3>6. CASE DeclareRule(s) /\ NewName(s.name)
      <4>1. r \notin rules => command[r] = Empty /\ depfile[r] = Empty
        BY <1>1, UnknownRule
      <4>. QED BY <1>2, <3>3, <3>4, <3>6, <4>1
               DEF DeclareRule, NewName, Reject
    <3>7. CASE SetCommand(s) /\ InRule(s)
      BY <3>1, <3>2, <3>3, <3>4, <3>7 DEF SetCommand
    <3>8. CASE SetDepfile(s) /\ InRule(s)
      BY <3>1, <3>2, <3>3, <3>4, <3>8 DEF SetDepfile
    <3>. QED BY <3>5, <3>6, <3>7, <3>8
  <2>. QED BY <1>1, <2>1, RulesNext
<1>9. CurrentInv'
  <2>1. /\ \A h \in 1..n :
             Under(Len(lines) + 1, h)' <=>
               Under(n + 1, h) /\ s.kind \notin {"rule", "build"}
        /\ Under(Len(lines) + 1, Len(lines))' <=> s.kind = "rule"
    BY <1>1, UnderNext
  <2>2. CASE DeclareRule(s) /\ NewName(s.name)
    <3>1. state' = "Rule" /\ current_rule' = s.name /\ s.kind = "rule"
      BY <2>2 DEF DeclareRule, NewName
    <3>2. Under(Len(lines) + 1, Len(lines))' /\ Len(lines') \in 1..Len(lines')
      BY <1>3, <2>1, <3>1
    <3>. QED BY <1>3, <3>1, <3>2 DEF CurrentInv
  <2>3. CASE ~(DeclareRule(s) /\ NewName(s.name))
    <3>1. UNCHANGED parser /\ s.kind \notin {"rule", "build"}
      BY <1>2, <2>3 DEF SkipLine, SetCommand, SetDepfile, InRule, Reject
    <3>2. \A h \in 1..n : /\ Under(Len(lines) + 1, h)' <=> Under(n + 1, h)
                          /\ lines'[h] = lines[h]
      BY <1>3, <2>1, <3>1
    <3>3. ~Under(Len(lines) + 1, Len(lines))'
      BY <2>1, <3>1
    <3>4. CASE state = "Rule"
      BY <1>1, <1>3, <3>1, <3>2, <3>4 DEF CurrentInv, parser
    <3>5. CASE state # "Rule"
      <4>1. \A h \in 1..n : ~Under(Len(lines) + 1, h)'
        BY <1>1, <3>2, <3>5 DEF CurrentInv
      <4>2. \A h \in 1..Len(lines') : ~Under(Len(lines) + 1, h)'
        BY <1>3, <3>3, <4>1
      <4>. QED BY <3>1, <3>5, <4>2 DEF CurrentInv, parser
    <3>. QED BY <3>4, <3>5
  <2>. QED BY <2>2, <2>3
<1>10. EdgesInv'
  <2>1. /\ \A i \in 0..n : EdgesTo(i)' = EdgesTo(i)
        /\ EdgesTo(Len(lines))' = EdgesTo(Len(lines)) + 0
        /\ EdgesTo(Len(lines)) \in Nat
    BY <1>1, <1>2, <1>3, CountKept
  <2>2. \A i \in 1..n : /\ lines'[i] = lines[i]
                        /\ EdgesTo(i)' = EdgesTo(i)
    BY <1>3, <2>1
  <2>. QED BY <1>1, <1>2, <1>3, <2>1, <2>2 DEF EdgesInv
<1>. QED BY <1>2, <1>7, <1>8, <1>9, <1>10 DEF MeaningInv, StatementRead

(* Lines that are refused.                                                 *)
LEMMA RefusedLine ==
  ASSUME IInv, MeaningInv, NEW s \in Statement, Read(s),
         \/ UnknownStatement(s)
         \/ DeclareRule(s) /\ ~NewName(s.name)
         \/ (SetCommand(s) \/ SetDepfile(s)) /\ ~InRule(s)
         \/ BeginBuild(s) /\ ~(WellFormed(s) /\ HasCommand(s))
  PROVE  MeaningInv'
<1>1. /\ pc = "line" /\ Passed = Len(lines) /\ lines \in Seq(Statement)
      /\ lines' = Append(lines, s) /\ RulesInv /\ CurrentInv
      /\ current_rule \in rules \cup {none} /\ Len(lines) \in Nat
  BY LenProperties DEF Read, MeaningInv, Passed, IInv, TypeOK
<1>2. pc' = "rejected"
  BY DEF UnknownStatement, DeclareRule, SetCommand, SetDepfile, BeginBuild,
         Reject
<1>3. ~LegalNext(s)
  <2>1. CASE UnknownStatement(s)
    BY <2>1 DEF UnknownStatement, LegalNext
  <2>2. CASE DeclareRule(s) /\ ~NewName(s.name)
    <3>1. s.kind = "rule" /\ s.name \in Name /\ s.name \in rules
      BY <2>2, ParserAssumption DEF DeclareRule, NewName
    <3>2. PICK j \in 1..Len(lines) :
            lines[j].kind = "rule" /\ lines[j].name = s.name
      BY <1>1, <3>1 DEF RulesInv
    <3>. QED BY <3>1, <3>2 DEF LegalNext
  <2>3. CASE (SetCommand(s) \/ SetDepfile(s)) /\ ~InRule(s)
    <3>1. s.kind \in {"command", "depfile"}
      BY <2>3 DEF SetCommand, SetDepfile
    <3>2. ASSUME state = "Rule" PROVE current_rule # none
      <4>1. PICK h \in 1..Len(lines) :
              Under(Len(lines) + 1, h) /\ lines[h].name = current_rule
        BY <1>1, <3>2 DEF CurrentInv
      <4>2. lines[h].kind = "rule" /\ lines[h] \in Statement
        BY <1>1, <4>1 DEF Under
      <4>. QED BY <4>1, <4>2, ParserAssumption
    <3>3. s.text = Empty \/ \A h \in 1..Len(lines) : ~Under(Len(lines) + 1, h)
      BY <1>1, <2>3, <3>2 DEF InRule, CurrentInv
    <3>. QED BY <3>1, <3>3 DEF LegalNext
  <2>4. CASE BeginBuild(s) /\ ~(WellFormed(s) /\ HasCommand(s))
    <3>1. s.kind = "build"
      BY <2>4 DEF BeginBuild
    <3>2. HasCommand(s) <=> Said(s.rule, "command", Len(lines) + 1) # {}
      BY <1>1, <3>1, CommandSaid
    <3>. QED BY <2>4, <3>1, <3>2 DEF LegalNext, WellFormed
  <2>. QED BY <2>1, <2>2, <2>3, <2>4
<1>4. ~LegalLine(Len(lines))'
  BY <1>1, <1>3, LastLegal
<1>. QED BY <1>2, <1>4 DEF MeaningInv

(* A build statement begins.                                               *)
LEMMA BeginMeans ==
  ASSUME IInv, MeaningInv, NEW s \in Statement, BeginBuild(s),
         WellFormed(s), HasCommand(s)
  PROVE  MeaningInv'
<1>. DEFINE n == Len(lines)  k == Len(edges)
            new == [rule |-> s.rule, outputs |-> <<>>, inputs |-> <<>>]
<1>1. /\ pc = "line" /\ Passed = Len(lines) /\ lines \in Seq(Statement)
      /\ lines' = Append(lines, s) /\ s.kind = "build"
      /\ LegalInv /\ RulesInv /\ EdgesInv
  BY DEF BeginBuild, Read, MeaningInv, Passed, IInv, TypeOK
<1>2. /\ statement' = s /\ next' = 1 /\ pc' = "outputs"
      /\ edges' = Append(edges, new)
      /\ UNCHANGED <<parser, command, depfile, rules>>
  BY DEF BeginBuild, Reject
<1>3. /\ n \in Nat /\ Len(lines') = n + 1 /\ lines'[n + 1] = s
      /\ \A j \in 1..n : lines'[j] = lines[j]
      /\ Passed' = n
  BY <1>1, <1>2, Reading DEF Passed
<1>4. edges \in Seq(ParsedEdge) /\ k \in Nat /\ new \in ParsedEdge
  BY <1>1 DEF IInv, TypeOK, ParsedEdge, HasCommand
<1>5. /\ Len(edges') = k + 1 /\ edges'[k + 1] = new
      /\ \A e \in 1..k : edges'[e] = edges[e]
  <2>. HIDE DEF new
  <2>. QED BY <1>2, <1>4
<1>6. LegalInv'
  BY <1>1, <1>3, LegalKept DEF LegalInv
<1>7. RulesInv'
  <2>1. \A r \in Name : ~SpeaksOf(s, r, "command") /\ ~SpeaksOf(s, r, "depfile")
    BY <1>1 DEF SpeaksOf
  <2>. QED BY <1>1, <1>2, <2>1, RulesNext
<1>8. EdgesInv'
  <2>1. /\ \A i \in 0..n : EdgesTo(i)' = EdgesTo(i)
        /\ \A i \in 1..n : lines[i].kind = "build" => EdgesTo(i) \in 1..k
        /\ EdgesTo(Len(lines))' = k + 1
    BY <1>1, CountKept DEF EdgesInv
  <2>2. \A i \in 1..n : /\ lines'[i] = lines[i]
                        /\ EdgesTo(i)' = EdgesTo(i)
    BY <1>3, <2>1
  <2>3. \A i \in 1..n :
          lines'[i].kind = "build" =>
            edges'[EdgesTo(i)'] = [rule |-> lines'[i].rule,
                                   outputs |-> lines'[i].outputs,
                                   inputs |-> lines'[i].inputs]
    BY <1>1, <1>5, <2>1, <2>2 DEF EdgesInv
  <2>4. ASSUME NEW e \in 1..k + 1
        PROVE  \E i \in 1..n + 1 : lines'[i].kind = "build" /\ EdgesTo(i)' = e
    <3>1. CASE e = k + 1
      <4>1. PICK m \in 1..n + 1 : m = n + 1
        BY <1>3
      <4>2. EdgesTo(m)' = k + 1
        BY <1>3, <2>1, <4>1 DEF EdgesTo
      <4>. QED BY <1>1, <1>3, <3>1, <4>1, <4>2
    <3>2. CASE e \in 1..k
      <4>1. PICK i \in 1..n : lines[i].kind = "build" /\ EdgesTo(i) = e
        BY <1>1, <3>2 DEF EdgesInv
      <4>. QED BY <1>3, <2>2, <4>1
    <3>. QED BY <1>4, <3>1, <3>2
  <2>. QED BY <1>3, <1>5, <2>1, <2>3, <2>4 DEF EdgesInv
<1>9. StatementRead'
  <2>1. Said(s.rule, "command", Len(lines) + 1) # {}
    BY <1>1, CommandSaid
  <2>2. \A r, c : Said(r, c, Len(lines))' = Said(r, c, Len(lines) + 1)
    BY <1>1, LastLegal
  <2>3. Said(statement.rule, "command", Len(lines))' # {}
    <3>. DEFINE Heard(r) ==
                  {j \in 1..Len(lines') - 1 :
                     /\ lines'[j].kind = "command"
                     /\ \E h \in 1..j - 1 : Under(j, h)'
                                            /\ lines'[h].name = r}
    <3>1. \A r : Said(r, "command", Len(lines))' = Heard(r)
      BY DEF Said
    <3>2. Said(statement.rule, "command", Len(lines))' = Heard(statement'.rule)
      BY DEF Said
    <3>. HIDE DEF Heard
    <3>. QED BY <1>2, <2>1, <2>2, <3>1, <3>2
  <2>4. Begun(statement.outputs)' = <<>>
    BY <1>2 DEF Begun
  <2>. QED BY <1>2, <1>3, <1>5, <2>3, <2>4 DEF StatementRead
<1>. QED BY <1>2, <1>6, <1>7, <1>8, <1>9 DEF MeaningInv, CurrentInv

-----------------------------------------------------------------------------
(* Steps between two lines.                                                *)

LEMMA SameLines ==
  ASSUME UNCHANGED lines
  PROVE  /\ \A i, h : Under(i, h)' <=> Under(i, h)
         /\ \A r, k, i : Said(r, k, i)' = Said(r, k, i)
         /\ \A i : LegalLine(i)' <=> LegalLine(i)
         /\ \A i : EdgesTo(i)' = EdgesTo(i)
<1>1. \A i, h : Under(i, h)' <=> Under(i, h)
  BY DEF Under
<1>2. \A r, k, i : Said(r, k, i)' = Said(r, k, i)
  BY DEF Said, Under
<1>3. \A i : LegalBuild(i)' <=> LegalBuild(i)
  BY DEF LegalBuild, Said, Under
<1>4. \A i : LegalLine(i)' <=> LegalLine(i)
  BY <1>1, <1>3 DEF LegalLine
<1>5. \A i : EdgesTo(i)' = EdgesTo(i)
  BY DEF EdgesTo
<1>. QED BY <1>1, <1>2, <1>4, <1>5

LEMMA SameRules ==
  ASSUME UNCHANGED <<lines, rules, command, depfile>>, RulesInv
  PROVE  RulesInv'
BY DEF RulesInv, SaysLast, Said, Under

LEMMA Beginnings ==
  ASSUME NEW S, NEW q \in Seq(S), NEW i \in 1..Len(q)
  PROVE  /\ SubSeq(q, 1, i) = Append(SubSeq(q, 1, i - 1), q[i])
         /\ SubSeq(q, 1, 0) = <<>> /\ SubSeq(q, 1, Len(q)) = q
         /\ \A x \in Range(SubSeq(q, 1, i - 1)) :
              \E j \in 1..i - 1 : x = q[j]
<1>1. Len(q) \in Nat /\ DOMAIN q = 1..Len(q) /\ i \in Nat /\ i # 0
  BY LenProperties
<1>2. SubSeq(q, 1, i) = Append(SubSeq(q, 1, i - 1), q[i])
  BY <1>1
<1>3. SubSeq(q, 1, 0) = <<>> /\ SubSeq(q, 1, Len(q)) = q
  BY <1>1
<1>4. SubSeq(q, 1, i - 1) = [j \in 1..i - 1 |-> q[j]]
  BY <1>1
<1>. QED BY <1>2, <1>3, <1>4 DEF Range

LEMMA LineReplaced ==
  ASSUME NEW r, NEW o, NEW i, NEW x
  PROVE  LET e == [rule |-> r, outputs |-> o, inputs |-> i] IN
           /\ [e EXCEPT !.outputs = x] =
                [rule |-> r, outputs |-> x, inputs |-> i]
           /\ [e EXCEPT !.inputs = x] =
                [rule |-> r, outputs |-> o, inputs |-> x]
OBVIOUS

LEMMA OutputShape ==
  ASSUME TypeOK, Len(edges) # 0, NEW n,
         edges' = [edges EXCEPT ![Len(edges)].outputs = Append(@, n)]
  PROVE  /\ Len(edges') = Len(edges)
         /\ \A e \in 1..Len(edges) \ {Len(edges)} : edges'[e] = edges[e]
         /\ edges'[Len(edges)] =
              [rule |-> edges[Len(edges)].rule,
               outputs |-> Append(edges[Len(edges)].outputs, n),
               inputs |-> edges[Len(edges)].inputs]
<1>. DEFINE k == Len(edges)
<1>1. edges \in Seq(ParsedEdge) /\ DOMAIN edges = 1..k /\ k \in Nat /\ k \in 1..k
  BY LenProperties DEF TypeOK, ParsedEdge
<1>. HIDE DEF k
<1>2. edges[k] = [rule |-> edges[k].rule, outputs |-> edges[k].outputs,
                  inputs |-> edges[k].inputs]
  BY <1>1, EdgeTyped
<1>3. edges' = [edges EXCEPT ![k] = [edges[k] EXCEPT !.outputs =
                                       Append(edges[k].outputs, n)]]
  BY DEF k
<1>4. [edges[k] EXCEPT !.outputs = Append(edges[k].outputs, n)] =
        [rule |-> edges[k].rule, outputs |-> Append(edges[k].outputs, n),
         inputs |-> edges[k].inputs]
  <2>. DEFINE r == edges[k].rule  outs == edges[k].outputs
              ins == edges[k].inputs  x == Append(outs, n)
  <2>. HIDE DEF r, outs, ins, x
  <2>1. edges[k] = [rule |-> r, outputs |-> outs, inputs |-> ins]
    BY <1>2 DEF r, outs, ins
  <2>2. [edges[k] EXCEPT !.outputs = x] =
          [rule |-> r, outputs |-> x, inputs |-> ins]
    BY <2>1, LineReplaced
  <2>. QED BY <2>2 DEF r, outs, ins, x
<1>5. Len(edges') = k
  BY <1>1, <1>3
<1>. QED BY <1>1, <1>3, <1>4, <1>5 DEF k

LEMMA InputShape ==
  ASSUME TypeOK, Len(edges) # 0, NEW n,
         edges' = [edges EXCEPT ![Len(edges)].inputs = Append(@, n)]
  PROVE  /\ Len(edges') = Len(edges)
         /\ \A e \in 1..Len(edges) \ {Len(edges)} : edges'[e] = edges[e]
         /\ edges'[Len(edges)] =
              [rule |-> edges[Len(edges)].rule,
               outputs |-> edges[Len(edges)].outputs,
               inputs |-> Append(edges[Len(edges)].inputs, n)]
<1>. DEFINE k == Len(edges)
<1>1. edges \in Seq(ParsedEdge) /\ DOMAIN edges = 1..k /\ k \in Nat /\ k \in 1..k
  BY LenProperties DEF TypeOK, ParsedEdge
<1>. HIDE DEF k
<1>2. edges[k] = [rule |-> edges[k].rule, outputs |-> edges[k].outputs,
                  inputs |-> edges[k].inputs]
  BY <1>1, EdgeTyped
<1>3. edges' = [edges EXCEPT ![k] = [edges[k] EXCEPT !.inputs =
                                       Append(edges[k].inputs, n)]]
  BY DEF k
<1>4. [edges[k] EXCEPT !.inputs = Append(edges[k].inputs, n)] =
        [rule |-> edges[k].rule, outputs |-> edges[k].outputs,
         inputs |-> Append(edges[k].inputs, n)]
  <2>. DEFINE r == edges[k].rule  outs == edges[k].outputs
              ins == edges[k].inputs  x == Append(ins, n)
  <2>. HIDE DEF r, outs, ins, x
  <2>1. edges[k] = [rule |-> r, outputs |-> outs, inputs |-> ins]
    BY <1>2 DEF r, outs, ins
  <2>2. [edges[k] EXCEPT !.inputs = x] =
          [rule |-> r, outputs |-> outs, inputs |-> x]
    BY <2>1, LineReplaced
  <2>. QED BY <2>2 DEF r, outs, ins, x
<1>5. Len(edges') = k
  BY <1>1, <1>3
<1>. QED BY <1>1, <1>3, <1>4, <1>5 DEF k

LEMMA EndMeans ==
  ASSUME IInv, MeaningInv, EndOfFile \/ UNCHANGED vars
  PROVE  MeaningInv'
<1>1. /\ UNCHANGED <<parser, manifest, next, lines, statement>>
      /\ \/ UNCHANGED <<pc, unread>>
         \/ pc = "line" /\ pc' = "accepted"
         \/ pc = "line" /\ pc' = "rejected" /\ unread'
  <2>1. CASE UNCHANGED vars
    BY <2>1 DEF vars
  <2>2. CASE EndOfFile
    <3>1. PICK bad \in BOOLEAN :
            /\ pc' = IF bad THEN "rejected" ELSE "accepted"
            /\ unread' = bad
      BY <2>2 DEF EndOfFile
    <3>2. CASE bad = TRUE
      BY <2>2, <3>1, <3>2 DEF EndOfFile
    <3>3. CASE bad = FALSE
      BY <2>2, <3>1, <3>3 DEF EndOfFile
    <3>. QED BY <3>2, <3>3
  <2>. QED BY <2>1, <2>2
<1>2. CASE pc' = "rejected"
  <2>1. LegalLine(Len(lines))' <=> LegalLine(Len(lines))
    BY <1>1 DEF LegalLine, LegalBuild, Said, Under
  <2>. QED BY <1>1, <1>2, <2>1 DEF MeaningInv
<1>3. CASE pc' # "rejected"
  <2>1. /\ LegalInv /\ RulesInv /\ CurrentInv /\ EdgesInv /\ StatementRead
        /\ Passed' = Passed
        /\ pc' \in {"line", "outputs", "inputs"} => pc' = pc
    BY <1>1, <1>3 DEF MeaningInv, Passed
  <2>2. LegalInv' /\ RulesInv' /\ EdgesInv'
    <3>1. LegalInv'
      BY <1>1, <2>1, SameLines DEF LegalInv
    <3>2. RulesInv'
      BY <1>1, <2>1, SameRules DEF manifest
    <3>3. EdgesInv'
      <4>1. \A i : EdgesTo(i)' = EdgesTo(i)
        BY <1>1, SameLines
      <4>2. EdgesTo(Len(lines))' = EdgesTo(Len(lines))
        BY <1>1 DEF EdgesTo
      <4>. QED BY <1>1, <2>1, <4>1, <4>2 DEF EdgesInv, manifest, graph
    <3>. QED BY <3>1, <3>2, <3>3
  <2>3. CurrentInv'
    BY <1>1, <2>1 DEF CurrentInv, Under, parser
  <2>4. StatementRead'
    BY <1>1, <2>1 DEF StatementRead, Begun, Said, Under, manifest, graph
  <2>. QED BY <1>3, <2>2, <2>3, <2>4 DEF MeaningInv
<1>. QED BY <1>2, <1>3

(* The line of the statement that is being parsed.                         *)
LEMMA StatementLine ==
  ASSUME IInv, MeaningInv, pc \in {"outputs", "inputs"}
  PROVE  /\ lines \in Seq(Statement) /\ Len(lines) \in Nat
         /\ Len(lines) \in 1..Len(lines) /\ lines[Len(lines)] = statement
         /\ statement \in Statement /\ statement.kind = "build"
         /\ WellFormed(statement) /\ Passed = Len(lines) - 1
         /\ Len(edges) # 0 /\ Len(edges) \in 1..Len(edges)
         /\ Len(edges) \in Nat /\ EdgesTo(Len(lines)) = Len(edges)
         /\ \A i \in 1..Passed :
              /\ i \in 1..Len(lines) /\ EdgesTo(i) \in Nat
              /\ EdgesTo(i) < Len(edges)
              /\ lines[i].kind = "build" => EdgesTo(i) \in 1..Len(edges)
         /\ LegalInv /\ RulesInv /\ EdgesInv /\ StatementRead
<1>1. /\ lines \in Seq(Statement) /\ Len(lines) \in Nat
      /\ Len(lines) \in 1..Len(lines) /\ lines[Len(lines)] = statement
      /\ statement \in Statement /\ statement.kind = "build"
      /\ WellFormed(statement) /\ Passed = Len(lines) - 1
      /\ Len(edges) # 0 /\ Len(edges) \in Nat
      /\ EdgesTo(Len(lines)) = Len(edges)
      /\ LegalInv /\ RulesInv /\ EdgesInv /\ StatementRead
  BY LenProperties DEF IInv, TypeOK, StatementInv, MeaningInv, StatementRead,
                       EdgesInv, Passed
<1>2. ASSUME NEW i \in 1..Passed
      PROVE  /\ i \in 1..Len(lines) /\ EdgesTo(i) \in Nat
             /\ EdgesTo(i) < Len(edges)
             /\ lines[i].kind = "build" => EdgesTo(i) \in 1..Len(edges)
  <2>1. i \in 0..Len(lines) /\ i \in 1..Len(lines) /\ i < Len(lines)
        /\ 0 \in 0..Len(lines) /\ 0 < i
    BY <1>1
  <2>2. EdgesTo(i) \in Nat /\ EdgesTo(i) < Len(edges)
    BY <1>1, <2>1, CountOrder
  <2>3. ASSUME lines[i].kind = "build" PROVE EdgesTo(i) # 0
    <3>1. EdgesTo(0) \in Nat /\ EdgesTo(0) < EdgesTo(i)
      BY <1>1, <2>1, <2>3, CountOrder
    <3>. QED BY <2>2, <3>1
  <2>. QED BY <1>1, <2>1, <2>2, <2>3
<1>. QED BY <1>1, <1>2

(* The edge of a line that was read to its end.                            *)
LEMMA EarlierEdge ==
  ASSUME EdgesInv, NEW i \in 1..Passed, lines[i].kind = "build"
  PROVE  edges[EdgesTo(i)].outputs = lines[i].outputs
<1>1. edges[EdgesTo(i)] = [rule |-> lines[i].rule,
                           outputs |-> lines[i].outputs,
                           inputs |-> lines[i].inputs]
  BY DEF EdgesInv
<1>. QED BY <1>1

(* Of a statement whose edge has all its outputs, the line is legal.       *)
LEMMA StatementLegal ==
  ASSUME IInv, MeaningInv, pc = "inputs"
  PROVE  LegalLine(Len(lines))
<1>. DEFINE k == Len(edges)
<1>1. /\ Said(statement.rule, "command", Len(lines)) # {}
      /\ edges[k].outputs = statement.outputs
      /\ lines[Len(lines)] = statement
  BY StatementLine DEF StatementRead
<1>2. IsInjective(statement.outputs)
  BY <1>1, StatementLine DEF IInv, GraphAgrees
<1>3. ASSUME NEW j \in 1..Len(lines) - 1, lines[j].kind = "build"
      PROVE  Range(lines[j].outputs) \cap Range(statement.outputs) = {}
  <2>1. /\ j \in 1..Passed /\ EdgesTo(j) \in 1..k /\ EdgesTo(j) # k
        /\ k \in 1..k /\ lines[j] \in Statement
    BY <1>3, StatementLine
  <2>2. edges[EdgesTo(j)].outputs = lines[j].outputs
    <3>1. EdgesInv
      BY StatementLine
    <3>. QED BY <1>3, <2>1, <3>1, EarlierEdge
  <2>3. SUFFICES ASSUME NEW x \in Range(lines[j].outputs),
                        x \in Range(statement.outputs)
                 PROVE  FALSE
    OBVIOUS
  <2>4. x \in Path
    <3>1. lines[j].outputs \in Seq(Path)
      BY <1>3, <2>1, ParserAssumption
    <3>. QED BY <2>3, <3>1 DEF Range
  <2>5. in_edge[x] = EdgesTo(j) /\ in_edge[x] = k
    BY <1>1, <2>1, <2>2, <2>3, <2>4 DEF IInv, GraphAgrees
  <2>. QED BY <2>1, <2>5
<1>4. WellFormed(statement) /\ statement.kind = "build"
  BY StatementLine
<1>. QED BY <1>1, <1>2, <1>3, <1>4 DEF LegalLine, LegalBuild, WellFormed

(* An output that has a producer makes the line illegal.                   *)
LEMMA ProducerIllegal ==
  ASSUME IInv, MeaningInv, pc = "outputs",
         ~NoProducer(statement.outputs[next])
  PROVE  ~LegalLine(Len(lines))
<1>. DEFINE n == statement.outputs[next]  k == Len(edges)  e == in_edge[n]
<1>1. /\ n \in Path /\ statement.outputs \in Seq(Path)
      /\ next \in 1..Len(statement.outputs)
  BY StatementFiles DEF IInv, StatementInv
<1>2. e \in 1..k /\ n \in Range(edges[e].outputs)
  <2>1. e \in 0..k /\ e # 0 /\ k \in Nat
    BY <1>1, StatementLine DEF IInv, TypeOK, NoProducer
  <2>2. e \in 1..k
    BY <2>1
  <2>. QED BY <1>1, <2>2 DEF IInv, GraphAgrees
<1>3. lines[Len(lines)] = statement /\ statement.kind = "build"
  BY StatementLine
<1>. HIDE DEF e
<1>4. CASE e = k
  <2>1. edges[k].outputs = Begun(statement.outputs)
    BY StatementLine DEF StatementRead
  <2>2. PICK j \in 1..next - 1 : n = statement.outputs[j]
    <3>1. n \in Range(SubSeq(statement.outputs, 1, next - 1))
      BY <1>2, <1>4, <2>1 DEF Begun
    <3>2. \A x \in Range(SubSeq(statement.outputs, 1, next - 1)) :
            \E j \in 1..next - 1 : x = statement.outputs[j]
      BY <1>1, Beginnings
    <3>. QED BY <3>1, <3>2
  <2>3. /\ j \in DOMAIN statement.outputs /\ next \in DOMAIN statement.outputs
        /\ j # next
    BY <1>1, <2>2
  <2>4. ~IsInjective(statement.outputs)
    BY <2>2, <2>3 DEF IsInjective
  <2>. QED BY <1>3, <2>4 DEF LegalLine, LegalBuild
<1>5. CASE e # k
  <2>1. PICK i \in 1..Len(lines) : lines[i].kind = "build" /\ EdgesTo(i) = e
    BY <1>2, StatementLine DEF EdgesInv
  <2>2. i # Len(lines)
    BY <1>5, <2>1, StatementLine
  <2>3. i \in 1..Len(lines) - 1 /\ i \in 1..Passed
    BY <2>1, <2>2, StatementLine
  <2>4. n \in Range(lines[i].outputs)
    <3>1. EdgesInv
      BY StatementLine
    <3>2. edges[e].outputs = lines[i].outputs
      BY <2>1, <2>3, <3>1, EarlierEdge
    <3>. QED BY <1>2, <3>2
  <2>5. n \in Range(statement.outputs)
    BY <1>1 DEF Range
  <2>. QED BY <1>3, <2>1, <2>3, <2>4, <2>5 DEF LegalLine, LegalBuild
<1>. QED BY <1>4, <1>5

(* A step inside a statement leaves the edges of the lines above it alone. *)
LEMMA EdgesMeanwhile ==
  ASSUME IInv, MeaningInv, pc \in {"outputs", "inputs"}, UNCHANGED lines,
         Len(edges') = Len(edges),
         \A e \in 1..Len(edges) \ {Len(edges)} : edges'[e] = edges[e],
         \/ Passed' = Passed
         \/ /\ Passed' = Len(lines)
            /\ edges'[Len(edges)] = [rule |-> statement.rule,
                                     outputs |-> statement.outputs,
                                     inputs |-> statement.inputs]
  PROVE  EdgesInv'
<1>1. EdgesInv /\ Len(lines) \in Nat /\ Passed = Len(lines) - 1
  BY StatementLine
<1>2. \A i : EdgesTo(i)' = EdgesTo(i)
  BY SameLines
<1>3. EdgesTo(Len(lines))' = EdgesTo(Len(lines))
  BY DEF EdgesTo
<1>4. ASSUME NEW i \in 1..Passed, lines[i].kind = "build"
      PROVE  edges'[EdgesTo(i)] = [rule |-> lines[i].rule,
                                   outputs |-> lines[i].outputs,
                                   inputs |-> lines[i].inputs]
  <2>1. /\ EdgesTo(i) \in 1..Len(edges) /\ EdgesTo(i) < Len(edges)
        /\ Len(edges) \in Nat
    BY <1>4, StatementLine
  <2>2. edges'[EdgesTo(i)] = edges[EdgesTo(i)]
    BY <2>1
  <2>. QED BY <1>1, <1>4, <2>2 DEF EdgesInv
<1>5. ASSUME NEW i \in 1..Passed', lines[i].kind = "build"
      PROVE  edges'[EdgesTo(i)] = [rule |-> lines[i].rule,
                                   outputs |-> lines[i].outputs,
                                   inputs |-> lines[i].inputs]
  <2>1. CASE i \in 1..Passed
    BY <1>4, <1>5, <2>1
  <2>2. CASE i \notin 1..Passed
    <3>1. /\ i = Len(lines)
          /\ edges'[Len(edges)] = [rule |-> statement.rule,
                                   outputs |-> statement.outputs,
                                   inputs |-> statement.inputs]
      BY <1>1, <1>5, <2>2
    <3>2. EdgesTo(i) = Len(edges) /\ lines[i] = statement
      BY <3>1, StatementLine
    <3>. QED BY <3>1, <3>2
  <2>. QED BY <2>1, <2>2
<1>6. \A e \in 1..Len(edges) : \E i \in 1..Len(lines) :
        lines[i].kind = "build" /\ EdgesTo(i) = e
  BY <1>1 DEF EdgesInv
<1>7. Len(edges) = EdgesTo(Len(lines))
  BY <1>1 DEF EdgesInv
<1>. QED BY <1>2, <1>3, <1>5, <1>6, <1>7 DEF EdgesInv

LEMMA OutputMeans ==
  ASSUME IInv, MeaningInv, AddOutput
  PROVE  MeaningInv'
<1>. DEFINE n == statement.outputs[next]  k == Len(edges)
            outs == statement.outputs
<1>1. /\ pc = "outputs" /\ pc \in {"outputs", "inputs"}
      /\ UNCHANGED <<lines, statement, rules, command, depfile, unread>>
  BY DEF AddOutput, parser
<1>2. CASE ~NoProducer(n)
  <2>1. pc' = "rejected"
    BY <1>2 DEF AddOutput
  <2>2. ~LegalLine(Len(lines))
    BY <1>1, <1>2, ProducerIllegal
  <2>3. LegalLine(Len(lines))' <=> LegalLine(Len(lines))
    BY <1>1 DEF LegalLine, LegalBuild, Said, Under
  <2>. QED BY <2>1, <2>2, <2>3 DEF MeaningInv
<1>3. CASE NoProducer(n)
  <2>1. /\ edges' = [edges EXCEPT ![Len(edges)].outputs = Append(@, n)]
        /\ IF next = Len(outs)
           THEN pc' = "inputs" /\ next' = 1
           ELSE pc' = "outputs" /\ next' = next + 1
    BY <1>1, <1>3 DEF AddOutput
  <2>2. /\ LegalInv /\ RulesInv /\ StatementRead /\ k # 0 /\ k \in Nat
        /\ Len(lines) \in Nat /\ Len(lines) # 0
        /\ lines[Len(lines)] = statement
    BY <1>1, StatementLine
  <2>3. /\ Len(edges') = k
        /\ \A e \in 1..k \ {k} : edges'[e] = edges[e]
        /\ edges'[k] = [rule |-> edges[k].rule,
                        outputs |-> Append(edges[k].outputs, n),
                        inputs |-> edges[k].inputs]
    BY <2>1, <2>2, OutputShape DEF IInv
  <2>4. Passed' = Passed
    BY <1>1, <2>1 DEF Passed
  <2>5. pc' # "rejected" /\ pc' # "line"
    BY <2>1
  <2>6. LegalInv'
    BY <1>1, <2>2, <2>4, SameLines DEF LegalInv
  <2>7. RulesInv'
    BY <1>1, <2>2, SameRules
  <2>8. EdgesInv'
    BY <1>1, <2>3, <2>4, EdgesMeanwhile
  <2>9. StatementRead'
    <3>1. /\ outs \in Seq(Path) /\ next \in 1..Len(outs)
          /\ statement.inputs \in Seq(Path)
      BY <1>1, StatementFiles DEF IInv, StatementInv
    <3>2. edges[k].rule = statement.rule /\ edges[k].inputs = <<>>
          /\ edges[k].outputs = SubSeq(outs, 1, next - 1)
      BY <1>1, <2>2 DEF StatementRead, Begun
    <3>3. /\ SubSeq(outs, 1, next) = Append(SubSeq(outs, 1, next - 1), n)
          /\ SubSeq(outs, 1, Len(outs)) = outs
      BY <3>1, Beginnings
    <3>4. edges'[k] = [rule |-> statement.rule,
                       outputs |-> SubSeq(outs, 1, next), inputs |-> <<>>]
      BY <2>3, <3>2, <3>3
    <3>5. Said(statement.rule, "command", Len(lines))' # {}
      BY <1>1, <2>2 DEF StatementRead, Said, Under
    <3>6. CASE next = Len(outs)
      <4>1. pc' = "inputs" /\ next' = 1
        BY <2>1, <3>6
      <4>2. SubSeq(statement.inputs, 1, 0) = <<>> /\ 1 - 1 = 0
        BY <3>1
      <4>3. Begun(statement.inputs)' = <<>>
        BY <1>1, <4>1, <4>2 DEF Begun
      <4>4. edges'[Len(edges')] = [rule |-> statement.rule,
                                   outputs |-> outs, inputs |-> <<>>]
        BY <2>3, <3>3, <3>4, <3>6
      <4>. QED BY <1>1, <2>2, <3>5, <4>1, <4>3, <4>4 DEF StatementRead
    <3>7. CASE next # Len(outs)
      <4>1. pc' = "outputs" /\ next' = next + 1
        BY <2>1, <3>7
      <4>2. (next + 1) - 1 = next
        BY <3>1
      <4>3. Begun(statement.outputs)' = SubSeq(outs, 1, next)
        BY <1>1, <4>1, <4>2 DEF Begun
      <4>4. edges'[Len(edges')] = [rule |-> statement.rule,
                                   outputs |-> SubSeq(outs, 1, next),
                                   inputs |-> <<>>]
        BY <2>3, <3>4
      <4>. QED BY <1>1, <2>2, <3>5, <4>1, <4>3, <4>4 DEF StatementRead
    <3>. QED BY <3>6, <3>7
  <2>. QED BY <2>5, <2>6, <2>7, <2>8, <2>9 DEF MeaningInv, CurrentInv
<1>. QED BY <1>2, <1>3

LEMMA InputMeans ==
  ASSUME IInv, MeaningInv, AddInput
  PROVE  MeaningInv'
<1>. DEFINE n == statement.inputs[next]  k == Len(edges)
            ins == statement.inputs
<1>1. /\ pc = "inputs" /\ pc \in {"outputs", "inputs"}
      /\ UNCHANGED <<lines, rules, command, depfile, unread>>
      /\ edges' = [edges EXCEPT ![Len(edges)].inputs = Append(@, n)]
  BY DEF AddInput
<1>2. /\ LegalInv /\ RulesInv /\ StatementRead /\ k # 0 /\ k \in Nat
      /\ Len(lines) \in Nat /\ Len(lines) # 0 /\ Passed = Len(lines) - 1
      /\ lines[Len(lines)] = statement /\ statement.kind = "build"
  BY <1>1, StatementLine
<1>3. /\ Len(edges') = k
      /\ \A e \in 1..k \ {k} : edges'[e] = edges[e]
      /\ edges'[k] = [rule |-> edges[k].rule, outputs |-> edges[k].outputs,
                      inputs |-> Append(edges[k].inputs, n)]
  BY <1>1, <1>2, InputShape DEF IInv
<1>4. ins \in Seq(Path) /\ next \in 1..Len(ins)
  BY <1>1, StatementFiles DEF IInv, StatementInv
<1>5. edges'[k] = [rule |-> statement.rule, outputs |-> statement.outputs,
                   inputs |-> SubSeq(ins, 1, next)]
  <2>1. /\ edges[k].rule = statement.rule
        /\ edges[k].outputs = statement.outputs
        /\ edges[k].inputs = SubSeq(ins, 1, next - 1)
    BY <1>1, <1>2 DEF StatementRead, Begun
  <2>2. SubSeq(ins, 1, next) = Append(SubSeq(ins, 1, next - 1), n)
    BY <1>4, Beginnings
  <2>. QED BY <1>3, <2>1, <2>2
<1>6. RulesInv'
  BY <1>1, <1>2, SameRules
<1>7. CASE next = Len(ins)
  <2>1. pc' = "line" /\ state' = "Build" /\ Passed' = Len(lines)
    BY <1>1, <1>7 DEF AddInput, LeaveRule, Passed
  <2>2. LegalInv'
    <3>1. \A i \in 1..Len(lines) - 1 : LegalLine(i)
      BY <1>2 DEF LegalInv
    <3>2. LegalLine(Len(lines))
      BY <1>1, StatementLegal
    <3>3. \A i \in 1..Len(lines) : LegalLine(i)
      <4>1. \A i \in 1..Len(lines) : i \in 1..Len(lines) - 1 \/ i = Len(lines)
        BY <1>2
      <4>. QED BY <3>1, <3>2, <4>1
    <3>. QED BY <1>1, <2>1, <3>3, SameLines DEF LegalInv
  <2>3. CurrentInv'
    <3>1. ASSUME NEW h \in 1..Len(lines) PROVE ~Under(Len(lines) + 1, h)'
      <4>1. \/ h = Len(lines)
            \/ Len(lines) \in h + 1..(Len(lines) + 1) - 1
        BY <1>2
      <4>. QED BY <1>1, <1>2, <4>1 DEF Under
    <3>. QED BY <1>1, <2>1, <3>1 DEF CurrentInv
  <2>4. EdgesInv'
    <3>1. SubSeq(ins, 1, next) = ins
      BY <1>4, <1>7, Beginnings
    <3>2. edges'[Len(edges)] = [rule |-> statement.rule,
                                outputs |-> statement.outputs,
                                inputs |-> statement.inputs]
      BY <1>5, <3>1
    <3>. QED BY <1>1, <1>3, <2>1, <3>2, EdgesMeanwhile
  <2>. QED BY <1>6, <2>1, <2>2, <2>3, <2>4 DEF MeaningInv, StatementRead
<1>8. CASE next # Len(ins)
  <2>1. pc' = "inputs" /\ next' = next + 1 /\ UNCHANGED statement
    BY <1>1, <1>8 DEF AddInput
  <2>2. Passed' = Passed
    BY <1>1, <2>1 DEF Passed
  <2>3. LegalInv'
    BY <1>1, <1>2, <2>2, SameLines DEF LegalInv
  <2>4. EdgesInv'
    BY <1>1, <1>3, <2>2, EdgesMeanwhile
  <2>5. StatementRead'
    <3>1. (next + 1) - 1 = next
      BY <1>4
    <3>2. Begun(statement.inputs)' = SubSeq(ins, 1, next)
      BY <2>1, <3>1 DEF Begun
    <3>3. Said(statement.rule, "command", Len(lines))' # {}
      BY <1>1, <1>2, <2>1 DEF StatementRead, Said, Under
    <3>4. edges'[Len(edges')] = [rule |-> statement.rule,
                                 outputs |-> statement.outputs,
                                 inputs |-> SubSeq(ins, 1, next)]
      BY <1>3, <1>5
    <3>. QED BY <1>1, <1>2, <2>1, <3>2, <3>3, <3>4 DEF StatementRead
  <2>. QED BY <1>6, <2>1, <2>3, <2>4, <2>5 DEF MeaningInv, CurrentInv
<1>. QED BY <1>7, <1>8

LEMMA MeaningKept == IInv /\ MeaningInv /\ [Next]_vars => MeaningInv'
<1>. SUFFICES ASSUME IInv, MeaningInv, [Next]_vars PROVE MeaningInv'
  OBVIOUS
<1>1. ASSUME ParseLine PROVE MeaningInv'
  <2>1. PICK s \in Statement :
          \/ SkipLine(s) \/ UnknownStatement(s)
          \/ DeclareRule(s) \/ SetCommand(s) \/ SetDepfile(s) \/ BeginBuild(s)
    BY <1>1 DEF ParseLine
  <2>2. Read(s)
    BY <2>1 DEF SkipLine, UnknownStatement, DeclareRule, SetCommand,
                SetDepfile, BeginBuild
  <2>3. CASE BeginBuild(s)
    <3>1. CASE WellFormed(s) /\ HasCommand(s)
      BY <2>3, <3>1, BeginMeans
    <3>2. CASE ~(WellFormed(s) /\ HasCommand(s))
      BY <2>2, <2>3, <3>2, RefusedLine
    <3>. QED BY <3>1, <3>2
  <2>4. CASE SkipLine(s)
    BY <2>2, <2>4, LineMeans
  <2>5. CASE UnknownStatement(s)
    BY <2>2, <2>5, RefusedLine
  <2>6. CASE DeclareRule(s)
    BY <2>2, <2>6, LineMeans, RefusedLine
  <2>7. CASE SetCommand(s)
    BY <2>2, <2>7, LineMeans, RefusedLine
  <2>8. CASE SetDepfile(s)
    BY <2>2, <2>8, LineMeans, RefusedLine
  <2>. QED BY <2>1, <2>3, <2>4, <2>5, <2>6, <2>7, <2>8
<1>2. CASE OpenFile
  BY <1>2, OpenMeans
<1>3. CASE AddOutput
  BY <1>3, OutputMeans
<1>4. CASE AddInput
  BY <1>4, InputMeans
<1>5. CASE EndOfFile \/ UNCHANGED vars
  BY <1>5, EndMeans
<1>. QED BY <1>1, <1>2, <1>3, <1>4, <1>5 DEF Next

LEMMA MeaningHolds == Spec => []MeaningInv
BY Inductive, MeaningBegins, MeaningKept, PTL DEF Spec

(* Whatever files are parsed, one after the other by the same parser, one  *)
(* is accepted exactly when each of its lines is legal where it stands,    *)
(* and the manifest is then the one that its lines describe.               *)
THEOREM Faithful == Spec => []ParsesFaithfully
<1>1. IInv /\ MeaningInv => ParsesFaithfully
  <2>. SUFFICES ASSUME IInv, MeaningInv PROVE ParsesFaithfully
    OBVIOUS
  <2>1. AcceptsTheLegal
    BY DEF AcceptsTheLegal, MeaningInv, LegalInv, Passed
  <2>2. ASSUME pc = "accepted"
        PROVE  /\ EdgesInv /\ RulesInv /\ Passed = Len(lines)
               /\ rules \subseteq Name
    BY <2>2 DEF MeaningInv, Passed, IInv, TypeOK
  <2>3. GraphIsTheManifest
    <3>. SUFFICES ASSUME pc = "accepted" PROVE GraphIsTheManifest
      BY DEF GraphIsTheManifest
    <3>1. \A r \in rules : /\ SaysLast(r, "command", command[r])
                           /\ SaysLast(r, "depfile", depfile[r])
      BY <2>2 DEF RulesInv
    <3>. QED BY <2>2, <3>1 DEF GraphIsTheManifest, EdgesInv
  <2>. QED BY <2>1, <2>3 DEF ParsesFaithfully
<1>. QED BY <1>1, Inductive, MeaningHolds, PTL

-----------------------------------------------------------------------------
(* The texts of an edge.                                                   *)

LEMMA Pieces ==
  /\ "space" \in Piece /\ "newline" \in Piece /\ "return" \in Piece
  /\ "backslash" \in Piece /\ "colon" \in Piece
BY SpellingAssumption DEF Blank

(* A backslash and the end of a line, of either kind, from i on.           *)
ShortEnd(text, i) ==
  i + 1 <= Len(text) /\ text[i] = "backslash" /\ text[i + 1] = "newline"
LongEnd(text, i) ==
  /\ i + 2 <= Len(text) /\ text[i] = "backslash" /\ text[i + 1] = "return"
  /\ text[i + 2] = "newline"

LEMMA ContinuationIs ==
  ASSUME NEW text \in Seq(Piece), NEW i \in 1..Len(text)
  PROVE  Continuation(text, i) = IF ShortEnd(text, i) THEN 2
                                 ELSE IF LongEnd(text, i) THEN 3 ELSE 0
<1>1. Len(text) \in Nat /\ DOMAIN text = 1..Len(text)
  BY LenProperties
<1>2. StartsWith(text, i, <<"backslash", "newline">>) <=> ShortEnd(text, i)
  <2>. DEFINE p == <<"backslash", "newline">>
  <2>1. DOMAIN p = {1, 2} /\ p[1] = "backslash" /\ p[2] = "newline"
    OBVIOUS
  <2>. HIDE DEF p
  <2>2. StartsWith(text, i, p) <=> ShortEnd(text, i)
    BY <1>1, <2>1 DEF StartsWith, ShortEnd
  <2>. QED BY <2>2 DEF p
<1>3. StartsWith(text, i, <<"backslash", "return", "newline">>)
        <=> LongEnd(text, i)
  <2>. DEFINE p == <<"backslash", "return", "newline">>
  <2>1. /\ DOMAIN p = {1, 2, 3}
        /\ p[1] = "backslash" /\ p[2] = "return" /\ p[3] = "newline"
    OBVIOUS
  <2>. HIDE DEF p
  <2>2. StartsWith(text, i, p) <=> LongEnd(text, i)
    BY <1>1, <2>1 DEF StartsWith, LongEnd
  <2>. QED BY <2>2 DEF p
<1>4. ~(ShortEnd(text, i) /\ LongEnd(text, i))
  BY DEF ShortEnd, LongEnd
<1>5. CASE ShortEnd(text, i)
  BY <1>2, <1>3, <1>4, <1>5 DEF Continuation
<1>6. CASE LongEnd(text, i)
  BY <1>2, <1>3, <1>4, <1>6 DEF Continuation
<1>7. CASE ~ShortEnd(text, i) /\ ~LongEnd(text, i)
  BY <1>2, <1>3, <1>7 DEF Continuation
<1>. QED BY <1>4, <1>5, <1>6, <1>7

(* Every backslash continues a line.                                       *)
Whole(text) ==
  \A i \in 1..Len(text) :
    text[i] = "backslash" => ShortEnd(text, i) \/ LongEnd(text, i)

LEMMA WholeConcat ==
  ASSUME NEW a \in Seq(Piece), NEW b \in Seq(Piece), Whole(a)
  PROVE  /\ a \o b \in Seq(Piece) /\ Len(a \o b) = Len(a) + Len(b)
         /\ \A i \in 1..Len(a) : (a \o b)[i] = a[i]
         /\ \A i \in 1..Len(b) : (a \o b)[Len(a) + i] = b[i]
         /\ Whole(b) => Whole(a \o b)
         /\ \A i \in 1..Len(a) :
              /\ Continuation(a \o b, i) = Continuation(a, i)
              /\ i + Continuation(a, i) <= Len(a) + 1
         /\ \A i \in 1..Len(b) :
              Continuation(a \o b, Len(a) + i) = Continuation(b, i)
<1>. DEFINE c == a \o b
<1>1. /\ Len(a) \in Nat /\ Len(b) \in Nat
      /\ c \in Seq(Piece) /\ Len(c) = Len(a) + Len(b)
  BY ConcatParts
<1>2. \A i \in 1..Len(a) : c[i] = a[i]
  BY ConcatParts
<1>3. \A i \in 1..Len(b) : c[Len(a) + i] = b[i]
  BY ConcatParts
<1>. HIDE DEF c
<1>4. ASSUME NEW i \in 1..Len(a)
      PROVE  /\ ShortEnd(c, i) <=> ShortEnd(a, i)
             /\ LongEnd(c, i) <=> LongEnd(a, i)
  <2>1. i + 1 <= Len(a) => c[i + 1] = a[i + 1]
    BY <1>1, <1>2
  <2>2. i + 2 <= Len(a) => c[i + 2] = a[i + 2]
    BY <1>1, <1>2
  <2>3. CASE a[i] = "backslash"
    <3>1. ShortEnd(a, i) \/ LongEnd(a, i)
      BY <2>3 DEF Whole
    <3>. QED BY <1>1, <1>2, <2>1, <2>2, <2>3, <3>1 DEF ShortEnd, LongEnd
  <2>4. CASE a[i] # "backslash"
    BY <1>1, <1>2, <2>4 DEF ShortEnd, LongEnd
  <2>. QED BY <2>3, <2>4
<1>5. ASSUME NEW i \in 1..Len(b)
      PROVE  /\ ShortEnd(c, Len(a) + i) <=> ShortEnd(b, i)
             /\ LongEnd(c, Len(a) + i) <=> LongEnd(b, i)
  <2>1. /\ c[Len(a) + i] = b[i]
        /\ i + 1 <= Len(b) => c[Len(a) + i + 1] = b[i + 1]
        /\ i + 2 <= Len(b) => c[Len(a) + i + 2] = b[i + 2]
    <3>1. /\ Len(a) + i + 1 = Len(a) + (i + 1)
          /\ Len(a) + i + 2 = Len(a) + (i + 2)
          /\ i + 1 <= Len(b) => i + 1 \in 1..Len(b)
          /\ i + 2 <= Len(b) => i + 2 \in 1..Len(b)
      BY <1>1
    <3>. QED BY <1>3, <3>1
  <2>. QED BY <1>1, <2>1 DEF ShortEnd, LongEnd
<1>6. ASSUME NEW i \in 1..Len(a)
      PROVE  /\ Continuation(c, i) = Continuation(a, i)
             /\ i + Continuation(a, i) <= Len(a) + 1
  <2>1. i \in 1..Len(c)
    BY <1>1
  <2>2. Continuation(c, i) = Continuation(a, i)
    BY <1>1, <1>4, <2>1, ContinuationIs
  <2>3. i + Continuation(a, i) <= Len(a) + 1
    <3>1. CASE ShortEnd(a, i)
      BY <1>1, <3>1, ContinuationIs DEF ShortEnd
    <3>2. CASE ~ShortEnd(a, i) /\ LongEnd(a, i)
      BY <1>1, <3>2, ContinuationIs DEF LongEnd
    <3>3. CASE ~ShortEnd(a, i) /\ ~LongEnd(a, i)
      BY <1>1, <3>3, ContinuationIs
    <3>. QED BY <3>1, <3>2, <3>3
  <2>. QED BY <2>2, <2>3
<1>7. ASSUME NEW i \in 1..Len(b)
      PROVE  Continuation(c, Len(a) + i) = Continuation(b, i)
  <2>1. Len(a) + i \in 1..Len(c)
    BY <1>1
  <2>. QED BY <1>1, <1>5, <2>1, ContinuationIs
<1>8. ASSUME Whole(b) PROVE Whole(c)
  <2>. SUFFICES ASSUME NEW i \in 1..Len(c), c[i] = "backslash"
                PROVE  ShortEnd(c, i) \/ LongEnd(c, i)
    BY DEF Whole
  <2>1. CASE i <= Len(a)
    <3>1. i \in 1..Len(a)
      BY <1>1, <2>1
    <3>. QED BY <1>2, <1>4, <3>1 DEF Whole
  <2>2. CASE ~(i <= Len(a))
    <3>1. PICK j \in 1..Len(b) : i = Len(a) + j
      <4>1. i - Len(a) \in 1..Len(b) /\ i = Len(a) + (i - Len(a))
        BY <1>1, <2>2
      <4>. QED BY <4>1
    <3>. QED BY <1>3, <1>5, <1>8, <3>1 DEF Whole
  <2>. QED BY <2>1, <2>2
<1>. QED BY <1>1, <1>2, <1>3, <1>6, <1>7, <1>8 DEF c

(* What Normalized leaves of the i-th piece.                               *)
Left(text, i) == IF Skipped(text, i) THEN <<>>
                 ELSE IF Continuation(text, i) > 0 THEN Space
                 ELSE <<text[i]>>

LEMMA LeftTyped ==
  ASSUME NEW text \in Seq(Piece)
  PROVE  /\ [i \in 1..Len(text) |-> Left(text, i)] \in Seq(Seq(Piece))
         /\ Normalized(text) \in Seq(Piece)
         /\ Normalized(text) =
              FlattenSeq([i \in 1..Len(text) |-> Left(text, i)])
<1>1. ASSUME NEW i \in 1..Len(text) PROVE Left(text, i) \in Seq(Piece)
  <2>1. text[i] \in Piece
    BY ElementOfSeq
  <2>2. <<text[i]>> \in Seq(Piece)
    BY <2>1
  <2>3. Space \in Seq(Piece)
    <3>1. "space" \in Piece
      BY Pieces
    <3>. QED BY <3>1 DEF Space
  <2>4. <<>> \in Seq(Piece)
    OBVIOUS
  <2>. QED BY <2>2, <2>3, <2>4 DEF Left
<1>2. Len(text) \in Nat
  BY LenProperties
<1>3. [i \in 1..Len(text) |-> Left(text, i)] \in Seq(Seq(Piece))
  BY <1>1, <1>2, IsASeq
<1>4. Normalized(text) = FlattenSeq([i \in 1..Len(text) |-> Left(text, i)])
  BY DEF Normalized, Left
<1>. QED BY <1>3, <1>4, FlattenTyped

LEMMA NormalizedConcat ==
  ASSUME NEW a \in Seq(Piece), NEW b \in Seq(Piece), Whole(a)
  PROVE  Normalized(a \o b) = Normalized(a) \o Normalized(b)
<1>. DEFINE c == a \o b
            la == [i \in 1..Len(a) |-> Left(a, i)]
            lb == [i \in 1..Len(b) |-> Left(b, i)]
            lc == [i \in 1..Len(c) |-> Left(c, i)]
<1>1. /\ Len(a) \in Nat /\ Len(b) \in Nat
      /\ c \in Seq(Piece) /\ Len(c) = Len(a) + Len(b)
      /\ \A i \in 1..Len(a) : i \in 1..Len(c) /\ c[i] = a[i]
      /\ \A i \in 1..Len(b) : Len(a) + i \in 1..Len(c) /\ c[Len(a) + i] = b[i]
  BY ConcatParts
<1>2. /\ \A i \in 1..Len(a) : /\ Continuation(c, i) = Continuation(a, i)
                              /\ i + Continuation(a, i) <= Len(a) + 1
      /\ \A i \in 1..Len(b) : Continuation(c, Len(a) + i) = Continuation(b, i)
  BY WholeConcat
<1>. HIDE DEF c
<1>3. ASSUME NEW i \in 1..Len(a) PROVE Left(c, i) = Left(a, i)
  <2>1. Skipped(c, i) <=> Skipped(a, i)
    <3>1. \A j \in 1..i - 1 : j \in 1..Len(a)
      BY <1>1
    <3>. QED BY <1>2, <3>1 DEF Skipped
  <2>. QED BY <1>1, <1>2, <2>1 DEF Left
<1>4. ASSUME NEW i \in 1..Len(b) PROVE Left(c, Len(a) + i) = Left(b, i)
  <2>1. ASSUME NEW j \in 1..Len(a) + i - 1,
               Len(a) + i < j + Continuation(c, j)
        PROVE  Skipped(b, i)
    <3>1. ~(j <= Len(a))
      <4>1. SUFFICES ASSUME j <= Len(a) PROVE FALSE
        OBVIOUS
      <4>2. j \in 1..Len(a)
        BY <1>1, <4>1
      <4>3. Continuation(c, j) = Continuation(a, j)
            /\ j + Continuation(c, j) <= Len(a) + 1
        BY <1>2, <4>2
      <4>4. Continuation(c, j) \in Nat
        <5>1. Continuation(a, j) \in Nat
          BY <4>2, ContinuationIs
        <5>. QED BY <4>3, <5>1
      <4>. QED BY <1>1, <2>1, <4>3, <4>4
    <3>. DEFINE k == j - Len(a)
    <3>2. k \in 1..i - 1 /\ k \in 1..Len(b) /\ j = Len(a) + k
      BY <1>1, <3>1
    <3>3. Continuation(c, j) = Continuation(b, k)
      BY <1>2, <3>2
    <3>4. Continuation(b, k) \in Nat
      BY <3>2, ContinuationIs
    <3>. HIDE DEF k
    <3>5. i < k + Continuation(b, k)
      BY <1>1, <2>1, <3>2, <3>3, <3>4
    <3>. QED BY <3>2, <3>5 DEF Skipped
  <2>2. ASSUME NEW k \in 1..i - 1, i < k + Continuation(b, k)
        PROVE  Skipped(c, Len(a) + i)
    <3>1. k \in 1..Len(b) /\ Len(a) + k \in 1..Len(a) + i - 1
      BY <1>1
    <3>2. Continuation(c, Len(a) + k) = Continuation(b, k)
      BY <1>2, <3>1
    <3>3. Continuation(b, k) \in Nat
      BY <3>1, ContinuationIs
    <3>4. Len(a) + i < Len(a) + k + Continuation(b, k)
      BY <1>1, <2>2, <3>3
    <3>. QED BY <3>1, <3>2, <3>4 DEF Skipped
  <2>3. Skipped(c, Len(a) + i) <=> Skipped(b, i)
    BY <2>1, <2>2 DEF Skipped
  <2>. QED BY <1>1, <1>2, <2>3 DEF Left
<1>5. /\ la \in Seq(Seq(Piece)) /\ lb \in Seq(Seq(Piece))
      /\ lc \in Seq(Seq(Piece))
  BY <1>1, LeftTyped
<1>6. /\ FlattenSeq(la) = Normalized(a) /\ FlattenSeq(lb) = Normalized(b)
      /\ FlattenSeq(lc) = Normalized(c)
  BY <1>1, LeftTyped
<1>7. /\ Len(la) = Len(a) /\ \A i \in 1..Len(a) : la[i] = Left(a, i)
      /\ Len(lb) = Len(b) /\ \A i \in 1..Len(b) : lb[i] = Left(b, i)
      /\ Len(lc) = Len(c) /\ \A i \in 1..Len(c) : lc[i] = Left(c, i)
  BY <1>1
<1>. HIDE DEF la, lb, lc
<1>8. /\ Len(lc) = Len(la) + Len(lb)
      /\ \A i \in 1..Len(la) : lc[i] = la[i]
      /\ \A i \in 1..Len(lb) : lc[Len(la) + i] = lb[i]
  BY <1>1, <1>3, <1>4, <1>7
<1>9. lc = la \o lb
  BY <1>5, <1>8, IsConcat
<1>10. FlattenSeq(la \o lb) = FlattenSeq(la) \o FlattenSeq(lb)
  BY <1>5, FlattenConcat
<1>. QED BY <1>6, <1>9, <1>10 DEF c

(* Without a backslash, nothing changes.                                   *)
LEMMA NormalizedPlain ==
  ASSUME NEW text \in Seq(Piece), "backslash" \notin Range(text)
  PROVE  Whole(text) /\ Normalized(text) = text
<1>1. /\ Len(text) \in Nat
      /\ \A i \in 1..Len(text) : text[i] \in Piece /\ text[i] # "backslash"
  BY LenProperties, ElementOfSeq DEF Range
<1>2. \A i \in 1..Len(text) : Continuation(text, i) = 0
  BY <1>1, ContinuationIs DEF ShortEnd, LongEnd
<1>3. ASSUME NEW i \in 1..Len(text) PROVE Left(text, i) = <<text[i]>>
  <2>1. \A j \in 1..i - 1 : j \in 1..Len(text) /\ ~(i < j)
    BY <1>1
  <2>2. ~Skipped(text, i)
    BY <1>2, <2>1 DEF Skipped
  <2>. QED BY <1>2, <2>2 DEF Left
<1>. DEFINE h == [x \in Piece |-> <<x>>]
<1>4. [i \in 1..Len(text) |-> Left(text, i)] =
        [i \in 1..Len(text) |-> h[text[i]]]
  BY <1>1, <1>3
<1>5. Normalized(text) = Rewrite(h, text)
  BY <1>4, LeftTyped DEF Rewrite
<1>6. Rewrites(h, Piece)
  BY DEF Rewrites
<1>7. \A x \in Range(text) : h[x] = <<x>>
  <2>1. \A x \in Range(text) : x \in Piece
    BY <1>1, LenProperties DEF Range
  <2>. QED BY <2>1
<1>. HIDE DEF h
<1>8. Rewrite(h, text) = text
  BY <1>6, <1>7, RewriteUntouched
<1>. QED BY <1>1, <1>5, <1>8 DEF Whole

(* What is a blank, or goes with a continuation, leaves blanks.            *)
LEMMA NormalizedToBlanks ==
  ASSUME NEW text \in Seq(Piece),
         \A i \in 1..Len(text) : \/ text[i] = "space"
                                 \/ Continuation(text, i) > 0
                                 \/ Skipped(text, i)
  PROVE  Normalized(text) \in Seq({"space"})
<1>1. ASSUME NEW i \in 1..Len(text) PROVE Left(text, i) \in Seq({"space"})
  <2>1. Left(text, i) = <<>> \/ Left(text, i) = <<"space">>
    BY DEF Left, Space
  <2>2. <<>> \in Seq({"space"}) /\ <<"space">> \in Seq({"space"})
    OBVIOUS
  <2>. QED BY <2>1, <2>2
<1>2. Len(text) \in Nat
  BY LenProperties
<1>3. [i \in 1..Len(text) |-> Left(text, i)] \in Seq(Seq({"space"}))
  BY <1>1, <1>2, IsASeq
<1>. QED BY <1>3, LeftTyped, FlattenTyped

(* What is put between two paths becomes nothing but blanks.               *)
LEMMA NormalizedBlanks ==
  ASSUME NEW b \in Blanks
  PROVE  /\ b \in Seq(Piece) /\ Whole(b)
         /\ Normalized(b) \in Seq({"space"}) /\ Normalized(b) # <<>>
<1>. DEFINE Rest == {<<>>, <<"backslash", "newline", "space">>,
                     <<"backslash", "return", "newline", "space">>}
<1>1. \E r \in Rest : b = Space \o r
  <2>1. Space = Space \o <<>>
    BY DEF Space
  <2>2. <<"space", "backslash", "newline", "space">> =
          Space \o <<"backslash", "newline", "space">>
    BY DEF Space
  <2>3. <<"space", "backslash", "return", "newline", "space">> =
          Space \o <<"backslash", "return", "newline", "space">>
    BY DEF Space
  <2>. QED BY <2>1, <2>2, <2>3 DEF Blanks
<1>2. ASSUME NEW r \in Rest
      PROVE  /\ r \in Seq(Piece) /\ Whole(r)
             /\ Normalized(r) \in Seq({"space"})
  <2>1. CASE r = <<>>
    <3>1. r \in Seq(Piece)
      BY <2>1
    <3>2. "backslash" \notin Range(r)
      BY <2>1 DEF Range
    <3>3. Whole(r) /\ Normalized(r) = <<>>
      BY <2>1, <3>1, <3>2, NormalizedPlain
    <3>4. <<>> \in Seq({"space"})
      OBVIOUS
    <3>. QED BY <3>1, <3>3, <3>4
  <2>2. CASE r = <<"backslash", "newline", "space">>
    <3>1. r \in Seq(Piece)
      BY <2>2, Pieces
    <3>2. /\ Len(r) = 3 /\ \A i \in 1..3 : i = 1 \/ i = 2 \/ i = 3
          /\ r[1] = "backslash" /\ r[2] = "newline" /\ r[3] = "space"
      BY <2>2
    <3>3. ShortEnd(r, 1) /\ 1 \in 1..Len(r)
      BY <3>2 DEF ShortEnd
    <3>4. Continuation(r, 1) = 2
      BY <3>1, <3>3, ContinuationIs
    <3>5. Skipped(r, 2)
      BY <3>4 DEF Skipped
    <3>6. Whole(r)
      BY <3>2, <3>3 DEF Whole
    <3>7. Normalized(r) \in Seq({"space"})
      BY <3>1, <3>2, <3>4, <3>5, NormalizedToBlanks
    <3>. QED BY <3>1, <3>6, <3>7
  <2>3. CASE r = <<"backslash", "return", "newline", "space">>
    <3>1. r \in Seq(Piece)
      BY <2>3, Pieces
    <3>2. /\ Len(r) = 4 /\ \A i \in 1..4 : i = 1 \/ i = 2 \/ i = 3 \/ i = 4
          /\ r[1] = "backslash" /\ r[2] = "return" /\ r[3] = "newline"
          /\ r[4] = "space"
      BY <2>3
    <3>3. LongEnd(r, 1) /\ ~ShortEnd(r, 1) /\ 1 \in 1..Len(r)
      BY <3>2 DEF LongEnd, ShortEnd
    <3>4. Continuation(r, 1) = 3
      BY <3>1, <3>3, ContinuationIs
    <3>5. Skipped(r, 2) /\ Skipped(r, 3)
      BY <3>4 DEF Skipped
    <3>6. Whole(r)
      BY <3>2, <3>3 DEF Whole
    <3>7. Normalized(r) \in Seq({"space"})
      BY <3>1, <3>2, <3>4, <3>5, NormalizedToBlanks
    <3>. QED BY <3>1, <3>6, <3>7
  <2>. QED BY <2>1, <2>2, <2>3
<1>3. PICK r \in Rest : b = Space \o r
  BY <1>1
<1>. HIDE DEF Rest
<1>4. /\ r \in Seq(Piece) /\ Whole(r) /\ Normalized(r) \in Seq({"space"})
  BY <1>2
<1>5. /\ Space \in Seq(Piece) /\ "backslash" \notin Range(Space)
      /\ Space \in Seq({"space"})
  <2>1. "space" \in Piece
    BY Pieces
  <2>2. Space \in Seq({"space"}) /\ Space \in Seq(Piece)
    BY <2>1 DEF Space
  <2>3. "backslash" \notin Range(Space)
    BY DEF Space, Range
  <2>. QED BY <2>2, <2>3
<1>6. Whole(Space) /\ Normalized(Space) = Space
  BY <1>5, NormalizedPlain
<1>7. b \in Seq(Piece) /\ Whole(b)
  BY <1>3, <1>4, <1>5, <1>6, WholeConcat
<1>8. Normalized(b) = Space \o Normalized(r)
  BY <1>3, <1>4, <1>5, <1>6, NormalizedConcat
<1>9. Normalized(b) \in Seq({"space"})
  BY <1>4, <1>5, <1>8, ConcatParts
<1>10. Normalized(b) # <<>>
  <2>1. Len(Normalized(b)) = Len(Space) + Len(Normalized(r))
        /\ Len(Normalized(r)) \in Nat
    BY <1>4, <1>5, <1>8, ConcatParts
  <2>2. Len(Space) = 1
    BY DEF Space
  <2>. QED BY <2>1, <2>2, EmptySeq
<1>. QED BY <1>7, <1>9, <1>10

-----------------------------------------------------------------------------
Words == Seq(Seq(Piece))

LEMMA TakingTyped ==
  ASSUME NEW w \in Words, NEW text \in Seq(Piece), NEW i \in 1..Len(text)
  PROVE  Taking(w, text, i) \in Words
<1>1. text[i] \in Piece
  BY ElementOfSeq
<1>2. <<text[i]>> \in Seq(Piece)
  BY <1>1
<1>3. Append(w, <<text[i]>>) \in Words
  BY <1>2, AppendProperties DEF Words
<1>. DEFINE v == [w EXCEPT ![Len(w)] = Append(@, text[i])]
<1>4. v \in Words
  <2>1. /\ Len(w) \in Nat /\ w \in [1..Len(w) -> Seq(Piece)]
        /\ DOMAIN w = 1..Len(w)
    BY LenProperties DEF Words
  <2>2. \A j \in 1..Len(w) : Append(w[j], text[i]) \in Seq(Piece)
    BY <1>1, <2>1, AppendProperties
  <2>3. DOMAIN v = 1..Len(w) /\ v = [j \in 1..Len(w) |-> v[j]]
    BY <2>1
  <2>4. \A j \in 1..Len(w) : v[j] \in Seq(Piece)
    BY <2>1, <2>2
  <2>. HIDE DEF v
  <2>5. [j \in 1..Len(w) |-> v[j]] \in Seq(Seq(Piece))
    BY <2>1, <2>4, IsASeq
  <2>. QED BY <2>3, <2>5 DEF Words
<1>. QED BY <1>3, <1>4 DEF Taking

(* The recursion of WordsOf, up to the k-th piece.                         *)
TakesTo(f, text, k) ==
  f[0] = <<>> /\ \A i \in 1..k : f[i] = Taking(f[i - 1], text, i)

LEMMA TakesExists ==
  ASSUME NEW text \in Seq(Piece)
  PROVE  \A k \in 0..Len(text) : \E f \in [0..k -> Words] : TakesTo(f, text, k)
<1>. DEFINE S == {k \in Nat : k <= Len(text) => \E f \in [0..k -> Words] :
                                                 TakesTo(f, text, k)}
<1>0. Len(text) \in Nat
  BY LenProperties
<1>1. 0 \in S
  <2>. DEFINE f == [i \in 0..0 |-> <<>>]
  <2>1. f \in [0..0 -> Words] /\ f[0] = <<>>
    BY DEF Words
  <2>. HIDE DEF f
  <2>2. TakesTo(f, text, 0)
    BY <2>1 DEF TakesTo
  <2>. QED BY <2>1, <2>2
<1>2. ASSUME NEW k \in S PROVE k + 1 \in S
  <2>. SUFFICES ASSUME k + 1 <= Len(text)
                PROVE  \E f \in [0..k + 1 -> Words] : TakesTo(f, text, k + 1)
    OBVIOUS
  <2>1. PICK f \in [0..k -> Words] : TakesTo(f, text, k)
    BY <1>0
  <2>2. k \in Nat /\ k + 1 \in 1..Len(text)
    BY <1>0
  <2>. DEFINE last == Taking(f[k], text, k + 1)
              g == [i \in 0..k + 1 |-> IF i = k + 1 THEN last ELSE f[i]]
  <2>3. last \in Words
    <3>1. f[k] \in Words
      BY <2>2
    <3>. QED BY <2>2, <3>1, TakingTyped
  <2>. HIDE DEF last
  <2>4. g \in [0..k + 1 -> Words]
    BY <2>2, <2>3
  <2>5. g[k + 1] = last /\ \A i \in 0..k : g[i] = f[i]
    BY <2>2
  <2>. HIDE DEF g
  <2>6. TakesTo(g, text, k + 1)
    <3>1. g[k + 1] = Taking(g[k], text, k + 1)
      <4>1. g[k] = f[k]
        BY <2>2, <2>5
      <4>. QED BY <2>5, <4>1 DEF last
    <3>2. ASSUME NEW i \in 1..k PROVE g[i] = Taking(g[i - 1], text, i)
      <4>1. g[i] = f[i] /\ g[i - 1] = f[i - 1]
        <5>1. i \in 0..k /\ i - 1 \in 0..k
          BY <2>2
        <5>. QED BY <2>5, <5>1
      <4>. QED BY <2>1, <4>1 DEF TakesTo
    <3>3. \A i \in 1..k + 1 : i = k + 1 \/ i \in 1..k
      BY <2>2
    <3>4. (k + 1) - 1 = k /\ 0 \in 0..k
      BY <2>2
    <3>5. g[0] = <<>>
      BY <2>1, <2>5, <3>4 DEF TakesTo
    <3>. QED BY <3>1, <3>2, <3>3, <3>4, <3>5 DEF TakesTo
  <2>. QED BY <2>4, <2>6
<1>3. S \in SUBSET Nat
  OBVIOUS
<1>. HIDE DEF S
<1>4. S = Nat
  BY <1>1, <1>2, <1>3, Induction
<1>5. \A k \in 0..Len(text) : k \in S /\ k <= Len(text)
  BY <1>0, <1>4
<1>. QED BY <1>5 DEF S

(* Texts that agree have the same words.                                   *)
LEMMA TakesUnique ==
  ASSUME NEW n \in Nat, NEW s, NEW t, NEW f, NEW g,
         TakesTo(f, s, n), TakesTo(g, t, n), \A i \in 1..n : s[i] = t[i]
  PROVE  \A i \in 0..n : f[i] = g[i]
<1>. DEFINE S == {k \in Nat : k <= n => f[k] = g[k]}
<1>1. 0 \in S
  BY DEF TakesTo
<1>2. ASSUME NEW k \in S PROVE k + 1 \in S
  <2>. SUFFICES ASSUME k + 1 <= n PROVE f[k + 1] = g[k + 1]
    OBVIOUS
  <2>1. k + 1 \in 1..n /\ (k + 1) - 1 = k /\ (k + 1 = 1 \/ k \in 1..n)
    OBVIOUS
  <2>2. f[k] = g[k]
    BY <2>1
  <2>3. /\ f[k + 1] = Taking(f[k], s, k + 1)
        /\ g[k + 1] = Taking(g[k], t, k + 1)
    BY <2>1 DEF TakesTo
  <2>4. Taking(f[k], s, k + 1) = Taking(f[k], t, k + 1)
    BY <2>1 DEF Taking
  <2>. QED BY <2>2, <2>3, <2>4
<1>3. S \in SUBSET Nat
  OBVIOUS
<1>. HIDE DEF S
<1>4. S = Nat
  BY <1>1, <1>2, <1>3, Induction
<1>5. \A i \in 0..n : i \in S /\ i <= n
  BY <1>4
<1>. QED BY <1>5 DEF S

LEMMA WordsValue ==
  ASSUME NEW text \in Seq(Piece)
  PROVE  \E f \in [0..Len(text) -> Words] :
           TakesTo(f, text, Len(text)) /\ WordsOf(text) = f[Len(text)]
<1>0. Len(text) \in Nat /\ Len(text) \in 0..Len(text)
  BY LenProperties
<1>. DEFINE Eqn(f) == f = [i \in 0..Len(text) |->
                        IF i = 0 THEN <<>> ELSE Taking(f[i - 1], text, i)]
            upto == CHOOSE f : Eqn(f)
<1>1. PICK f \in [0..Len(text) -> Words] : TakesTo(f, text, Len(text))
  BY <1>0, TakesExists
<1>2. Eqn(f)
  <2>1. \A i \in 0..Len(text) :
          f[i] = IF i = 0 THEN <<>> ELSE Taking(f[i - 1], text, i)
    BY <1>0, <1>1 DEF TakesTo
  <2>. QED BY <2>1
<1>3. WordsOf(text) = upto[Len(text)]
  BY Zenon DEF WordsOf
<1>. HIDE DEF upto
<1>4. Eqn(upto)
  BY <1>2, Zenon DEF upto
<1>5. TakesTo(upto, text, Len(text))
  <2>1. \A i \in 0..Len(text) :
          upto[i] = IF i = 0 THEN <<>> ELSE Taking(upto[i - 1], text, i)
    BY <1>4, Zenon
  <2>2. 0 \in 0..Len(text) /\ \A i \in 1..Len(text) :
                                i \in 0..Len(text) /\ i # 0
    BY <1>0
  <2>. QED BY <2>1, <2>2 DEF TakesTo
<1>6. upto \in [0..Len(text) -> Words]
  <2>1. \A i \in 0..Len(text) : upto[i] = f[i]
    BY <1>0, <1>1, <1>5, TakesUnique
  <2>2. DOMAIN upto = 0..Len(text)
    BY <1>4
  <2>3. upto = [i \in DOMAIN upto |-> upto[i]]
    BY <1>4
  <2>. QED BY <2>1, <2>2, <2>3
<1>. QED BY <1>3, <1>5, <1>6

(* One more piece.                                                         *)
LEMMA WordsSteps ==
  /\ WordsOf(<<>>) = <<>>
  /\ \A t \in Seq(Piece) : WordsOf(t) \in Words
  /\ \A t \in Seq(Piece), x \in Piece :
       WordsOf(Append(t, x)) = Taking(WordsOf(t), Append(t, x), Len(t) + 1)
<1>1. ASSUME NEW t \in Seq(Piece) PROVE WordsOf(t) \in Words
  <2>1. PICK f \in [0..Len(t) -> Words] : WordsOf(t) = f[Len(t)]
    BY WordsValue
  <2>2. Len(t) \in 0..Len(t)
    BY LenProperties
  <2>. QED BY <2>1, <2>2
<1>2. WordsOf(<<>>) = <<>>
  <2>1. PICK f \in [0..Len(<<>>) -> Words] :
          TakesTo(f, <<>>, Len(<<>>)) /\ WordsOf(<<>>) = f[Len(<<>>)]
    <3>1. <<>> \in Seq(Piece)
      OBVIOUS
    <3>. QED BY <3>1, WordsValue
  <2>. QED BY <2>1 DEF TakesTo
<1>3. ASSUME NEW t \in Seq(Piece), NEW x \in Piece
      PROVE  WordsOf(Append(t, x)) =
               Taking(WordsOf(t), Append(t, x), Len(t) + 1)
  <2>. DEFINE n == Len(t)  u == Append(t, x)
  <2>1. /\ n \in Nat /\ u \in Seq(Piece) /\ Len(u) = n + 1
        /\ \A i \in 1..n : t[i] = u[i]
    BY LenProperties, AppendProperties
  <2>. HIDE DEF u, n
  <2>2. PICK f : TakesTo(f, t, n) /\ WordsOf(t) = f[n]
    BY WordsValue DEF n
  <2>3. PICK g : TakesTo(g, u, n + 1) /\ WordsOf(u) = g[n + 1]
    BY <2>1, WordsValue
  <2>4. n + 1 \in 1..n + 1 /\ (n + 1) - 1 = n /\ n \in 0..n
        /\ \A i \in 1..n : i \in 1..n + 1
    BY <2>1
  <2>5. TakesTo(g, u, n)
    BY <2>3, <2>4 DEF TakesTo
  <2>6. f[n] = g[n]
    BY <2>1, <2>2, <2>4, <2>5, TakesUnique
  <2>7. g[n + 1] = Taking(g[n], u, n + 1)
    BY <2>3, <2>4 DEF TakesTo
  <2>. QED BY <2>2, <2>3, <2>6, <2>7 DEF u, n
<1>. QED BY <1>1, <1>2, <1>3

LEMMA WordsBlank ==
  ASSUME NEW t \in Seq(Piece), NEW x \in Blank
  PROVE  WordsOf(Append(t, x)) = WordsOf(t)
<1>1. x \in Piece /\ Append(t, x)[Len(t) + 1] = x
  BY SpellingAssumption, AppendProperties
<1>2. WordsOf(Append(t, x)) = Taking(WordsOf(t), Append(t, x), Len(t) + 1)
  BY <1>1, WordsSteps
<1>. QED BY <1>1, <1>2 DEF Taking

(* Blanks add no word.                                                     *)
LEMMA WordsBlanks ==
  ASSUME NEW t \in Seq(Piece), NEW b \in Seq(Blank)
  PROVE  t \o b \in Seq(Piece) /\ WordsOf(t \o b) = WordsOf(t)
<1>. DEFINE T == {u \in Seq(Blank) : /\ t \o u \in Seq(Piece)
                                     /\ WordsOf(t \o u) = WordsOf(t)}
<1>0. \A u \in Seq(Blank) : u \in Seq(Piece)
  BY SpellingAssumption
<1>1. <<>> \in T
  BY ConcatEmptySeq
<1>2. ASSUME NEW u \in T, NEW x \in Blank PROVE Append(u, x) \in T
  <2>1. /\ u \in Seq(Blank) /\ u \in Seq(Piece) /\ t \o u \in Seq(Piece)
        /\ WordsOf(t \o u) = WordsOf(t) /\ x \in Piece
    BY <1>0, SpellingAssumption
  <2>. HIDE DEF T
  <2>2. Append(u, x) \in Seq(Blank) /\ Append(u, x) \in Seq(Piece)
    BY <2>1, AppendProperties
  <2>3. t \o Append(u, x) = Append(t \o u, x)
    BY <2>1, ConcatThenAppend
  <2>4. Append(t \o u, x) \in Seq(Piece)
    BY <2>1, AppendProperties
  <2>5. WordsOf(Append(t \o u, x)) = WordsOf(t \o u)
    BY <2>1, WordsBlank
  <2>. QED BY <2>1, <2>2, <2>3, <2>4, <2>5 DEF T
<1>3. T \in SUBSET Seq(Blank)
  OBVIOUS
<1>. HIDE DEF T
<1>4. T = Seq(Blank)
  BY <1>1, <1>2, <1>3, InductionOnSequences
<1>. QED BY <1>4 DEF T

(* A word behind a blank, or at the beginning, is one more word.           *)
LEMMA WordsWord ==
  ASSUME NEW t \in Seq(Piece), t = <<>> \/ t[Len(t)] \in Blank,
         NEW w \in Seq(Piece \ Blank), w # <<>>
  PROVE  /\ t \o w \in Seq(Piece)
         /\ WordsOf(t \o w) = Append(WordsOf(t), w)
<1>. DEFINE T == {u \in Seq(Piece \ Blank) :
                    u # <<>> => /\ t \o u \in Seq(Piece)
                                /\ WordsOf(t \o u) = Append(WordsOf(t), u)}
<1>0. \A u \in Seq(Piece \ Blank) : u \in Seq(Piece)
  OBVIOUS
<1>1. <<>> \in T
  OBVIOUS
<1>2. ASSUME NEW u \in T, NEW x \in Piece \ Blank PROVE Append(u, x) \in T
  <2>1. u \in Seq(Piece \ Blank) /\ u \in Seq(Piece) /\ x \in Piece
    BY <1>0
  <2>2. u # <<>> => WordsOf(t \o u) = Append(WordsOf(t), u)
    OBVIOUS
  <2>. DEFINE c == t \o u  n == Len(t \o u)
  <2>3. Append(u, x) \in Seq(Piece \ Blank) /\ Append(u, x) \in Seq(Piece)
    BY <2>1, AppendProperties
  <2>. HIDE DEF T
  <2>4. t \o Append(u, x) = Append(c, x)
    BY <2>1, ConcatThenAppend
  <2>5. /\ c \in Seq(Piece) /\ n \in Nat /\ n = Len(t) + Len(u)
        /\ Len(t) \in Nat /\ Len(u) \in Nat
        /\ \A i \in 1..Len(u) : c[Len(t) + i] = u[i]
        /\ Append(c, x) \in Seq(Piece)
        /\ \A i \in 1..n : Append(c, x)[i] = c[i]
        /\ Append(c, x)[n + 1] = x
    <3>1. /\ c \in Seq(Piece) /\ n = Len(t) + Len(u)
          /\ Len(t) \in Nat /\ Len(u) \in Nat
          /\ \A i \in 1..Len(u) : c[Len(t) + i] = u[i]
      BY <2>1, ConcatParts
    <3>. HIDE DEF c
    <3>2. /\ Append(c, x) \in Seq(Piece)
          /\ \A i \in 1..Len(c) : Append(c, x)[i] = c[i]
          /\ Append(c, x)[Len(c) + 1] = x
      BY <2>1, <3>1, AppendProperties
    <3>. QED BY <3>1, <3>2 DEF c
  <2>6. WordsOf(Append(c, x)) = Taking(WordsOf(c), Append(c, x), n + 1)
    BY <2>1, <2>5, WordsSteps
  <2>7. x \notin Blank
    OBVIOUS
  <2>. HIDE DEF c, n
  <2>8. WordsOf(Append(c, x)) = Append(WordsOf(t), Append(u, x))
    <3>1. CASE u = <<>>
      <4>1. c = t /\ n = Len(t) /\ Append(u, x) = <<x>>
        <5>1. t \o <<>> = t
          BY ConcatEmptySeq
        <5>. QED BY <3>1, <5>1 DEF c, n
      <4>2. n + 1 = 1 \/ Append(c, x)[(n + 1) - 1] \in Blank
        <5>1. CASE t = <<>>
          BY <4>1, <5>1
        <5>2. CASE t # <<>>
          <6>1. n \in 1..n /\ (n + 1) - 1 = n
            BY <2>5, <4>1, <5>2, EmptySeq
          <6>. QED BY <2>5, <4>1, <5>2, <6>1
        <5>. QED BY <5>1, <5>2
      <4>. QED BY <2>5, <2>6, <2>7, <4>1, <4>2 DEF Taking
    <3>2. CASE u # <<>>
      <4>1. Len(u) \in 1..Len(u) /\ n # 0 /\ n \in 1..n /\ (n + 1) - 1 = n
        BY <2>1, <2>5, <3>2, EmptySeq
      <4>2. Append(c, x)[n] = u[Len(u)] /\ u[Len(u)] \notin Blank
        <5>1. u[Len(u)] \in Piece \ Blank
          BY <2>1, <4>1, ElementOfSeq
        <5>2. c[n] = u[Len(u)] /\ Append(c, x)[n] = c[n]
          BY <2>5, <4>1
        <5>. QED BY <5>1, <5>2
      <4>3. WordsOf(c) = Append(WordsOf(t), u)
        BY <2>2, <3>2 DEF c
      <4>4. WordsOf(Append(c, x)) =
              [WordsOf(c) EXCEPT ![Len(WordsOf(c))] = Append(@, x)]
        <5>. DEFINE d == Append(c, x)  v == WordsOf(c)
        <5>1. d[n + 1] = x /\ d[n + 1] \notin Blank /\ n + 1 # 1
              /\ d[(n + 1) - 1] \notin Blank
          <6>1. d[n + 1] = x
            BY <2>5
          <6>2. d[n] \notin Blank
            BY <4>2
          <6>3. n + 1 # 1
            BY <2>5, <4>1
          <6>. HIDE DEF d
          <6>. QED BY <2>7, <4>1, <6>1, <6>2, <6>3
        <5>. HIDE DEF d, v
        <5>2. Taking(v, d, n + 1) = [v EXCEPT ![Len(v)] = Append(@, x)]
          BY <5>1, Zenon DEF Taking
        <5>. QED BY <2>6, <5>2 DEF d, v
      <4>5. WordsOf(t) \in Words
        BY WordsSteps
      <4>. QED BY <2>1, <2>3, <4>3, <4>4, <4>5, ChangeLast DEF Words
    <3>. QED BY <3>1, <3>2
  <2>9. t \o Append(u, x) \in Seq(Piece)
    BY <2>4, <2>5
  <2>. QED BY <2>3, <2>4, <2>8, <2>9 DEF T
<1>3. T \in SUBSET Seq(Piece \ Blank)
  OBVIOUS
<1>. HIDE DEF T
<1>4. T = Seq(Piece \ Blank)
  BY <1>1, <1>2, <1>3, InductionOnSequences
<1>. QED BY <1>4 DEF T

-----------------------------------------------------------------------------
LEMMA PiecesAssociate ==
  \A p, q, r \in Seq(Piece) : (p \o q) \o r = p \o (q \o r)
<1>1. ASSUME NEW p \in Seq(Piece), NEW q \in Seq(Piece), NEW r \in Seq(Piece)
      PROVE  (p \o q) \o r = p \o (q \o r)
  BY ConcatAssociative
<1>. QED BY <1>1

LEMMA PiecesConcat ==
  \A p, q \in Seq(Piece) :
    /\ Len(p) \in Nat /\ Len(q) \in Nat
    /\ p \o q \in Seq(Piece) /\ Len(p \o q) = Len(p) + Len(q)
    /\ \A i \in 1..Len(p) : (p \o q)[i] = p[i]
    /\ \A i \in 1..Len(q) : (p \o q)[Len(p) + i] = q[i]
<1>. SUFFICES ASSUME NEW p \in Seq(Piece), NEW q \in Seq(Piece)
              PROVE  /\ Len(p) \in Nat /\ Len(q) \in Nat
                     /\ p \o q \in Seq(Piece) /\ Len(p \o q) = Len(p) + Len(q)
                     /\ \A i \in 1..Len(p) : (p \o q)[i] = p[i]
                     /\ \A i \in 1..Len(q) : (p \o q)[Len(p) + i] = q[i]
  OBVIOUS
<1>. QED BY ConcatParts

LEMMA SpellingTyped ==
  ASSUME NEW paths \in Seq(Path), NEW i \in 1..Len(paths)
  PROVE  /\ paths[i] \in Path
         /\ Spelling[paths[i]] \in Seq(Piece)
         /\ Spelling[paths[i]] \in Seq(Piece \ Blank)
         /\ Spelling[paths[i]] # <<>>
         /\ Range(Spelling[paths[i]]) \subseteq Spelled(paths)
<1>1. paths[i] \in Path
  BY ElementOfSeq
<1>. DEFINE w == Spelling[paths[i]]
<1>2. w \in Seq(Piece) /\ w # <<>> /\ Range(w) \cap Blank = {}
  BY <1>1, SpellingAssumption
<1>3. Range(w) \subseteq Spelled(paths)
  <2>1. paths[i] \in Range(paths)
    BY LenProperties DEF Range
  <2>. QED BY <2>1 DEF Spelled
<1>. HIDE DEF w
<1>4. w \in Seq(Piece \ Blank)
  <2>1. /\ Len(w) \in Nat /\ DOMAIN w = 1..Len(w)
        /\ w = [j \in 1..Len(w) |-> w[j]]
    BY <1>2, LenProperties
  <2>2. \A j \in 1..Len(w) : w[j] \in Piece \ Blank
    BY <1>2, <2>1, ElementOfSeq DEF Range
  <2>. QED BY <2>1, <2>2, IsASeq
<1>. QED BY <1>1, <1>2, <1>3, <1>4 DEF w

(* Some paths with blanks between them.                                    *)
LEMMA JoinedTyped ==
  ASSUME NEW paths \in Seq(Path)
  PROVE  /\ Joined(paths) \in Seq(Piece)
         /\ Range(Joined(paths)) \subseteq Spelled(paths) \cup {"space"}
<1>. DEFINE g(i) == (IF i = 1 THEN <<>> ELSE Space) \o Spelling[paths[i]]
            V == (Spelled(paths) \cup {"space"}) \cap Piece
<1>1. ASSUME NEW i \in 1..Len(paths) PROVE g(i) \in Seq(V)
  <2>. DEFINE w == Spelling[paths[i]]
  <2>1. w \in Seq(Piece) /\ Range(w) \subseteq Spelled(paths)
    BY SpellingTyped
  <2>. HIDE DEF w
  <2>2. w \in Seq(V)
    <3>1. /\ Len(w) \in Nat /\ DOMAIN w = 1..Len(w)
          /\ w = [j \in 1..Len(w) |-> w[j]]
      BY <2>1, LenProperties
    <3>2. \A j \in 1..Len(w) : w[j] \in V
      BY <2>1, <3>1, ElementOfSeq DEF Range
    <3>. HIDE DEF V
    <3>. QED BY <3>1, <3>2, IsASeq
  <2>3. "space" \in V
    BY Pieces
  <2>. HIDE DEF V
  <2>4. <<>> \in Seq(V) /\ Space \in Seq(V)
    BY <2>3 DEF Space
  <2>5. <<>> \o w \in Seq(V)
    BY <2>2, <2>4, ConcatParts
  <2>6. Space \o w \in Seq(V)
    BY <2>2, <2>4, ConcatParts
  <2>. QED BY <2>5, <2>6 DEF w
<1>2. Len(paths) \in Nat
  BY LenProperties
<1>. HIDE DEF V
<1>3. [i \in 1..Len(paths) |-> g(i)] \in Seq(Seq(V))
  <2>. HIDE DEF g
  <2>. QED BY <1>1, <1>2, IsASeq
<1>4. Joined(paths) \in Seq(V)
  BY <1>3, FlattenTyped DEF Joined
<1>5. Joined(paths) \in Seq(Piece)
  BY <1>4 DEF V
<1>6. Range(Joined(paths)) \subseteq V
  BY <1>4, LenProperties, ElementOfSeq DEF Range
<1>. QED BY <1>5, <1>6 DEF V

-----------------------------------------------------------------------------
(* The variables, piece by piece.                                          *)
InAt(text, i) ==
  /\ i + 2 <= Len(text)
  /\ text[i] = "$" /\ text[i + 1] = "i" /\ text[i + 2] = "n"
OutAt(text, i) ==
  /\ i + 3 <= Len(text)
  /\ text[i] = "$" /\ text[i + 1] = "o" /\ text[i + 2] = "u"
  /\ text[i + 3] = "t"

LEMMA Variables ==
  /\ In \in Seq(Piece) /\ Len(In) = 3 /\ DOMAIN In = 1..3
  /\ In[1] = "$" /\ In[2] = "i" /\ In[3] = "n"
  /\ Out \in Seq(Piece) /\ Len(Out) = 4 /\ DOMAIN Out = 1..4
  /\ Out[1] = "$" /\ Out[2] = "o" /\ Out[3] = "u" /\ Out[4] = "t"
  /\ In # Out
<1>1. /\ Len(In) = 3 /\ DOMAIN In = 1..3
      /\ In[1] = "$" /\ In[2] = "i" /\ In[3] = "n"
  BY DEF In
<1>2. /\ Len(Out) = 4 /\ DOMAIN Out = 1..4
      /\ Out[1] = "$" /\ Out[2] = "o" /\ Out[3] = "u" /\ Out[4] = "t"
  BY DEF Out
<1>3. In[2] \in Piece /\ In[3] \in Piece /\ In[1] \in Piece
  BY <1>1, SpellingAssumption DEF Range
<1>4. /\ Out[1] \in Piece /\ Out[2] \in Piece /\ Out[3] \in Piece
      /\ Out[4] \in Piece
  BY <1>2, SpellingAssumption DEF Range
<1>5. In \in Seq(Piece)
  BY <1>1, <1>3 DEF In
<1>6. Out \in Seq(Piece)
  BY <1>2, <1>4 DEF Out
<1>. QED BY <1>1, <1>2, <1>5, <1>6

LEMMA VariableAt ==
  ASSUME NEW text \in Seq(Piece), NEW i \in 1..Len(text)
  PROVE  /\ StartsWith(text, i, In) <=> InAt(text, i)
         /\ StartsWith(text, i, Out) <=> OutAt(text, i)
<1>1. Len(text) \in Nat /\ DOMAIN text = 1..Len(text)
  BY LenProperties
<1>2. StartsWith(text, i, In) <=> InAt(text, i)
  <2>1. StartsWith(text, i, In) <=>
          \A k \in 1..3 : i + k - 1 \in 1..Len(text) /\ text[i + k - 1] = In[k]
    BY <1>1, Variables DEF StartsWith
  <2>2. i + 1 - 1 = i /\ i + 2 - 1 = i + 1 /\ i + 3 - 1 = i + 2
    BY <1>1
  <2>. QED BY <1>1, <2>1, <2>2, Variables DEF InAt
<1>3. StartsWith(text, i, Out) <=> OutAt(text, i)
  <2>1. StartsWith(text, i, Out) <=>
          \A k \in 1..4 :
            i + k - 1 \in 1..Len(text) /\ text[i + k - 1] = Out[k]
    BY <1>1, Variables DEF StartsWith
  <2>2. /\ i + 1 - 1 = i /\ i + 2 - 1 = i + 1 /\ i + 3 - 1 = i + 2
        /\ i + 4 - 1 = i + 3
    BY <1>1
  <2>. QED BY <1>1, <2>1, <2>2, Variables DEF OutAt
<1>. QED BY <1>2, <1>3

(* What files put in place of variables.                                   *)
Files == UNION {[D -> Seq(Piece)] : D \in SUBSET {In, Out}}

VarAt(files, text, i) == \E v \in DOMAIN files : StartsWith(text, i, v)
Inside(files, text, i) == \E v \in DOMAIN files : Within(text, i, v)
Found(files, text, i) == CHOOSE v \in DOMAIN files : StartsWith(text, i, v)
Bit(files, text, i) ==
  IF VarAt(files, text, i) THEN files[Found(files, text, i)]
  ELSE IF Inside(files, text, i) THEN <<>> ELSE <<text[i]>>

(* No variable lies across the end of a in a \o b.                         *)
Apart(files, a, b) ==
  \A i \in 1..Len(a), v \in DOMAIN files :
    StartsWith(a \o b, i, v) => i + Len(v) <= Len(a) + 1

LEMMA IsVariable ==
  ASSUME NEW files \in Files, NEW v \in DOMAIN files
  PROVE  /\ v \in {In, Out} /\ v \in Seq(Piece)
         /\ Len(v) \in Nat /\ Len(v) # 0
         /\ files[v] \in Seq(Piece)
<1>1. v \in {In, Out} /\ files[v] \in Seq(Piece)
  BY DEF Files
<1>2. CASE v = In
  BY <1>1, <1>2, Variables
<1>3. CASE v = Out
  BY <1>1, <1>3, Variables
<1>. QED BY <1>1, <1>2, <1>3

LEMMA BitTyped ==
  ASSUME NEW files \in Files, NEW text \in Seq(Piece)
  PROVE  /\ DOMAIN files \subseteq {In, Out}
         /\ \A v \in DOMAIN files : files[v] \in Seq(Piece)
         /\ \A i \in 1..Len(text) : Bit(files, text, i) \in Seq(Piece)
         /\ [i \in 1..Len(text) |-> Bit(files, text, i)] \in Seq(Seq(Piece))
         /\ Replaced(text, files) =
              FlattenSeq([i \in 1..Len(text) |-> Bit(files, text, i)])
         /\ Replaced(text, files) \in Seq(Piece)
<1>1. /\ DOMAIN files \subseteq {In, Out}
      /\ \A v \in DOMAIN files : files[v] \in Seq(Piece)
  BY DEF Files
<1>2. ASSUME NEW i \in 1..Len(text) PROVE Bit(files, text, i) \in Seq(Piece)
  <2>1. <<>> \in Seq(Piece) /\ <<text[i]>> \in Seq(Piece)
    BY ElementOfSeq
  <2>2. VarAt(files, text, i) => Found(files, text, i) \in DOMAIN files
    BY DEF VarAt, Found
  <2>. QED BY <1>1, <2>1, <2>2 DEF Bit
<1>3. Len(text) \in Nat
  BY LenProperties
<1>4. [i \in 1..Len(text) |-> Bit(files, text, i)] \in Seq(Seq(Piece))
  BY <1>2, <1>3, IsASeq
<1>5. Replaced(text, files) =
        FlattenSeq([i \in 1..Len(text) |-> Bit(files, text, i)])
  BY DEF Replaced, Bit, VarAt, Inside, Found
<1>. QED BY <1>1, <1>2, <1>4, <1>5, FlattenTyped

LEMMA StartsInConcat ==
  ASSUME NEW a \in Seq(Piece), NEW b \in Seq(Piece), NEW v \in {In, Out}
  PROVE  /\ \A i \in 1..Len(a) :
              i + Len(v) <= Len(a) + 1 =>
                (StartsWith(a \o b, i, v) <=> StartsWith(a, i, v))
         /\ \A i \in 1..Len(a) :
              StartsWith(a, i, v) => i + Len(v) <= Len(a) + 1
         /\ \A i \in 1..Len(b) :
              StartsWith(a \o b, Len(a) + i, v) <=> StartsWith(b, i, v)
<1>. DEFINE c == a \o b
<1>1. /\ Len(a) \in Nat /\ Len(b) \in Nat
      /\ c \in Seq(Piece) /\ Len(c) = Len(a) + Len(b)
      /\ \A i \in 1..Len(a) : c[i] = a[i]
      /\ \A i \in 1..Len(b) : c[Len(a) + i] = b[i]
  BY PiecesConcat
<1>. HIDE DEF c
<1>2. Len(In) = 3 /\ Len(Out) = 4
  BY Variables
<1>3. \A i \in 1..Len(a) : i \in 1..Len(c)
  BY <1>1
<1>4. \A i \in 1..Len(b) : Len(a) + i \in 1..Len(c)
  BY <1>1
<1>5. ASSUME NEW i \in 1..Len(a)
      PROVE  /\ i + 3 <= Len(a) + 1 => (InAt(c, i) <=> InAt(a, i))
             /\ i + 4 <= Len(a) + 1 => (OutAt(c, i) <=> OutAt(a, i))
             /\ InAt(a, i) => i + 3 <= Len(a) + 1
             /\ OutAt(a, i) => i + 4 <= Len(a) + 1
  <2>1. \A k \in 0..3 : i + k <= Len(a) => c[i + k] = a[i + k]
    <3>1. \A k \in 0..3 : i + k <= Len(a) => i + k \in 1..Len(a)
      BY <1>1
    <3>. QED BY <1>1, <3>1
  <2>2. i + 0 = i
    BY <1>1
  <2>3. i + 3 <= Len(a) + 1 => (InAt(c, i) <=> InAt(a, i))
    <3>1. SUFFICES ASSUME i + 2 <= Len(a) PROVE InAt(c, i) <=> InAt(a, i)
      BY <1>1
    <3>2. /\ i <= Len(a) /\ i + 1 <= Len(a) /\ i + 2 <= Len(c)
      BY <1>1, <3>1
    <3>. QED BY <2>1, <2>2, <3>1, <3>2 DEF InAt
  <2>4. i + 4 <= Len(a) + 1 => (OutAt(c, i) <=> OutAt(a, i))
    <3>1. SUFFICES ASSUME i + 3 <= Len(a) PROVE OutAt(c, i) <=> OutAt(a, i)
      BY <1>1
    <3>2. /\ i <= Len(a) /\ i + 1 <= Len(a) /\ i + 2 <= Len(a)
          /\ i + 3 <= Len(c)
      BY <1>1, <3>1
    <3>. QED BY <2>1, <2>2, <3>1, <3>2 DEF OutAt
  <2>. QED BY <1>1, <2>3, <2>4 DEF InAt, OutAt
<1>6. ASSUME NEW i \in 1..Len(b)
      PROVE  /\ InAt(c, Len(a) + i) <=> InAt(b, i)
             /\ OutAt(c, Len(a) + i) <=> OutAt(b, i)
  <2>1. \A k \in 0..3 : i + k <= Len(b) =>
                          c[Len(a) + i + k] = b[i + k]
    <3>1. \A k \in 0..3 : /\ Len(a) + i + k = Len(a) + (i + k)
                          /\ i + k <= Len(b) => i + k \in 1..Len(b)
      BY <1>1
    <3>. QED BY <1>1, <3>1
  <2>2. i + 0 = i /\ Len(a) + i + 0 = Len(a) + i
    BY <1>1
  <2>3. \A k \in 0..3 : Len(a) + i + k <= Len(c) <=> i + k <= Len(b)
    BY <1>1
  <2>4. \A k \in 0..3 : i + 3 <= Len(b) => i + k <= Len(b)
    BY <1>1
  <2>5. \A k \in 0..2 : i + 2 <= Len(b) => i + k <= Len(b)
    BY <1>1
  <2>6. InAt(c, Len(a) + i) <=> InAt(b, i)
    BY <1>1, <2>1, <2>2, <2>3, <2>5 DEF InAt
  <2>7. OutAt(c, Len(a) + i) <=> OutAt(b, i)
    BY <1>1, <2>1, <2>2, <2>3, <2>4 DEF OutAt
  <2>. QED BY <2>6, <2>7
<1>7. \A i \in 1..Len(a) :
        /\ StartsWith(c, i, In) <=> InAt(c, i)
        /\ StartsWith(c, i, Out) <=> OutAt(c, i)
        /\ StartsWith(a, i, In) <=> InAt(a, i)
        /\ StartsWith(a, i, Out) <=> OutAt(a, i)
  BY <1>1, <1>3, VariableAt
<1>8. \A i \in 1..Len(b) :
        /\ StartsWith(c, Len(a) + i, In) <=> InAt(c, Len(a) + i)
        /\ StartsWith(c, Len(a) + i, Out) <=> OutAt(c, Len(a) + i)
        /\ StartsWith(b, i, In) <=> InAt(b, i)
        /\ StartsWith(b, i, Out) <=> OutAt(b, i)
  BY <1>1, <1>4, VariableAt
<1>9. CASE v = In
  BY <1>2, <1>5, <1>6, <1>7, <1>8, <1>9 DEF c
<1>10. CASE v = Out
  BY <1>2, <1>5, <1>6, <1>7, <1>8, <1>10 DEF c
<1>. QED BY <1>9, <1>10

LEMMA ReplacedConcat ==
  ASSUME NEW files \in Files, NEW a \in Seq(Piece), NEW b \in Seq(Piece),
         Apart(files, a, b)
  PROVE  Replaced(a \o b, files) = Replaced(a, files) \o Replaced(b, files)
<1>. DEFINE c == a \o b
            la == [i \in 1..Len(a) |-> Bit(files, a, i)]
            lb == [i \in 1..Len(b) |-> Bit(files, b, i)]
            lc == [i \in 1..Len(c) |-> Bit(files, c, i)]
<1>1. /\ Len(a) \in Nat /\ Len(b) \in Nat
      /\ c \in Seq(Piece) /\ Len(c) = Len(a) + Len(b)
      /\ \A i \in 1..Len(a) : i \in 1..Len(c) /\ c[i] = a[i]
      /\ \A i \in 1..Len(b) : Len(a) + i \in 1..Len(c) /\ c[Len(a) + i] = b[i]
  BY ConcatParts
<1>2. \A v \in DOMAIN files :
        /\ v \in {In, Out} /\ Len(v) \in Nat
        /\ \A i \in 1..Len(a) :
             /\ StartsWith(c, i, v) <=> StartsWith(a, i, v)
             /\ StartsWith(c, i, v) => i + Len(v) <= Len(a) + 1
        /\ \A i \in 1..Len(b) :
             StartsWith(c, Len(a) + i, v) <=> StartsWith(b, i, v)
  <2>. SUFFICES ASSUME NEW v \in DOMAIN files
                PROVE  /\ v \in {In, Out} /\ Len(v) \in Nat
                       /\ \A i \in 1..Len(a) :
                            /\ StartsWith(c, i, v) <=> StartsWith(a, i, v)
                            /\ StartsWith(c, i, v) =>
                                 i + Len(v) <= Len(a) + 1
                       /\ \A i \in 1..Len(b) :
                            StartsWith(c, Len(a) + i, v) <=>
                              StartsWith(b, i, v)
    OBVIOUS
  <2>1. v \in {In, Out} /\ Len(v) \in Nat
    BY IsVariable
  <2>2. \A i \in 1..Len(a) : StartsWith(c, i, v) => i + Len(v) <= Len(a) + 1
    BY DEF Apart
  <2>. QED BY <2>1, <2>2, StartsInConcat
<1>. HIDE DEF c
<1>3. ASSUME NEW i \in 1..Len(a) PROVE Bit(files, c, i) = Bit(files, a, i)
  <2>1. VarAt(files, c, i) <=> VarAt(files, a, i)
    BY <1>2 DEF VarAt
  <2>2. Inside(files, c, i) <=> Inside(files, a, i)
    <3>1. \A j \in 1..i - 1 : j \in 1..Len(a)
      BY <1>1
    <3>2. \A v \in DOMAIN files : Within(c, i, v) <=> Within(a, i, v)
      BY <1>2, <3>1 DEF Within
    <3>. QED BY <3>2 DEF Inside
  <2>3. Found(files, c, i) = Found(files, a, i)
    BY <1>2 DEF Found
  <2>. QED BY <1>1, <2>1, <2>2, <2>3 DEF Bit
<1>4. ASSUME NEW i \in 1..Len(b)
      PROVE  Bit(files, c, Len(a) + i) = Bit(files, b, i)
  <2>1. VarAt(files, c, Len(a) + i) <=> VarAt(files, b, i)
    BY <1>2 DEF VarAt
  <2>2. ASSUME NEW v \in DOMAIN files
        PROVE  Within(c, Len(a) + i, v) <=> Within(b, i, v)
    <3>0. Len(v) \in Nat
      BY <1>2
    <3>1. ASSUME NEW j \in 1..Len(a) + i - 1, StartsWith(c, j, v),
                 Len(a) + i < j + Len(v)
          PROVE  Within(b, i, v)
      <4>1. ~(j \in 1..Len(a))
        BY <1>1, <1>2, <3>0, <3>1
      <4>. DEFINE k == j - Len(a)
      <4>3. k \in 1..i - 1 /\ k \in 1..Len(b) /\ j = Len(a) + k
        BY <1>1, <4>1
      <4>. HIDE DEF k
      <4>4. StartsWith(b, k, v)
        BY <1>2, <3>1, <4>3
      <4>5. i < k + Len(v)
        BY <1>1, <3>0, <3>1, <4>3
      <4>. QED BY <4>3, <4>4, <4>5 DEF Within
    <3>2. ASSUME NEW k \in 1..i - 1, StartsWith(b, k, v), i < k + Len(v)
          PROVE  Within(c, Len(a) + i, v)
      <4>1. k \in 1..Len(b) /\ Len(a) + k \in 1..Len(a) + i - 1
        BY <1>1
      <4>2. StartsWith(c, Len(a) + k, v)
        BY <1>2, <3>2, <4>1
      <4>3. Len(a) + i < Len(a) + k + Len(v)
        BY <1>1, <3>0, <3>2
      <4>. QED BY <4>1, <4>2, <4>3 DEF Within
    <3>. QED BY <3>1, <3>2 DEF Within
  <2>3. Inside(files, c, Len(a) + i) <=> Inside(files, b, i)
    BY <2>2 DEF Inside
  <2>4. Found(files, c, Len(a) + i) = Found(files, b, i)
    BY <1>2 DEF Found
  <2>. QED BY <1>1, <2>1, <2>3, <2>4 DEF Bit
<1>5. /\ la \in Seq(Seq(Piece)) /\ lb \in Seq(Seq(Piece))
      /\ lc \in Seq(Seq(Piece))
  BY <1>1, BitTyped
<1>6. /\ FlattenSeq(la) = Replaced(a, files)
      /\ FlattenSeq(lb) = Replaced(b, files)
      /\ FlattenSeq(lc) = Replaced(c, files)
  BY <1>1, BitTyped
<1>7. /\ Len(la) = Len(a) /\ \A i \in 1..Len(a) : la[i] = Bit(files, a, i)
      /\ Len(lb) = Len(b) /\ \A i \in 1..Len(b) : lb[i] = Bit(files, b, i)
      /\ Len(lc) = Len(c) /\ \A i \in 1..Len(c) : lc[i] = Bit(files, c, i)
  BY <1>1
<1>. HIDE DEF la, lb, lc
<1>8. /\ Len(lc) = Len(la) + Len(lb)
      /\ \A i \in 1..Len(la) : lc[i] = la[i]
      /\ \A i \in 1..Len(lb) : lc[Len(la) + i] = lb[i]
  BY <1>1, <1>3, <1>4, <1>7
<1>9. lc = la \o lb
  BY <1>5, <1>8, IsConcat
<1>10. FlattenSeq(la \o lb) = FlattenSeq(la) \o FlattenSeq(lb)
  BY <1>5, FlattenConcat
<1>. QED BY <1>6, <1>9, <1>10 DEF c

(* Where no variable stands, nothing changes.                              *)
LEMMA ReplacedNone ==
  ASSUME NEW files \in Files, NEW text \in Seq(Piece),
         \A i \in 1..Len(text) : ~VarAt(files, text, i)
  PROVE  Replaced(text, files) = text
<1>. DEFINE h == [x \in Piece |-> <<x>>]
<1>1. Len(text) \in Nat /\ \A i \in 1..Len(text) : text[i] \in Piece
  BY LenProperties, ElementOfSeq
<1>2. ASSUME NEW i \in 1..Len(text) PROVE Bit(files, text, i) = h[text[i]]
  <2>1. \A j \in 1..i - 1 : j \in 1..Len(text)
    BY <1>1
  <2>2. ~Inside(files, text, i)
    BY <2>1 DEF Inside, Within, VarAt
  <2>. QED BY <1>1, <2>2 DEF Bit
<1>3. [i \in 1..Len(text) |-> Bit(files, text, i)] =
        [i \in 1..Len(text) |-> h[text[i]]]
  BY <1>2
<1>4. Replaced(text, files) = Rewrite(h, text)
  BY <1>3, BitTyped DEF Rewrite
<1>5. Rewrites(h, Piece)
  BY DEF Rewrites
<1>6. \A x \in Range(text) : h[x] = <<x>>
  <2>1. \A x \in Range(text) : x \in Piece
    BY <1>1, LenProperties DEF Range
  <2>. QED BY <2>1
<1>. HIDE DEF h
<1>7. Rewrite(h, text) = text
  BY <1>5, <1>6, RewriteUntouched
<1>. QED BY <1>4, <1>7

(* A variable becomes what the files say.                                  *)
LEMMA ReplacedVariable ==
  ASSUME NEW files \in Files, NEW v \in DOMAIN files
  PROVE  Replaced(v, files) = files[v]
<1>1. v \in {In, Out} /\ v \in Seq(Piece) /\ files[v] \in Seq(Piece)
  BY IsVariable
<1>2. Len(v) \in Nat /\ Len(v) # 0
  BY IsVariable
<1>3. \A x \in DOMAIN files : StartsWith(v, 1, x) <=> x = v
  <2>1. 1 \in 1..Len(v)
    BY <1>2
  <2>2. /\ StartsWith(v, 1, In) <=> InAt(v, 1)
        /\ StartsWith(v, 1, Out) <=> OutAt(v, 1)
    BY <1>1, <2>1, VariableAt
  <2>3. InAt(In, 1) /\ OutAt(Out, 1) /\ ~InAt(Out, 1) /\ ~OutAt(In, 1)
    BY Variables DEF InAt, OutAt
  <2>4. \A x \in DOMAIN files : x \in {In, Out}
    BY IsVariable
  <2>. QED BY <1>1, <2>2, <2>3, <2>4
<1>4. Bit(files, v, 1) = files[v]
  <2>1. Found(files, v, 1) = v
    BY <1>3 DEF Found
  <2>. QED BY <1>3, <2>1 DEF Bit, VarAt
<1>5. ASSUME NEW i \in 2..Len(v) PROVE Bit(files, v, i) = <<>>
  <2>1. i \in 1..Len(v)
    BY <1>2
  <2>2. ~InAt(v, i) /\ ~OutAt(v, i)
    BY <1>1, Variables DEF InAt, OutAt
  <2>3. ~VarAt(files, v, i)
    BY <1>1, <2>1, <2>2, VariableAt, IsVariable DEF VarAt
  <2>4. 1 \in 1..i - 1 /\ i < 1 + Len(v)
    BY <1>2
  <2>5. StartsWith(v, 1, v)
    BY <1>3
  <2>6. Within(v, i, v)
    BY <2>4, <2>5 DEF Within
  <2>. QED BY <2>3, <2>6 DEF Bit, Inside
<1>. DEFINE bits == [i \in 1..Len(v) |-> Bit(files, v, i)]
            one == <<files[v]>>
            none_ == [i \in 1..Len(v) - 1 |-> <<>>]
<1>6. bits \in Seq(Seq(Piece)) /\ Replaced(v, files) = FlattenSeq(bits)
      /\ Len(bits) = Len(v) /\ \A i \in 1..Len(v) : bits[i] = Bit(files, v, i)
  BY <1>1, <1>2, BitTyped
<1>7. one \in Seq(Seq(Piece)) /\ Len(one) = 1 /\ one[1] = files[v]
  BY <1>1
<1>8. /\ none_ \in Seq(Seq(Piece)) /\ none_ \in Seq(Seq({}))
      /\ Len(none_) = Len(v) - 1 /\ \A i \in 1..Len(v) - 1 : none_[i] = <<>>
  <2>1. Len(v) - 1 \in Nat
    BY <1>2
  <2>2. <<>> \in Seq(Piece) /\ <<>> \in Seq({})
    OBVIOUS
  <2>3. none_ \in Seq(Seq(Piece)) /\ none_ \in Seq(Seq({}))
    BY <2>1, <2>2, IsASeq
  <2>4. Len(none_) = Len(v) - 1
    BY <2>1
  <2>. QED BY <2>3, <2>4
<1>. HIDE DEF bits, one, none_
<1>9. bits = one \o none_
  <2>1. Len(bits) = Len(one) + Len(none_)
    BY <1>2, <1>6, <1>7, <1>8
  <2>2. \A i \in 1..Len(one) : bits[i] = one[i]
    BY <1>2, <1>4, <1>6, <1>7
  <2>3. \A i \in 1..Len(none_) : bits[Len(one) + i] = none_[i]
    <3>1. \A i \in 1..Len(v) - 1 : 1 + i \in 2..Len(v) /\ 1 + i \in 1..Len(v)
      BY <1>2
    <3>. QED BY <1>5, <1>6, <1>7, <1>8, <3>1
  <2>. QED BY <1>6, <1>7, <1>8, <2>1, <2>2, <2>3, IsConcat
<1>10. FlattenSeq(one) = files[v]
  <2>1. <<>> \in Seq(Seq(Piece)) /\ FlattenSeq(<<>>) = <<>>
    <3>1. <<>> \in Seq(Seq(Piece))
      OBVIOUS
    <3>. QED BY <3>1, FlattenValue
  <2>2. one = Append(<<>>, files[v])
    BY <1>1 DEF one
  <2>3. FlattenSeq(Append(<<>>, files[v])) = FlattenSeq(<<>>) \o files[v]
    BY <1>1, <2>1, FlattenAppend
  <2>4. <<>> \o files[v] = files[v]
    BY <1>1
  <2>. QED BY <2>1, <2>2, <2>3, <2>4
<1>11. FlattenSeq(none_) = <<>>
  <2>1. FlattenSeq(none_) \in Seq({})
    BY <1>8, FlattenTyped
  <2>. QED BY <2>1
<1>12. FlattenSeq(bits) = files[v] \o <<>>
  BY <1>7, <1>8, <1>9, <1>10, <1>11, FlattenConcat
<1>13. files[v] \o <<>> = files[v]
  BY <1>1
<1>. QED BY <1>6, <1>12, <1>13

-----------------------------------------------------------------------------
(* Replacing from the left.                                                *)
LEMMA CutHead ==
  ASSUME NEW t \in Seq(Piece), NEW k \in 0..Len(t)
  PROVE  \E p, q \in Seq(Piece) :
           /\ t = p \o q /\ Len(p) = k /\ Len(q) = Len(t) - k
           /\ \A i \in 1..k : p[i] = t[i]
<1>. DEFINE p == [i \in 1..k |-> t[i]]
            q == [i \in 1..Len(t) - k |-> t[k + i]]
<1>1. Len(t) \in Nat /\ \A i \in 1..Len(t) : t[i] \in Piece
  BY LenProperties, ElementOfSeq
<1>2. /\ p \in Seq(Piece) /\ Len(p) = k /\ \A i \in 1..k : p[i] = t[i]
  <2>1. k \in Nat /\ \A i \in 1..k : i \in 1..Len(t)
    BY <1>1
  <2>2. p \in Seq(Piece)
    BY <1>1, <2>1, IsASeq
  <2>. QED BY <2>1, <2>2
<1>3. /\ q \in Seq(Piece) /\ Len(q) = Len(t) - k
      /\ \A i \in 1..Len(t) - k : q[i] = t[k + i]
  <2>1. Len(t) - k \in Nat /\ \A i \in 1..Len(t) - k : k + i \in 1..Len(t)
    BY <1>1
  <2>2. q \in Seq(Piece)
    BY <1>1, <2>1, IsASeq
  <2>. QED BY <2>1, <2>2
<1>. HIDE DEF p, q
<1>4. t = p \o q
  <2>1. Len(t) = Len(p) + Len(q)
    BY <1>1, <1>2, <1>3
  <2>2. \A i \in 1..Len(p) : t[i] = p[i]
    BY <1>2
  <2>3. \A i \in 1..Len(q) : t[Len(p) + i] = q[i]
    BY <1>2, <1>3
  <2>. QED BY <1>2, <1>3, <2>1, <2>2, <2>3, IsConcat
<1>. QED BY <1>2, <1>3, <1>4

LEMMA Heads ==
  ASSUME NEW t \in Seq(Piece), t # <<>>
  PROVE  \E r \in Seq(Piece) :
           /\ Len(r) < Len(t)
           /\ \/ t = In \o r
              \/ t = Out \o r
              \/ /\ ~InAt(t, 1) /\ ~OutAt(t, 1)
                 /\ \E x \in Piece : t = <<x>> \o r
<1>1. Len(t) \in Nat \ {0}
  BY LenProperties, EmptySeq
<1>2. CASE InAt(t, 1)
  <2>1. 3 \in 0..Len(t)
    BY <1>1, <1>2 DEF InAt
  <2>2. PICK p, q \in Seq(Piece) :
          /\ t = p \o q /\ Len(p) = 3 /\ Len(q) = Len(t) - 3
          /\ \A i \in 1..3 : p[i] = t[i]
    BY <2>1, CutHead
  <2>3. p = In
    <3>1. p = [i \in 1..3 |-> p[i]] /\ In = [i \in 1..3 |-> In[i]]
      BY <2>2, Variables
    <3>2. \A i \in 1..3 : p[i] = In[i]
      BY <1>2, <2>2, Variables DEF InAt
    <3>. QED BY <3>1, <3>2
  <2>4. Len(q) < Len(t)
    BY <1>1, <2>2
  <2>. QED BY <2>2, <2>3, <2>4
<1>3. CASE OutAt(t, 1)
  <2>1. 4 \in 0..Len(t)
    BY <1>1, <1>3 DEF OutAt
  <2>2. PICK p, q \in Seq(Piece) :
          /\ t = p \o q /\ Len(p) = 4 /\ Len(q) = Len(t) - 4
          /\ \A i \in 1..4 : p[i] = t[i]
    BY <2>1, CutHead
  <2>3. p = Out
    <3>1. p = [i \in 1..4 |-> p[i]] /\ Out = [i \in 1..4 |-> Out[i]]
      BY <2>2, Variables
    <3>2. \A i \in 1..4 : p[i] = Out[i]
      BY <1>3, <2>2, Variables DEF OutAt
    <3>. QED BY <3>1, <3>2
  <2>4. Len(q) < Len(t)
    BY <1>1, <2>2
  <2>. QED BY <2>2, <2>3, <2>4
<1>4. CASE ~InAt(t, 1) /\ ~OutAt(t, 1)
  <2>1. 1 \in 0..Len(t)
    BY <1>1
  <2>2. PICK p, q \in Seq(Piece) :
          /\ t = p \o q /\ Len(p) = 1 /\ Len(q) = Len(t) - 1
          /\ \A i \in 1..1 : p[i] = t[i]
    BY <2>1, CutHead
  <2>3. p = <<p[1]>> /\ p[1] \in Piece
    BY <2>2
  <2>4. Len(q) < Len(t)
    BY <1>1, <2>2
  <2>5. \E x \in Piece : t = <<x>> \o q
    BY <2>2, <2>3
  <2>. QED BY <1>4, <2>2, <2>4, <2>5
<1>. QED BY <1>2, <1>3, <1>4

(* What the first variable, or the first piece, becomes.                   *)
LEMMA ReplacedHead ==
  ASSUME NEW files \in Files, NEW r \in Seq(Piece)
  PROVE  /\ Replaced(<<>>, files) = <<>>
         /\ Replaced(r, files) \in Seq(Piece)
         /\ \A v \in {In, Out} :
              Replaced(v \o r, files) =
                (IF v \in DOMAIN files THEN files[v] ELSE v)
                  \o Replaced(r, files)
         /\ \A x \in Piece :
              ~VarAt(files, <<x>> \o r, 1) =>
                Replaced(<<x>> \o r, files) = <<x>> \o Replaced(r, files)
<1>1. Replaced(<<>>, files) = <<>>
  <2>1. <<>> \in Seq(Piece) /\ Len(<<>>) = 0
    OBVIOUS
  <2>2. \A i \in 1..Len(<<>>) : ~VarAt(files, <<>>, i)
    BY <2>1
  <2>. QED BY <2>1, <2>2, ReplacedNone
<1>2. Replaced(r, files) \in Seq(Piece)
  BY BitTyped
<1>3. ASSUME NEW v \in {In, Out}
      PROVE  Replaced(v \o r, files) =
               (IF v \in DOMAIN files THEN files[v] ELSE v)
                 \o Replaced(r, files)
  <2>1. v \in Seq(Piece) /\ (Len(v) = 3 \/ Len(v) = 4)
    BY Variables
  <2>. DEFINE c == v \o r
  <2>2. /\ c \in Seq(Piece) /\ Len(c) = Len(v) + Len(r) /\ Len(r) \in Nat
        /\ \A i \in 1..Len(v) : c[i] = v[i] /\ i \in 1..Len(c)
    BY <2>1, ConcatParts
  <2>. HIDE DEF c
  <2>3. ASSUME NEW i \in 1..Len(v), i # 1
        PROVE  c[i] # "$"
    <3>1. v[i] # "$"
      BY <2>3, Variables
    <3>. QED BY <2>2, <3>1
  <2>4. ASSUME NEW i \in 1..Len(v), NEW x \in {In, Out}, StartsWith(c, i, x)
        PROVE  i = 1 /\ x = v
    <3>1. InAt(c, i) \/ OutAt(c, i)
      BY <2>2, <2>4, VariableAt
    <3>2. i = 1
      BY <2>3, <3>1 DEF InAt, OutAt
    <3>3. /\ StartsWith(c, 1, In) => InAt(c, 1)
          /\ StartsWith(c, 1, Out) => OutAt(c, 1)
      BY <2>2, <3>2, VariableAt
    <3>4. 2 \in 1..Len(v)
      <4>1. 2 \in 1..3 /\ 2 \in 1..4
        OBVIOUS
      <4>2. CASE Len(v) = 3
        BY <4>1, <4>2
      <4>3. CASE Len(v) = 4
        BY <4>1, <4>3
      <4>. QED BY ONLY <2>1, <4>2, <4>3
    <3>5. c[2] = v[2]
      BY <2>2, <3>4
    <3>6. /\ InAt(c, 1) => c[2] = "i"
          /\ OutAt(c, 1) => c[2] = "o"
      BY DEF InAt, OutAt
    <3>. QED BY <2>4, <3>2, <3>3, <3>5, <3>6, Variables
  <2>5. Apart(files, v, r)
    <3>1. ASSUME NEW i \in 1..Len(v), NEW x \in DOMAIN files,
                 StartsWith(c, i, x)
          PROVE  i + Len(x) <= Len(v) + 1
      <4>1. x \in {In, Out}
        BY IsVariable
      <4>. QED BY <2>1, <2>4, <3>1, <4>1
    <3>. QED BY <3>1 DEF Apart, c
  <2>6. Replaced(c, files) = Replaced(v, files) \o Replaced(r, files)
    BY <2>1, <2>5, ReplacedConcat DEF c
  <2>7. Replaced(v, files) = IF v \in DOMAIN files THEN files[v] ELSE v
    <3>1. CASE v \in DOMAIN files
      BY <3>1, ReplacedVariable
    <3>2. CASE v \notin DOMAIN files
      <4>1. ASSUME NEW i \in 1..Len(v), NEW x \in DOMAIN files,
                   StartsWith(v, i, x)
            PROVE  FALSE
        <5>1. x \in {In, Out}
          BY IsVariable
        <5>2. StartsWith(c, i, x)
          BY <2>1, <4>1, <5>1, StartsInConcat DEF c
        <5>. QED BY <2>4, <3>2, <5>1, <5>2
      <4>2. \A i \in 1..Len(v) : ~VarAt(files, v, i)
        BY <4>1 DEF VarAt
      <4>. QED BY <2>1, <3>2, <4>2, ReplacedNone
    <3>. QED BY <3>1, <3>2
  <2>. QED BY <2>6, <2>7 DEF c
<1>4. ASSUME NEW x \in Piece, ~VarAt(files, <<x>> \o r, 1)
      PROVE  Replaced(<<x>> \o r, files) = <<x>> \o Replaced(r, files)
  <2>. DEFINE a == <<x>>
  <2>1. a \in Seq(Piece) /\ Len(a) = 1 /\ Len(<<x>>) = 1
    OBVIOUS
  <2>2. ~VarAt(files, a \o r, 1)
    BY <1>4
  <2>. HIDE DEF a
  <2>3. Apart(files, a, r)
    BY <2>1, <2>2 DEF Apart, VarAt
  <2>4. Replaced(a \o r, files) = Replaced(a, files) \o Replaced(r, files)
    BY <2>1, <2>3, ReplacedConcat
  <2>5. ASSUME NEW v \in DOMAIN files, StartsWith(a, 1, v) PROVE FALSE
    <3>1. v \in {In, Out}
      BY IsVariable
    <3>2. InAt(a, 1) \/ OutAt(a, 1)
      <4>1. 1 \in 1..Len(a)
        BY <2>1
      <4>. QED BY <2>1, <2>5, <3>1, <4>1, VariableAt
    <3>. QED BY <2>1, <3>2 DEF InAt, OutAt
  <2>6. Replaced(a, files) = a
    <3>1. \A i \in 1..Len(a) : ~VarAt(files, a, i)
      BY <2>1, <2>5 DEF VarAt
    <3>. QED BY <2>1, <3>1, ReplacedNone
  <2>. QED BY <2>4, <2>6 DEF a
<1>. QED BY <1>1, <1>2, <1>3, <1>4

-----------------------------------------------------------------------------
(* What $in, $out and both become.                                         *)
InFiles(J) == [v \in {In} |-> J]
OutFiles(O) == [v \in {Out} |-> O]
AllFiles(J, O) == [v \in {In, Out} |-> IF v = In THEN J ELSE O]

LEMMA FilesAre ==
  ASSUME NEW J \in Seq(Piece), NEW O \in Seq(Piece)
  PROVE  /\ InFiles(J) \in Files /\ DOMAIN InFiles(J) = {In}
         /\ InFiles(J)[In] = J
         /\ OutFiles(O) \in Files /\ DOMAIN OutFiles(O) = {Out}
         /\ OutFiles(O)[Out] = O
         /\ AllFiles(J, O) \in Files /\ DOMAIN AllFiles(J, O) = {In, Out}
         /\ AllFiles(J, O)[In] = J /\ AllFiles(J, O)[Out] = O
<1>1. In # Out
  BY Variables
<1>2. InFiles(J) \in [{In} -> Seq(Piece)] /\ InFiles(J)[In] = J
  BY DEF InFiles
<1>3. OutFiles(O) \in [{Out} -> Seq(Piece)] /\ OutFiles(O)[Out] = O
  BY DEF OutFiles
<1>4. /\ AllFiles(J, O) \in [{In, Out} -> Seq(Piece)]
      /\ AllFiles(J, O)[In] = J /\ AllFiles(J, O)[Out] = O
  BY <1>1 DEF AllFiles
<1>. QED BY <1>2, <1>3, <1>4 DEF Files

(* Nothing that stands before $in goes on in what is put there; and no     *)
(* $out begins in that.                                                    *)
Clear(t, J) ==
  \A i \in 1..Len(t) :
    /\ t[i] = "$" /\ InAt(t, i + 1) => ~Begins(J, 1, <<"o", "u", "t">>)
    /\ t[i] = "$" /\ t[i + 1] = "o" /\ InAt(t, i + 2)
         => ~Begins(J, 1, <<"u", "t">>)
    /\ t[i] = "$" /\ t[i + 1] = "o" /\ t[i + 2] = "u" /\ InAt(t, i + 3)
         => ~Begins(J, 1, <<"t">>)
NoOut(J) == \A i \in 1..Len(J) : ~Begins(J, i, Out)

LEMMA ClearBehind ==
  ASSUME NEW p \in Seq(Piece), NEW r \in Seq(Piece), NEW J,
         Clear(p \o r, J)
  PROVE  Clear(r, J)
<1>. DEFINE t == p \o r
<1>1. /\ Len(p) \in Nat /\ Len(r) \in Nat /\ Len(t) = Len(p) + Len(r)
      /\ \A i \in 1..Len(r) : t[Len(p) + i] = r[i]
  BY PiecesConcat
<1>2. Clear(t, J)
  OBVIOUS
<1>. HIDE DEF t
<1>3. SUFFICES ASSUME NEW i \in 1..Len(r)
               PROVE  /\ r[i] = "$" /\ InAt(r, i + 1)
                           => ~Begins(J, 1, <<"o", "u", "t">>)
                      /\ r[i] = "$" /\ r[i + 1] = "o" /\ InAt(r, i + 2)
                           => ~Begins(J, 1, <<"u", "t">>)
                      /\ r[i] = "$" /\ r[i + 1] = "o" /\ r[i + 2] = "u"
                           /\ InAt(r, i + 3)
                           => ~Begins(J, 1, <<"t">>)
  BY DEF Clear
<1>. DEFINE m == Len(p) + i
<1>4. /\ m \in 1..Len(t)
      /\ \A k \in 0..5 : i + k <= Len(r) => t[m + k] = r[i + k]
      /\ \A k \in 0..5 : i + k <= Len(r) => m + k <= Len(t)
  <2>1. \A k \in 0..5 : Len(p) + (i + k) = m + k
    BY <1>1
  <2>2. \A k \in 0..5 : i + k <= Len(r) => i + k \in 1..Len(r)
    BY <1>1
  <2>3. \A k \in 0..5 : i + k <= Len(r) => m + k <= Len(t)
    BY <1>1
  <2>4. m \in 1..Len(t)
    BY <1>1
  <2>. HIDE DEF m
  <2>. QED BY <1>1, <2>1, <2>2, <2>3, <2>4
<1>. HIDE DEF m
<1>5. /\ m \in Nat /\ m + 0 = m /\ i + 0 = i /\ i <= Len(r)
      /\ \A k \in 0..3 : \A l \in 0..2 : /\ (m + k) + l = m + (k + l)
                                         /\ (i + k) + l = i + (k + l)
  BY <1>1, <1>4
<1>6. t[m] = r[i]
  BY <1>4, <1>5
<1>7. ASSUME NEW k \in 1..3, InAt(r, i + k)
      PROVE  InAt(t, m + k) /\ t[m + 1] = r[i + 1]
             /\ (k = 3 => t[m + 2] = r[i + 2])
  <2>1. i + k + 2 <= Len(r)
    BY <1>7 DEF InAt
  <2>2. \A l \in 0..k + 2 : l \in 0..5 /\ i + l <= Len(r)
    BY <1>1, <2>1
  <2>3. \A l \in 0..k + 2 : t[m + l] = r[i + l] /\ m + l <= Len(t)
    BY <1>4, <2>2
  <2>4. /\ k \in 0..k + 2 /\ k + 1 \in 0..k + 2 /\ k + 2 \in 0..k + 2
        /\ 1 \in 0..k + 2 /\ 2 \in 0..k + 2
        /\ m + k + 1 = m + (k + 1) /\ m + k + 2 = m + (k + 2)
        /\ i + k + 1 = i + (k + 1) /\ i + k + 2 = i + (k + 2)
    BY <1>5
  <2>. QED BY <1>7, <2>3, <2>4 DEF InAt
<1>8. /\ t[m] = "$" /\ InAt(t, m + 1) => ~Begins(J, 1, <<"o", "u", "t">>)
      /\ t[m] = "$" /\ t[m + 1] = "o" /\ InAt(t, m + 2)
           => ~Begins(J, 1, <<"u", "t">>)
      /\ t[m] = "$" /\ t[m + 1] = "o" /\ t[m + 2] = "u" /\ InAt(t, m + 3)
           => ~Begins(J, 1, <<"t">>)
  BY <1>2, <1>4 DEF Clear
<1>9. /\ InAt(r, i + 1) => InAt(t, m + 1)
      /\ InAt(r, i + 2) => InAt(t, m + 2) /\ t[m + 1] = r[i + 1]
      /\ InAt(r, i + 3) => /\ InAt(t, m + 3) /\ t[m + 1] = r[i + 1]
                           /\ t[m + 2] = r[i + 2]
  BY <1>7
<1>. HIDE DEF InAt, Begins
<1>. QED BY <1>6, <1>8, <1>9

(* What does not begin among the files put in does not cross their end.    *)
LEMMA FilesKept ==
  ASSUME NEW J \in Seq(Piece), NEW O \in Seq(Piece), NoOut(J),
         NEW b \in Seq(Piece)
  PROVE  Replaced(J \o b, OutFiles(O)) = J \o Replaced(b, OutFiles(O))
<1>. DEFINE c == J \o b
<1>1. /\ Len(J) \in Nat /\ DOMAIN J = 1..Len(J) /\ c \in Seq(Piece)
      /\ DOMAIN c = 1..Len(c) /\ \A i \in 1..Len(J) : c[i] = J[i]
  BY PiecesConcat, LenProperties
<1>. HIDE DEF c
<1>2. OutFiles(O) \in Files /\ DOMAIN OutFiles(O) = {Out}
  BY FilesAre
<1>3. ASSUME NEW i \in 1..Len(J) PROVE ~StartsWith(c, i, Out)
  BY <1>1 DEF NoOut, Begins, StartsWith
<1>4. Apart(OutFiles(O), J, b)
  BY <1>2, <1>3 DEF Apart, c
<1>5. \A i \in 1..Len(J) : ~VarAt(OutFiles(O), J, i)
  BY <1>1, <1>2 DEF NoOut, Begins, StartsWith, VarAt
<1>6. Replaced(J, OutFiles(O)) = J
  BY <1>2, <1>5, ReplacedNone
<1>7. Replaced(J \o b, OutFiles(O)) =
        Replaced(J, OutFiles(O)) \o Replaced(b, OutFiles(O))
  <2>. HIDE DEF OutFiles
  <2>. QED BY <1>2, <1>4, ReplacedConcat
<1>. QED BY <1>6, <1>7

(* The first piece of a text whose $in has been replaced.                  *)
LEMMA FirstPiece ==
  ASSUME NEW J \in Seq(Piece), NEW r \in Seq(Piece),
         Replaced(r, InFiles(J)) # <<>>
  PROVE  \/ /\ InAt(r, 1)
            /\ \E q \in Seq(Piece) : Replaced(r, InFiles(J)) = J \o q
         \/ \E x \in Piece, s \in Seq(Piece) :
              /\ r = <<x>> \o s
              /\ Replaced(r, InFiles(J)) = <<x>> \o Replaced(s, InFiles(J))
<1>. DEFINE w == Replaced(r, InFiles(J))
<1>0. w # <<>>
  OBVIOUS
<1>1. InFiles(J) \in Files /\ DOMAIN InFiles(J) = {In} /\ InFiles(J)[In] = J
  BY FilesAre
<1>2. r # <<>>
  BY <1>1, ReplacedHead
<1>3. Len(r) \in Nat \ {0} /\ 1 \in 1..Len(r)
  BY <1>2, LenProperties, EmptySeq
<1>4. PICK p, s \in Seq(Piece) :
        /\ r = p \o s /\ Len(p) = 1 /\ Len(s) = Len(r) - 1
        /\ \A i \in 1..1 : p[i] = r[i]
  <2>1. 1 \in 0..Len(r)
    BY <1>3
  <2>. QED BY <2>1, CutHead
<1>5. CASE InAt(r, 1)
  <2>1. \E q \in Seq(Piece) : r = In \o q
    <3>1. ~OutAt(r, 1)
      BY <1>5 DEF InAt, OutAt
    <3>2. PICK q \in Seq(Piece) : r = In \o q \/ r = Out \o q
      BY <1>2, <1>5, Heads
    <3>3. r # Out \o q
      <4>1. SUFFICES ASSUME r = Out \o q PROVE FALSE
        OBVIOUS
      <4>2. 2 \in 1..Len(Out)
        BY Variables
      <4>3. r[2] = Out[2]
        <5>1. \A i \in 1..Len(Out) : (Out \o q)[i] = Out[i]
          BY Variables, PiecesConcat
        <5>. QED BY <4>1, <4>2, <5>1
      <4>. QED BY <1>5, <4>3, Variables DEF InAt
    <3>. QED BY <3>2, <3>3
  <2>2. PICK q \in Seq(Piece) : r = In \o q
    BY <2>1
  <2>3. w = J \o Replaced(q, InFiles(J))
    BY <1>1, <2>2, ReplacedHead
  <2>4. Replaced(q, InFiles(J)) \in Seq(Piece)
    BY <1>1, ReplacedHead
  <2>. QED BY <1>5, <2>3, <2>4
<1>6. CASE ~InAt(r, 1)
  <2>1. ~VarAt(InFiles(J), r, 1)
    BY <1>1, <1>3, <1>6, VariableAt DEF VarAt
  <2>2. p = <<p[1]>> /\ p[1] \in Piece
    BY <1>4
  <2>3. w = <<p[1]>> \o Replaced(s, InFiles(J))
    BY <1>1, <1>4, <2>1, <2>2, ReplacedHead
  <2>. QED BY <1>4, <2>2, <2>3
<1>. QED BY <1>5, <1>6

(* A text is the piece x and the text s.                                   *)
Follows(t, x, s) ==
  /\ t \in Seq(Piece) /\ s \in Seq(Piece)
  /\ Len(t) = Len(s) + 1 /\ t[1] = x
  /\ \A i \in 1..Len(s) : t[i + 1] = s[i]

LEMMA HeadPiece ==
  ASSUME NEW x \in Piece, NEW s \in Seq(Piece)
  PROVE  Follows(<<x>> \o s, x, s)
<1>. DEFINE a == <<x>>  t == a \o s
<1>1. a \in Seq(Piece) /\ Len(a) = 1 /\ a[1] = x
  OBVIOUS
<1>. HIDE DEF a
<1>2. /\ t \in Seq(Piece) /\ Len(t) = 1 + Len(s) /\ Len(s) \in Nat
      /\ t[1] = x /\ \A i \in 1..Len(s) : t[1 + i] = s[i]
  BY <1>1, PiecesConcat
<1>. HIDE DEF t
<1>3. Follows(t, x, s)
  BY <1>2 DEF Follows
<1>. QED BY <1>3 DEF t, a

(* Where $in has been replaced, $out stands where it stood: the pieces     *)
(* that could be one have been looked at one by one.                       *)
Leads(v, w, n) ==
  n <= Len(w) /\ \A i \in 1..n : i \in DOMAIN v /\ w[i] = v[i]

LEMMA PieceByPiece ==
  ASSUME NEW J \in Seq(Piece), NEW r \in Seq(Piece),
         NEW k \in Nat, NEW n, n = k + 1,
         NEW v, DOMAIN v = 1..n, NEW y, DOMAIN y = 1..k,
         \A i \in 1..k : y[i] = v[i + 1],
         Leads(v, Replaced(r, InFiles(J)), n)
  PROVE  \/ InAt(r, 1) /\ Begins(J, 1, v)
         \/ \E s \in Seq(Piece) :
              Follows(r, v[1], s) /\ Leads(y, Replaced(s, InFiles(J)), k)
<1>. DEFINE w == Replaced(r, InFiles(J))
<1>0. InFiles(J) \in Files
  BY FilesAre
<1>1. /\ w \in Seq(Piece) /\ Len(w) \in Nat /\ DOMAIN w = 1..Len(w)
  <2>. HIDE DEF InFiles
  <2>1. w \in Seq(Piece)
    BY <1>0, BitTyped
  <2>. QED BY <2>1, LenProperties
<1>2. k + 1 <= Len(w) /\ \A i \in 1..k + 1 : w[i] = v[i]
  BY DEF Leads
<1>3. w # <<>>
  BY <1>1, <1>2, EmptySeq
<1>4. \/ InAt(r, 1) /\ \E q \in Seq(Piece) : w = J \o q
      \/ \E x \in Piece, s \in Seq(Piece) :
           r = <<x>> \o s /\ w = <<x>> \o Replaced(s, InFiles(J))
  <2>. HIDE DEF InFiles
  <2>. QED BY <1>3, FirstPiece
<1>. HIDE DEF w
<1>5. ASSUME InAt(r, 1), NEW q \in Seq(Piece), w = J \o q
      PROVE  Begins(J, 1, v)
  <2>1. /\ Len(J) \in Nat /\ DOMAIN J = 1..Len(J)
        /\ \A i \in 1..Len(J) : w[i] = J[i]
    BY <1>5, PiecesConcat, LenProperties
  <2>2. \A i \in DOMAIN v : i \in 1..k + 1 /\ 1 + i - 1 = i
    OBVIOUS
  <2>. QED BY <1>2, <2>1, <2>2 DEF Begins
<1>6. ASSUME NEW x \in Piece, NEW s \in Seq(Piece),
             r = <<x>> \o s, w = <<x>> \o Replaced(s, InFiles(J))
      PROVE  \E p \in Seq(Piece) :
               Follows(r, v[1], p) /\ Leads(y, Replaced(p, InFiles(J)), k)
  <2>. DEFINE z == Replaced(s, InFiles(J))
  <2>1. z \in Seq(Piece)
    <3>. HIDE DEF InFiles
    <3>. QED BY <1>0, BitTyped
  <2>2. w = <<x>> \o z
    BY <1>6
  <2>. HIDE DEF z
  <2>3. Follows(r, x, s) /\ Follows(w, x, z)
    BY <1>6, <2>1, <2>2, HeadPiece
  <2>4. Len(z) \in Nat
    BY <2>1, LenProperties
  <2>5. x = v[1]
    <3>1. 1 \in 1..k + 1
      OBVIOUS
    <3>. QED BY <1>2, <2>3, <3>1 DEF Follows
  <2>6. k <= Len(z)
    BY <1>2, <2>3, <2>4 DEF Follows
  <2>7. \A i \in 1..k : z[i] = v[i + 1]
    <3>1. \A i \in 1..k : i \in 1..Len(z) /\ i + 1 \in 1..k + 1
      BY <2>4, <2>6
    <3>. QED BY <1>2, <2>3, <3>1 DEF Follows
  <2>8. Leads(y, z, k)
    BY <2>6, <2>7 DEF Leads
  <2>. QED BY <2>3, <2>5, <2>8 DEF z
<1>. QED BY <1>4, <1>5, <1>6

LEMMA NoOutArises ==
  ASSUME NEW J \in Seq(Piece), NEW x \in Piece, NEW r \in Seq(Piece),
         NEW t, t = <<x>> \o r, Clear(t, J), ~OutAt(t, 1)
  PROVE  ~OutAt(<<x>> \o Replaced(r, InFiles(J)), 1)
<1>. DEFINE w == Replaced(r, InFiles(J))
            v == <<"o", "u", "t">>  ut == <<"u", "t">>
<1>0. InFiles(J) \in Files
  BY FilesAre
<1>. HIDE DEF InFiles
<1>1. w \in Seq(Piece) /\ Follows(t, x, r) /\ Follows(<<x>> \o w, x, w)
  BY <1>0, BitTyped, HeadPiece
<1>2. Len(w) \in Nat /\ Len(r) \in Nat /\ Len(t) \in Nat
  BY <1>1, LenProperties DEF Follows
<1>3. SUFFICES ASSUME x = "$", 3 <= Len(w), w[1] = "o", w[2] = "u",
                      w[3] = "t"
               PROVE  FALSE
  <2>1. SUFFICES ASSUME OutAt(<<x>> \o w, 1) PROVE FALSE
    OBVIOUS
  <2>. DEFINE u == <<x>> \o w
  <2>2. /\ Len(u) = Len(w) + 1 /\ u[1] = x
        /\ \A i \in 1..Len(w) : u[i + 1] = w[i]
        /\ OutAt(u, 1)
    BY <1>1, <2>1 DEF Follows
  <2>. HIDE DEF u, w
  <2>3. 3 <= Len(w) /\ 1 \in 1..Len(w) /\ 2 \in 1..Len(w) /\ 3 \in 1..Len(w)
    BY <1>2, <2>2 DEF OutAt
  <2>4. u[1 + 1] = w[1] /\ u[2 + 1] = w[2] /\ u[3 + 1] = w[3]
    BY <2>2, <2>3
  <2>5. x = "$" /\ w[1] = "o" /\ w[2] = "u" /\ w[3] = "t"
    BY <2>2, <2>4 DEF OutAt
  <2>. QED BY <1>3, <2>3, <2>5
<1>. DEFINE c1 == <<"t">>
<1>4. /\ DOMAIN v = 1..3 /\ v[1] = "o" /\ v[2] = "u" /\ v[3] = "t"
      /\ DOMAIN ut = 1..2 /\ ut[1] = "u" /\ ut[2] = "t"
      /\ DOMAIN c1 = 1..1 /\ c1[1] = "t"
      /\ \A i \in 1..2 : ut[i] = v[i + 1]
      /\ \A i \in 1..1 : c1[i] = ut[i + 1]
      /\ \A i \in 1..0 : <<>>[i] = c1[i + 1]
      /\ DOMAIN <<>> = 1..0
  OBVIOUS
<1>5. /\ t[1] = "$" /\ 1 \in 1..Len(t)
      /\ \A i \in 1..Len(r) : t[i + 1] = r[i]
      /\ InAt(t, 2) => ~Begins(J, 1, v)
      /\ t[2] = "o" /\ InAt(t, 3) => ~Begins(J, 1, ut)
      /\ t[2] = "o" /\ t[3] = "u" /\ InAt(t, 4) => ~Begins(J, 1, c1)
  <2>1. t[1] = "$" /\ 1 \in 1..Len(t) /\ \A i \in 1..Len(r) : t[i + 1] = r[i]
    BY <1>1, <1>2, <1>3 DEF Follows
  <2>2. 1 + 1 = 2 /\ 1 + 2 = 3 /\ 1 + 3 = 4
    OBVIOUS
  <2>. QED BY <2>1, <2>2 DEF Clear
<1>. HIDE DEF v, ut, c1
<1>6. \/ InAt(r, 1) /\ Begins(J, 1, v)
      \/ \E s \in Seq(Piece) :
           Follows(r, v[1], s) /\ Leads(ut, Replaced(s, InFiles(J)), 2)
  <2>1. Leads(v, w, 3)
    BY <1>3, <1>4 DEF Leads
  <2>2. 2 \in Nat /\ 3 = 2 + 1
    OBVIOUS
  <2>. QED BY <1>4, <2>1, <2>2, PieceByPiece
<1>7. ~(InAt(r, 1) /\ Begins(J, 1, v))
  <2>1. InAt(r, 1) => InAt(t, 2)
    BY <1>1, <1>2 DEF InAt, Follows
  <2>. QED BY <1>5, <2>1
<1>8. PICK s \in Seq(Piece) :
        Follows(r, "o", s) /\ Leads(ut, Replaced(s, InFiles(J)), 2)
  BY <1>4, <1>6, <1>7
<1>9. Len(s) \in Nat /\ Len(r) = Len(s) + 1 /\ r[1] = "o" /\ t[2] = "o"
      /\ \A i \in 1..Len(s) : r[i + 1] = s[i] /\ t[i + 2] = s[i]
  <2>1. /\ Len(s) \in Nat /\ Len(r) = Len(s) + 1 /\ r[1] = "o"
        /\ \A i \in 1..Len(s) : r[i + 1] = s[i]
    BY <1>8, LenProperties DEF Follows
  <2>2. t[2] = r[1]
    BY <1>2, <1>5, <2>1
  <2>3. \A i \in 1..Len(s) : i + 1 \in 1..Len(r) /\ (i + 1) + 1 = i + 2
    BY <2>1
  <2>. QED BY <1>5, <2>1, <2>2, <2>3
<1>10. \/ InAt(s, 1) /\ Begins(J, 1, ut)
       \/ \E p \in Seq(Piece) :
            Follows(s, ut[1], p) /\ Leads(c1, Replaced(p, InFiles(J)), 1)
  <2>1. 1 \in Nat /\ 2 = 1 + 1
    OBVIOUS
  <2>. QED BY <1>4, <1>8, <2>1, PieceByPiece
<1>11. ~(InAt(s, 1) /\ Begins(J, 1, ut))
  <2>1. SUFFICES ASSUME InAt(s, 1) PROVE ~Begins(J, 1, ut)
    OBVIOUS
  <2>2. /\ 3 <= Len(s) /\ Len(t) = Len(s) + 2
        /\ s[1] = "$" /\ s[2] = "i" /\ s[3] = "n"
    BY <1>1, <1>2, <1>9, <2>1 DEF InAt, Follows
  <2>3. 1 \in 1..Len(s) /\ 2 \in 1..Len(s) /\ 3 \in 1..Len(s)
    BY <1>9, <2>2
  <2>4. t[1 + 2] = s[1] /\ t[2 + 2] = s[2] /\ t[3 + 2] = s[3]
    BY <1>9, <2>3
  <2>5. InAt(t, 3)
    BY <1>9, <2>2, <2>4 DEF InAt
  <2>. QED BY <1>5, <1>9, <2>5
<1>12. PICK p \in Seq(Piece) :
        Follows(s, "u", p) /\ Leads(c1, Replaced(p, InFiles(J)), 1)
  BY <1>4, <1>10, <1>11
<1>13. Len(p) \in Nat /\ Len(s) = Len(p) + 1 /\ t[3] = "u"
       /\ \A i \in 1..Len(p) : t[i + 3] = p[i]
  <2>1. /\ Len(p) \in Nat /\ Len(s) = Len(p) + 1 /\ s[1] = "u"
        /\ \A i \in 1..Len(p) : s[i + 1] = p[i]
    BY <1>12, LenProperties DEF Follows
  <2>2. t[3] = s[1]
    BY <1>9, <2>1
  <2>3. \A i \in 1..Len(p) : i + 1 \in 1..Len(s) /\ (i + 1) + 2 = i + 3
    BY <2>1
  <2>. QED BY <1>9, <2>1, <2>2, <2>3
<1>14. \/ InAt(p, 1) /\ Begins(J, 1, c1)
       \/ \E q \in Seq(Piece) :
            Follows(p, c1[1], q) /\ Leads(<<>>, Replaced(q, InFiles(J)), 0)
  <2>1. 0 \in Nat /\ 1 = 0 + 1
    OBVIOUS
  <2>. QED BY <1>4, <1>12, <2>1, PieceByPiece
<1>15. ~(InAt(p, 1) /\ Begins(J, 1, c1))
  <2>1. Len(t) = Len(p) + 3
    BY <1>1, <1>2, <1>9, <1>13 DEF Follows
  <2>2. SUFFICES ASSUME InAt(p, 1) PROVE ~Begins(J, 1, c1)
    OBVIOUS
  <2>3. 3 <= Len(p) /\ p[1] = "$" /\ p[2] = "i" /\ p[3] = "n"
    BY <1>13, <2>2 DEF InAt
  <2>4. 1 \in 1..Len(p) /\ 2 \in 1..Len(p) /\ 3 \in 1..Len(p)
    BY <1>13, <2>3
  <2>5. t[1 + 3] = p[1] /\ t[2 + 3] = p[2] /\ t[3 + 3] = p[3]
    BY <1>13, <2>4
  <2>6. InAt(t, 4)
    BY <1>13, <2>1, <2>3, <2>5 DEF InAt
  <2>. QED BY <1>5, <1>9, <1>13, <2>6
<1>16. PICK q \in Seq(Piece) : Follows(p, "t", q)
  BY <1>4, <1>14, <1>15
<1>17. Len(p) >= 1 /\ p[1] = "t"
  BY <1>13, <1>16, LenProperties DEF Follows
<1>18. t[4] = "t" /\ 4 <= Len(t)
  <2>1. Len(t) = Len(p) + 3
    BY <1>1, <1>2, <1>9, <1>13 DEF Follows
  <2>2. 1 \in 1..Len(p) /\ 1 + 3 = 4
    BY <1>13, <1>17
  <2>3. t[4] = p[1]
    BY <1>13, <2>2
  <2>. QED BY <1>13, <1>17, <2>1, <2>3
<1>. QED BY <1>5, <1>9, <1>13, <1>18 DEF OutAt

(* Both variables at once, or first $in and then $out.                     *)
AtOnce(J, O, t) ==
  Replaced(Replaced(t, InFiles(J)), OutFiles(O)) = Replaced(t, AllFiles(J, O))

LEMMA OneAfterTheOther ==
  ASSUME NEW J \in Seq(Piece), NEW O \in Seq(Piece), NoOut(J)
  PROVE  \A t \in Seq(Piece) : Clear(t, J) => AtOnce(J, O, t)
<1>. DEFINE S == {n \in Nat : \A t \in Seq(Piece) :
                    Len(t) <= n /\ Clear(t, J) => AtOnce(J, O, t)}
<1>1. /\ InFiles(J) \in Files /\ DOMAIN InFiles(J) = {In}
      /\ InFiles(J)[In] = J
      /\ OutFiles(O) \in Files /\ DOMAIN OutFiles(O) = {Out}
      /\ OutFiles(O)[Out] = O
      /\ AllFiles(J, O) \in Files /\ DOMAIN AllFiles(J, O) = {In, Out}
      /\ AllFiles(J, O)[In] = J /\ AllFiles(J, O)[Out] = O
  BY FilesAre
<1>. HIDE DEF InFiles, OutFiles, AllFiles
<1>2. AtOnce(J, O, <<>>)
  <2>1. <<>> \in Seq(Piece)
    OBVIOUS
  <2>2. /\ Replaced(<<>>, InFiles(J)) = <<>>
        /\ Replaced(<<>>, OutFiles(O)) = <<>>
        /\ Replaced(<<>>, AllFiles(J, O)) = <<>>
    BY <1>1, <2>1, ReplacedHead
  <2>. QED BY <2>2 DEF AtOnce
<1>3. 0 \in S
  <2>1. \A t \in Seq(Piece) : Len(t) <= 0 => t = <<>>
    BY EmptySeq, LenProperties
  <2>. QED BY <1>2, <2>1
<1>4. ASSUME NEW n \in S PROVE n + 1 \in S
  <2>1. SUFFICES ASSUME NEW t \in Seq(Piece), Len(t) <= n + 1, Clear(t, J),
                        t # <<>>
                 PROVE  AtOnce(J, O, t)
    BY <1>2
  <2>2. PICK r \in Seq(Piece) :
          /\ Len(r) < Len(t)
          /\ \/ t = In \o r
             \/ t = Out \o r
             \/ /\ ~InAt(t, 1) /\ ~OutAt(t, 1)
                /\ \E x \in Piece : t = <<x>> \o r
    BY <2>1, Heads
  <2>3. Len(r) <= n
    BY <2>1, <2>2, LenProperties
  <2>. DEFINE w == Replaced(r, InFiles(J))
              o == Replaced(w, OutFiles(O))
  <2>4. /\ w \in Seq(Piece) /\ o \in Seq(Piece)
    BY <1>1, BitTyped
  <2>5. ASSUME Clear(r, J) PROVE Replaced(r, AllFiles(J, O)) = o
    BY <1>4, <2>3, <2>5 DEF AtOnce
  <2>. HIDE DEF S
  <2>6. CASE t = In \o r
    <3>1. Clear(r, J)
      BY <2>1, <2>6, Variables, ClearBehind
    <3>2. Replaced(t, InFiles(J)) = J \o w
      BY <1>1, <2>6, ReplacedHead
    <3>3. Replaced(J \o w, OutFiles(O)) = J \o o
      BY <2>4, FilesKept
    <3>4. Replaced(t, AllFiles(J, O)) = J \o Replaced(r, AllFiles(J, O))
      BY <1>1, <2>6, ReplacedHead
    <3>. QED BY <2>5, <3>1, <3>2, <3>3, <3>4 DEF AtOnce
  <2>7. CASE t = Out \o r
    <3>1. Clear(r, J)
      BY <2>1, <2>7, Variables, ClearBehind
    <3>2. Replaced(t, InFiles(J)) = Out \o w
      BY <1>1, <2>7, ReplacedHead, Variables
    <3>3. Replaced(Out \o w, OutFiles(O)) = O \o o
      BY <1>1, <2>4, ReplacedHead
    <3>4. Replaced(t, AllFiles(J, O)) = O \o Replaced(r, AllFiles(J, O))
      BY <1>1, <2>7, ReplacedHead
    <3>. QED BY <2>5, <3>1, <3>2, <3>3, <3>4 DEF AtOnce
  <2>8. ASSUME ~InAt(t, 1), ~OutAt(t, 1), NEW x \in Piece, t = <<x>> \o r
        PROVE  AtOnce(J, O, t)
    <3>1. Clear(r, J)
      <4>1. <<x>> \in Seq(Piece)
        OBVIOUS
      <4>. QED BY <2>1, <2>8, <4>1, ClearBehind
    <3>2. 1 \in 1..Len(t)
      BY <2>1, LenProperties, EmptySeq
    <3>3. ~StartsWith(t, 1, In) /\ ~StartsWith(t, 1, Out)
      BY <2>8, <3>2, VariableAt
    <3>4. Replaced(t, InFiles(J)) = <<x>> \o w
      <4>1. ~VarAt(InFiles(J), <<x>> \o r, 1)
        BY <1>1, <2>8, <3>3 DEF VarAt
      <4>. QED BY <1>1, <2>8, <4>1, ReplacedHead
    <3>5. Replaced(t, AllFiles(J, O)) = <<x>> \o Replaced(r, AllFiles(J, O))
      <4>1. ~VarAt(AllFiles(J, O), <<x>> \o r, 1)
        BY <1>1, <2>8, <3>3 DEF VarAt
      <4>. QED BY <1>1, <2>8, <4>1, ReplacedHead
    <3>6. Replaced(<<x>> \o w, OutFiles(O)) = <<x>> \o o
      <4>1. ~OutAt(<<x>> \o w, 1)
        BY <2>1, <2>8, NoOutArises
      <4>2. <<x>> \o w \in Seq(Piece) /\ 1 \in 1..Len(<<x>> \o w)
        <5>1. <<x>> \in Seq(Piece) /\ Len(<<x>>) = 1
          OBVIOUS
        <5>2. Len(<<x>> \o w) = 1 + Len(w) /\ Len(w) \in Nat
          BY <2>4, <5>1, PiecesConcat
        <5>. QED BY <2>4, <5>1, <5>2, PiecesConcat
      <4>3. ~VarAt(OutFiles(O), <<x>> \o w, 1)
        BY <1>1, <4>1, <4>2, VariableAt DEF VarAt
      <4>. QED BY <1>1, <2>4, <4>3, ReplacedHead
    <3>. QED BY <2>5, <3>1, <3>4, <3>5, <3>6 DEF AtOnce
  <2>. QED BY <2>2, <2>6, <2>7, <2>8
<1>. HIDE DEF S
<1>5. \A n \in Nat : n \in S
  <2>1. S \subseteq Nat
    BY DEF S
  <2>. QED BY <1>3, <1>4, <2>1, Induction
<1>6. \A t \in Seq(Piece) : Len(t) \in S
  BY <1>5, LenProperties
<1>7. \A t \in Seq(Piece) : Len(t) <= Len(t)
  BY LenProperties
<1>. QED BY <1>6, <1>7 DEF S

-----------------------------------------------------------------------------
LEMMA NothingArises ==
  ASSUME NEW e, e.inputs \in Seq(Path), NEW text \in Seq(Piece),
         NoneArises(e, text)
  PROVE  NoOut(Joined(e.inputs)) /\ Clear(text, Joined(e.inputs))
<1>. DEFINE J == Joined(e.inputs)
            v == <<"o", "u", "t">>  ut == <<"u", "t">>  c1 == <<"t">>
<1>1. J \in Seq(Piece)
  BY JoinedTyped
<1>2. /\ \A i \in DOMAIN J : ~Begins(J, i, Out)
      /\ \A i \in DOMAIN text, m \in 1..3 :
           StartsWith(text, i + m, In)
             /\ (\A k \in 1..m : text[i + k - 1] = Out[k])
             => ~Begins(J, 1 - m, Out)
  BY DEF NoneArises
<1>. HIDE DEF J
<1>3. /\ DOMAIN J = 1..Len(J) /\ Len(J) \in Nat /\ Len(text) \in Nat
      /\ DOMAIN text = 1..Len(text)
  BY <1>1, LenProperties
<1>4. NoOut(J)
  BY <1>2, <1>3 DEF NoOut
<1>5. /\ DOMAIN v = 1..3 /\ v[1] = "o" /\ v[2] = "u" /\ v[3] = "t"
      /\ DOMAIN ut = 1..2 /\ ut[1] = "u" /\ ut[2] = "t"
      /\ DOMAIN c1 = 1..1 /\ c1[1] = "t"
  OBVIOUS
<1>. HIDE DEF v, ut, c1
<1>6. ASSUME NEW m \in 1..3, NEW y, DOMAIN y = 1..4 - m,
             \A k \in 1..4 - m : y[k] = Out[m + k], Begins(J, 1, y)
      PROVE  Begins(J, 1 - m, Out)
  <2>1. SUFFICES ASSUME NEW k \in 1..4, 1 - m + k - 1 \in 1..Len(J)
                 PROVE  J[1 - m + k - 1] = Out[k]
    BY <1>3, Variables DEF Begins
  <2>. DEFINE l == k - m
  <2>2. /\ l \in 1..4 - m /\ 1 - m + k - 1 = l /\ 1 + l - 1 = l /\ m + l = k
        /\ l \in 1..Len(J)
    BY <1>3, <2>1
  <2>. HIDE DEF l
  <2>3. J[1 + l - 1] = y[l]
    BY <1>3, <1>6, <2>2 DEF Begins
  <2>. QED BY <1>6, <2>2, <2>3
<1>7. ASSUME NEW i \in 1..Len(text), NEW m \in 1..3, InAt(text, i + m),
             \A k \in 1..m : text[i + k - 1] = Out[k]
      PROVE  ~Begins(J, 1 - m, Out)
  <2>1. i + m \in 1..Len(text)
    BY <1>3, <1>7 DEF InAt
  <2>2. StartsWith(text, i + m, In)
    BY <1>7, <2>1, VariableAt
  <2>. QED BY <1>2, <1>3, <1>7, <2>2
<1>8. /\ Begins(J, 1, v) => Begins(J, 1 - 1, Out)
      /\ Begins(J, 1, ut) => Begins(J, 1 - 2, Out)
      /\ Begins(J, 1, c1) => Begins(J, 1 - 3, Out)
  <2>1. /\ DOMAIN v = 1..4 - 1 /\ DOMAIN ut = 1..4 - 2 /\ DOMAIN c1 = 1..4 - 3
        /\ \A k \in 1..4 - 1 : v[k] = Out[1 + k]
        /\ \A k \in 1..4 - 2 : ut[k] = Out[2 + k]
        /\ \A k \in 1..4 - 3 : c1[k] = Out[3 + k]
    BY <1>5, Variables
  <2>2. 1 \in 1..3 /\ 2 \in 1..3 /\ 3 \in 1..3
    OBVIOUS
  <2>3. Begins(J, 1, v) => Begins(J, 1 - 1, Out)
    BY <1>6, <2>1, <2>2
  <2>4. Begins(J, 1, ut) => Begins(J, 1 - 2, Out)
    BY <1>6, <2>1, <2>2
  <2>5. Begins(J, 1, c1) => Begins(J, 1 - 3, Out)
    BY <1>6, <2>1, <2>2
  <2>. QED BY <2>3, <2>4, <2>5
<1>9. ASSUME NEW i \in 1..Len(text)
      PROVE  /\ text[i] = "$" /\ InAt(text, i + 1) => ~Begins(J, 1, v)
             /\ text[i] = "$" /\ text[i + 1] = "o" /\ InAt(text, i + 2)
                  => ~Begins(J, 1, ut)
             /\ text[i] = "$" /\ text[i + 1] = "o" /\ text[i + 2] = "u"
                  /\ InAt(text, i + 3) => ~Begins(J, 1, c1)
  <2>1. i + 1 - 1 = i /\ i + 2 - 1 = i + 1 /\ i + 3 - 1 = i + 2
    BY <1>3
  <2>2. 1 \in 1..3 /\ 2 \in 1..3 /\ 3 \in 1..3
    OBVIOUS
  <2>3. /\ text[i] = "$" => \A k \in 1..1 : text[i + k - 1] = Out[k]
        /\ text[i] = "$" /\ text[i + 1] = "o"
             => \A k \in 1..2 : text[i + k - 1] = Out[k]
        /\ text[i] = "$" /\ text[i + 1] = "o" /\ text[i + 2] = "u"
             => \A k \in 1..3 : text[i + k - 1] = Out[k]
    BY <2>1, Variables
  <2>4. text[i] = "$" /\ InAt(text, i + 1) => ~Begins(J, 1, v)
    BY <1>7, <1>8, <2>2, <2>3
  <2>5. text[i] = "$" /\ text[i + 1] = "o" /\ InAt(text, i + 2)
          => ~Begins(J, 1, ut)
    BY <1>7, <1>8, <2>2, <2>3
  <2>6. text[i] = "$" /\ text[i + 1] = "o" /\ text[i + 2] = "u"
          /\ InAt(text, i + 3) => ~Begins(J, 1, c1)
    BY <1>7, <1>8, <2>2, <2>3
  <2>. QED BY <2>4, <2>5, <2>6
<1>10. Clear(text, J)
  BY <1>9 DEF Clear, v, ut, c1
<1>. QED BY <1>4, <1>10 DEF J

LEMMA ExpandedAsWritten ==
  ASSUME NEW e, e.inputs \in Seq(Path), e.outputs \in Seq(Path),
         NEW text \in Seq(Piece)
  PROVE  /\ NoneArises(e, text) => Expanded(e, text) = AsWritten(e, text)
         /\ AsWritten(e, <<>>) = <<>>
<1>. DEFINE J == Joined(e.inputs)  O == Joined(e.outputs)
<1>1. J \in Seq(Piece) /\ O \in Seq(Piece)
  BY JoinedTyped
<1>2. \A t : AsWritten(e, t) = Replaced(t, AllFiles(J, O))
  BY DEF AsWritten, AllFiles
<1>3. \A t : Expanded(e, t) =
               Replaced(Replaced(t, InFiles(J)), OutFiles(O))
  BY DEF Expanded, replace_all, InFiles, OutFiles
<1>4. NoneArises(e, text) => NoOut(J) /\ Clear(text, J)
  BY NothingArises
<1>. HIDE DEF J, O
<1>5. NoneArises(e, text) => AtOnce(J, O, text)
  BY <1>1, <1>4, OneAfterTheOther
<1>6. Replaced(<<>>, AllFiles(J, O)) = <<>>
  <2>1. AllFiles(J, O) \in Files
    BY <1>1, FilesAre
  <2>2. <<>> \in Seq(Piece)
    OBVIOUS
  <2>. HIDE DEF AllFiles
  <2>. QED BY <2>1, <2>2, ReplacedHead
<1>. QED BY <1>2, <1>3, <1>5, <1>6 DEF AtOnce

-----------------------------------------------------------------------------
(* The words of the files that a depfile names.                            *)
LEMMA SegmentsRead ==
  ASSUME NEW ins \in Seq(Path), NEW blanks \in [DOMAIN ins -> Blanks],
         "backslash" \notin Spelled(ins)
  PROVE  LET rest == FlattenSeq([i \in 1..Len(ins) |->
                                   blanks[i] \o Spelling[ins[i]]]) IN
           /\ rest \in Seq(Piece) /\ Whole(rest)
           /\ WordsOf(Normalized(rest)) = Spell(ins)
<1>. DEFINE g == [i \in 1..Len(ins) |-> blanks[i] \o Spelling[ins[i]]]
            w == [i \in 1..Len(ins) |-> Spelling[ins[i]]]
            segs(k) == [i \in 1..k |-> g[i]]
            names(k) == [i \in 1..k |-> w[i]]
            Right(k) == /\ segs(k) \in Seq(Seq(Piece))
                        /\ Whole(FlattenSeq(segs(k)))
                        /\ WordsOf(Normalized(FlattenSeq(segs(k)))) = names(k)
            S == {k \in Nat : k <= Len(ins) => Right(k)}
<1>0. Len(ins) \in Nat /\ DOMAIN ins = 1..Len(ins)
  BY LenProperties
<1>1. ASSUME NEW i \in 1..Len(ins)
      PROVE  /\ blanks[i] \in Seq(Piece) /\ Whole(blanks[i])
             /\ Normalized(blanks[i]) \in Seq({"space"})
             /\ Normalized(blanks[i]) # <<>>
             /\ w[i] \in Seq(Piece) /\ w[i] \in Seq(Piece \ Blank)
             /\ w[i] # <<>> /\ "backslash" \notin Range(w[i])
             /\ g[i] = blanks[i] \o w[i] /\ g[i] \in Seq(Piece)
  <2>1. /\ blanks[i] \in Seq(Piece) /\ Whole(blanks[i])
        /\ Normalized(blanks[i]) \in Seq({"space"})
        /\ Normalized(blanks[i]) # <<>>
    BY <1>0, NormalizedBlanks
  <2>2. /\ w[i] \in Seq(Piece) /\ w[i] \in Seq(Piece \ Blank)
        /\ w[i] # <<>> /\ "backslash" \notin Range(w[i])
    BY SpellingTyped
  <2>3. g[i] = blanks[i] \o w[i]
    OBVIOUS
  <2>. HIDE DEF g, w
  <2>4. blanks[i] \o w[i] \in Seq(Piece)
    BY <2>1, <2>2, ConcatParts
  <2>. QED BY <2>1, <2>2, <2>3, <2>4
<1>2. segs(Len(ins)) = g /\ names(Len(ins)) = Spell(ins)
  BY <1>0 DEF Spell
<1>. HIDE DEF g, w
<1>3. 0 \in S
  <2>1. segs(0) = <<>> /\ names(0) = <<>>
    OBVIOUS
  <2>2. <<>> \in Seq(Seq(Piece)) /\ <<>> \in Seq(Piece)
    OBVIOUS
  <2>3. FlattenSeq(<<>>) = <<>>
    BY <2>2, FlattenValue
  <2>4. "backslash" \notin Range(<<>>)
    BY DEF Range
  <2>5. Whole(<<>>) /\ Normalized(<<>>) = <<>>
    BY <2>2, <2>4, NormalizedPlain
  <2>6. WordsOf(<<>>) = <<>>
    BY WordsSteps
  <2>. HIDE DEF segs, names
  <2>. QED BY <2>1, <2>2, <2>3, <2>5, <2>6
<1>4. ASSUME NEW k \in S PROVE k + 1 \in S
  <2>. SUFFICES ASSUME k + 1 <= Len(ins) PROVE Right(k + 1)
    OBVIOUS
  <2>1. k \in Nat /\ k + 1 \in 1..Len(ins) /\ Right(k)
    BY <1>0
  <2>. DEFINE b == blanks[k + 1]  u == w[k + 1]  f == FlattenSeq(segs(k))
  <2>2. /\ b \in Seq(Piece) /\ Whole(b) /\ Normalized(b) \in Seq({"space"})
        /\ Normalized(b) # <<>>
        /\ u \in Seq(Piece) /\ u \in Seq(Piece \ Blank)
        /\ u # <<>> /\ "backslash" \notin Range(u)
        /\ g[k + 1] = b \o u /\ b \o u \in Seq(Piece)
    BY <1>1, <2>1
  <2>3. /\ segs(k + 1) \in Seq(Seq(Piece))
        /\ segs(k + 1) = Append(segs(k), g[k + 1])
    <3>1. \A i \in 1..k + 1 : g[i] \in Seq(Piece)
      BY <1>0, <1>1, <2>1
    <3>2. segs(k + 1) = Append(segs(k), g[k + 1])
      BY <2>1, <3>1, FirstAndNext
    <3>3. g[k + 1] \in Seq(Piece)
      BY <2>2
    <3>4. segs(k) \in Seq(Seq(Piece))
      BY <2>1
    <3>. DEFINE a == segs(k)  v == g[k + 1]
    <3>. HIDE DEF segs, a, v
    <3>5. Append(a, v) \in Seq(Seq(Piece))
      BY <3>3, <3>4, AppendProperties DEF a, v
    <3>. QED BY <3>2, <3>5 DEF a, v
  <2>4. names(k + 1) = Append(names(k), u)
    <3>1. \A i \in 1..k + 1 : w[i] \in Seq(Piece)
      BY <1>0, <1>1, <2>1
    <3>. QED BY <2>1, <3>1, FirstAndNext
  <2>5. segs(k) \in Seq(Seq(Piece)) /\ Whole(f)
        /\ WordsOf(Normalized(f)) = names(k)
    BY <2>1
  <2>. HIDE DEF segs, names, b, u
  <2>6. f \in Seq(Piece)
    BY <2>5, FlattenTyped
  <2>7. FlattenSeq(segs(k + 1)) = f \o (b \o u)
    BY <2>2, <2>3, <2>5, FlattenAppend
  <2>. HIDE DEF f
  <2>8. Whole(b \o u) /\ Normalized(b \o u) = Normalized(b) \o u
    <3>1. Whole(u) /\ Normalized(u) = u
      BY <2>2, NormalizedPlain
    <3>2. Whole(b \o u)
      BY <2>2, <3>1, WholeConcat
    <3>3. Normalized(b \o u) = Normalized(b) \o Normalized(u)
      BY <2>2, NormalizedConcat
    <3>. QED BY <3>1, <3>2, <3>3
  <2>9. Whole(f \o (b \o u))
    BY <2>2, <2>5, <2>6, <2>8, WholeConcat
  <2>10. Normalized(f \o (b \o u)) = Normalized(f) \o (Normalized(b) \o u)
    <3>1. Normalized(f \o (b \o u)) = Normalized(f) \o Normalized(b \o u)
      BY <2>2, <2>5, <2>6, NormalizedConcat
    <3>. QED BY <2>8, <3>1
  <2>. DEFINE nf == Normalized(f)  nb == Normalized(b)
  <2>11. /\ nf \in Seq(Piece) /\ nb \in Seq(Piece) /\ nb \in Seq(Blank)
         /\ nb # <<>>
    <3>1. nf \in Seq(Piece) /\ nb \in Seq(Piece)
      BY <2>2, <2>6, LeftTyped
    <3>2. nb \in Seq({"space"}) /\ "space" \in Blank
      BY <2>2 DEF Blank
    <3>3. nb \in Seq(Blank)
      <4>. HIDE DEF nb
      <4>. QED BY <3>2
    <3>. QED BY <2>2, <3>1, <3>3
  <2>12. WordsOf(Normalized(f \o (b \o u))) = Append(names(k), u)
    <3>. HIDE DEF nf, nb
    <3>1. nf \o (nb \o u) = (nf \o nb) \o u
      <4>1. nf \in Seq(Piece) /\ nb \in Seq(Piece) /\ u \in Seq(Piece)
        BY <2>2, <2>11
      <4>. QED BY <4>1, PiecesAssociate
    <3>2. nf \o nb \in Seq(Piece) /\ WordsOf(nf \o nb) = WordsOf(nf)
      BY <2>11, WordsBlanks
    <3>3. (nf \o nb)[Len(nf \o nb)] \in Blank
      <4>1. /\ Len(nf) \in Nat /\ Len(nb) \in Nat
            /\ Len(nf \o nb) = Len(nf) + Len(nb)
            /\ \A i \in 1..Len(nb) : (nf \o nb)[Len(nf) + i] = nb[i]
        BY <2>11, ConcatParts
      <4>2. Len(nb) \in 1..Len(nb)
        BY <2>11, <4>1, EmptySeq
      <4>3. nb[Len(nb)] \in Blank
        BY <2>11, <4>2, ElementOfSeq
      <4>. QED BY <4>1, <4>2, <4>3
    <3>4. WordsOf((nf \o nb) \o u) = Append(WordsOf(nf \o nb), u)
      BY <2>2, <3>2, <3>3, WordsWord
    <3>5. Normalized(f \o (b \o u)) = nf \o (nb \o u)
      BY <2>10 DEF nf, nb
    <3>6. WordsOf(nf) = names(k)
      BY <2>5 DEF nf
    <3>. QED BY <3>1, <3>2, <3>4, <3>5, <3>6
  <2>. QED BY <2>3, <2>4, <2>7, <2>9, <2>12
<1>5. S \in SUBSET Nat
  OBVIOUS
<1>. HIDE DEF S
<1>6. S = Nat
  BY <1>3, <1>4, <1>5, Induction
<1>7. Right(Len(ins))
  <2>1. Len(ins) \in S /\ Len(ins) <= Len(ins)
    BY <1>0, <1>6
  <2>. HIDE DEF Right
  <2>. QED BY <2>1 DEF S
<1>. HIDE DEF segs, names
<1>8. /\ g \in Seq(Seq(Piece)) /\ Whole(FlattenSeq(g))
      /\ WordsOf(Normalized(FlattenSeq(g))) = Spell(ins)
  BY <1>2, <1>7
<1>9. FlattenSeq(g) \in Seq(Piece)
  BY <1>8, FlattenTyped
<1>. QED BY <1>8, <1>9 DEF g

(* What stands before the first colon, and the words behind it.            *)
LEMMA ParsedLine ==
  ASSUME NEW text \in Seq(Piece), NEW before \in Seq(Piece),
         NEW behind \in Seq(Piece), "colon" \notin Range(before),
         Normalized(text) = before \o (<<"colon">> \o behind)
  PROVE  Parsed(text) = [ok |-> TRUE, output |-> before,
                         inputs |-> WordsOf(behind)]
<1>. DEFINE line == Normalized(text)
            n == Len(before)
            tail == <<"colon">> \o behind
            colons == {i \in DOMAIN line : line[i] = "colon"}
            colon == CHOOSE i \in colons : \A j \in colons : i <= j
<1>0. <<"colon">> \in Seq(Piece) /\ Len(<<"colon">>) = 1
      /\ <<"colon">>[1] = "colon"
  BY Pieces
<1>1. /\ tail \in Seq(Piece) /\ Len(tail) = 1 + Len(behind)
      /\ Len(behind) \in Nat /\ tail[1] = "colon"
      /\ SubSeq(tail, 2, Len(tail)) = behind
  <2>. DEFINE c == <<"colon">>
  <2>1. c \in Seq(Piece) /\ Len(c) = 1 /\ c[1] = "colon"
    BY <1>0
  <2>. HIDE DEF c
  <2>2. /\ c \o behind \in Seq(Piece) /\ Len(c \o behind) = 1 + Len(behind)
        /\ Len(behind) \in Nat /\ (c \o behind)[1] = "colon"
    <3>1. /\ c \o behind \in Seq(Piece)
          /\ Len(c \o behind) = Len(c) + Len(behind)
          /\ Len(behind) \in Nat
          /\ \A i \in 1..Len(c) : (c \o behind)[i] = c[i]
      BY <2>1, PiecesConcat
    <3>2. 1 \in 1..Len(c)
      BY <2>1
    <3>. QED BY <2>1, <3>1, <3>2
  <2>3. SubSeq(c \o behind, Len(c) + 1, Len(c \o behind)) = behind
    BY <2>1, Halves
  <2>. QED BY <2>1, <2>2, <2>3 DEF c
<1>. HIDE DEF tail
<1>2. line = before \o tail
  BY DEF tail
<1>. HIDE DEF line
<1>3. /\ n \in Nat /\ line \in Seq(Piece) /\ Len(line) = n + Len(tail)
      /\ \A i \in 1..n : line[i] = before[i]
      /\ \A i \in 1..Len(tail) : line[n + i] = tail[i]
  <2>1. /\ Len(before) \in Nat /\ before \o tail \in Seq(Piece)
        /\ Len(before \o tail) = Len(before) + Len(tail)
        /\ \A i \in 1..Len(before) : (before \o tail)[i] = before[i]
        /\ \A i \in 1..Len(tail) : (before \o tail)[Len(before) + i] = tail[i]
    BY <1>1, PiecesConcat
  <2>. QED BY <1>2, <2>1
<1>4. DOMAIN line = 1..Len(line) /\ 1 \in 1..Len(tail) /\ Len(tail) \in Nat
  BY <1>1, <1>3, LenProperties
<1>5. n + 1 \in colons
  BY <1>1, <1>3, <1>4
<1>6. \A i \in colons : n + 1 <= i
  <2>1. \A i \in 1..n : before[i] # "colon"
    BY LenProperties DEF Range
  <2>2. \A i \in 1..n : line[i] # "colon"
    BY <1>3, <2>1
  <2>. HIDE DEF n
  <2>3. \A i \in 1..Len(line) : i \in Int /\ 1 <= i
    BY <1>3, <1>4
  <2>. QED BY <1>3, <1>4, <2>2, <2>3
<1>7. colon = n + 1
  <2>1. colon \in colons /\ \A j \in colons : colon <= j
    BY <1>5, <1>6
  <2>2. \A i \in colons : i \in Nat
    BY <1>3, <1>4
  <2>. HIDE DEF colon, colons
  <2>. QED BY <1>3, <1>5, <1>6, <2>1, <2>2
<1>8. colons # {}
  BY <1>5
<1>9. SubSeq(line, 1, colon - 1) = before
  <2>1. SubSeq(line, 1, n) = before
    BY <1>1, <1>2, Halves
  <2>2. colon - 1 = n
    <3>. HIDE DEF colon, n
    <3>. QED BY <1>3, <1>7
  <2>. QED BY <2>1, <2>2
<1>10. SubSeq(line, colon + 1, Len(line)) = behind
  <2>. DEFINE p == before \o <<"colon">>
  <2>1. line = p \o behind
    BY <1>0, <1>2, PiecesAssociate DEF tail
  <2>2. p \in Seq(Piece) /\ Len(p) = n + 1
    BY <1>0, PiecesConcat
  <2>. HIDE DEF p
  <2>3. SubSeq(line, Len(p) + 1, Len(line)) = behind
    BY <2>1, <2>2, Halves
  <2>. QED BY <1>7, <2>2, <2>3
<1>. HIDE DEF colon, colons, n
<1>11. Parsed(text) = IF colons = {}
                      THEN [ok |-> FALSE, output |-> <<>>, inputs |-> <<>>]
                      ELSE [ok |-> TRUE, output |-> SubSeq(line, 1, colon - 1),
                            inputs |-> WordsOf(SubSeq(line, colon + 1,
                                                      Len(line)))]
  BY Zenon DEF Parsed, colon, colons, line
<1>. QED BY <1>8, <1>9, <1>10, <1>11

LEMMA DepfileRead ==
  ASSUME NEW e, e.inputs \in Seq(Path), e.outputs \in Seq(Path),
         e.outputs # <<>>,
         (Spelled(e.outputs) \cup Spelled(e.inputs))
            \cap {"colon", "backslash"} = {},
         NEW blanks \in [DOMAIN e.inputs -> Blanks]
  PROVE  Parsed(DepfileText(e, blanks)) =
           [ok |-> TRUE, output |-> Spelling[e.outputs[1]],
            inputs |-> Spell(e.inputs)]
<1>. DEFINE out == Spelling[e.outputs[1]]
            c == <<"colon">>  nl == <<"newline">>
            rest == FlattenSeq([i \in 1..Len(e.inputs) |->
                                  blanks[i] \o Spelling[e.inputs[i]]])
<1>1. out \in Seq(Piece) /\ Range(out) \cap {"colon", "backslash"} = {}
  <2>1. 1 \in 1..Len(e.outputs)
    BY LenProperties, EmptySeq
  <2>2. out \in Seq(Piece) /\ Range(out) \subseteq Spelled(e.outputs)
    BY <2>1, SpellingTyped
  <2>. HIDE DEF out
  <2>. QED BY <2>2
<1>2. c \in Seq(Piece) /\ nl \in Seq(Piece) /\ nl \in Seq(Blank)
      /\ "backslash" \notin Range(c) /\ "backslash" \notin Range(nl)
  <2>1. "newline" \in Blank
    BY DEF Blank
  <2>2. c \in Seq(Piece)
    BY Pieces
  <2>3. nl \in Seq(Piece)
    BY Pieces
  <2>4. nl \in Seq(Blank)
    BY <2>1
  <2>5. "backslash" \notin Range(c) /\ "backslash" \notin Range(nl)
    BY DEF Range
  <2>. QED BY <2>2, <2>3, <2>4, <2>5
<1>3. /\ rest \in Seq(Piece) /\ Whole(rest)
      /\ WordsOf(Normalized(rest)) = Spell(e.inputs)
  BY SegmentsRead
<1>4. DepfileText(e, blanks) = ((out \o c) \o rest) \o nl
  BY DEF DepfileText
<1>. HIDE DEF out, c, nl, rest
<1>5. /\ Whole(out) /\ Normalized(out) = out
  BY <1>1, NormalizedPlain
<1>6. /\ Whole(c) /\ Normalized(c) = c
  BY <1>2, NormalizedPlain
<1>7. /\ Whole(nl) /\ Normalized(nl) = nl
  BY <1>2, NormalizedPlain
<1>8. /\ out \o c \in Seq(Piece) /\ Whole(out \o c)
      /\ Normalized(out \o c) = out \o c
  <2>1. out \o c \in Seq(Piece) /\ Whole(out \o c)
    BY <1>1, <1>2, <1>5, <1>6, WholeConcat
  <2>2. Normalized(out \o c) = Normalized(out) \o Normalized(c)
    BY <1>1, <1>2, <1>5, NormalizedConcat
  <2>. QED BY <1>5, <1>6, <2>1, <2>2
<1>9. /\ (out \o c) \o rest \in Seq(Piece) /\ Whole((out \o c) \o rest)
      /\ Normalized((out \o c) \o rest) = (out \o c) \o Normalized(rest)
  <2>. DEFINE oc == out \o c
  <2>1. oc \in Seq(Piece) /\ Whole(oc) /\ Normalized(oc) = oc
    BY <1>8
  <2>. HIDE DEF oc
  <2>2. oc \o rest \in Seq(Piece) /\ Whole(oc \o rest)
    BY <1>3, <2>1, WholeConcat
  <2>3. Normalized(oc \o rest) = Normalized(oc) \o Normalized(rest)
    BY <1>3, <2>1, NormalizedConcat
  <2>. QED BY <2>1, <2>2, <2>3 DEF oc
<1>. DEFINE nr == Normalized(rest)  text == DepfileText(e, blanks)
<1>10. nr \in Seq(Piece)
  BY <1>3, LeftTyped
<1>11. text \in Seq(Piece) /\ Normalized(text) = ((out \o c) \o nr) \o nl
  <2>. DEFINE ocr == (out \o c) \o rest
  <2>1. ocr \in Seq(Piece) /\ Whole(ocr) /\ Normalized(ocr) = (out \o c) \o nr
    BY <1>9
  <2>2. text = ocr \o nl
    BY <1>4
  <2>. HIDE DEF ocr, nr, text
  <2>3. ocr \o nl \in Seq(Piece)
    BY <1>2, <2>1, ConcatParts
  <2>4. Normalized(ocr \o nl) = Normalized(ocr) \o Normalized(nl)
    BY <1>2, <2>1, NormalizedConcat
  <2>. QED BY <1>7, <2>1, <2>2, <2>3, <2>4
<1>. HIDE DEF nr, text
<1>12. nr \o nl \in Seq(Piece) /\ WordsOf(nr \o nl) = WordsOf(nr)
  BY <1>2, <1>10, WordsBlanks
<1>13. ((out \o c) \o nr) \o nl = out \o (c \o (nr \o nl))
  <2>1. ((out \o c) \o nr) \o nl = (out \o c) \o (nr \o nl)
    BY <1>2, <1>8, <1>10, PiecesAssociate
  <2>2. (out \o c) \o (nr \o nl) = out \o (c \o (nr \o nl))
    BY <1>1, <1>2, <1>12, PiecesAssociate
  <2>. QED BY <2>1, <2>2
<1>14. Parsed(text) = [ok |-> TRUE, output |-> out,
                       inputs |-> WordsOf(nr \o nl)]
  <2>1. Normalized(text) = out \o (<<"colon">> \o (nr \o nl))
    BY <1>11, <1>13 DEF c
  <2>2. "colon" \notin Range(out)
    BY <1>1
  <2>. QED BY <1>1, <1>11, <1>12, <2>1, <2>2, ParsedLine
<1>15. WordsOf(nr) = Spell(e.inputs)
  BY <1>3 DEF nr
<1>. QED BY <1>12, <1>14, <1>15 DEF text, out

(* Once a manifest is accepted, an edge has the rule and the files of a    *)
(* build statement.                                                        *)
LEMMA AcceptedEdge ==
  ASSUME IInv, MeaningInv, pc = "accepted", NEW i \in DOMAIN edges
  PROVE  /\ edges[i].outputs \in Seq(Path) /\ edges[i].outputs # <<>>
         /\ edges[i].inputs \in Seq(Path)
         /\ command[edges[i].rule] \in Seq(Piece)
         /\ depfile[edges[i].rule] \in Seq(Piece)
<1>1. /\ TypeOK /\ Passed = Len(lines) /\ LegalInv /\ EdgesInv
  BY DEF IInv, MeaningInv, Passed
<1>2. /\ i \in 1..Len(edges) /\ edges[i].rule \in Name
      /\ edges[i].outputs \in Seq(nodes) /\ edges[i].inputs \in Seq(nodes)
  <2>1. rules \subseteq Name
    BY <1>1 DEF TypeOK
  <2>. QED BY <1>1, <2>1, EdgeTyped
<1>3. edges[i].outputs \in Seq(Path) /\ edges[i].inputs \in Seq(Path)
  <2>1. nodes \subseteq Path
    BY <1>1 DEF TypeOK
  <2>. QED BY <1>2, <2>1
<1>4. edges[i].outputs # <<>>
  <2>1. PICK j \in 1..Len(lines) : lines[j].kind = "build" /\ EdgesTo(j) = i
    BY <1>1, <1>2 DEF EdgesInv
  <2>2. edges[i].outputs = lines[j].outputs
    <3>1. edges[i] = [rule |-> lines[j].rule, outputs |-> lines[j].outputs,
                      inputs |-> lines[j].inputs]
      BY <1>1, <2>1 DEF EdgesInv
    <3>. QED BY <3>1
  <2>3. LegalLine(j)
    BY <1>1 DEF LegalInv
  <2>. QED BY <2>1, <2>2, <2>3 DEF LegalLine, LegalBuild
<1>5. Text \cup {Empty} \subseteq Seq(Piece)
  <2>1. <<>> \in Seq(Piece)
    OBVIOUS
  <2>. QED BY <2>1, SpellingAssumption
<1>6. /\ command[edges[i].rule] \in Text \cup {Empty}
      /\ depfile[edges[i].rule] \in Text \cup {Empty}
  BY <1>1, <1>2 DEF TypeOK
<1>. QED BY <1>3, <1>4, <1>5, <1>6

(* An edge runs the command of its rule with its files in place of $in and *)
(* $out, and looks for the depfile that its rule names, whatever the       *)
(* manifest, unless what stands for $in makes a new $out, by itself or     *)
(* with the text before it; and it reads the depfile of a compiler as the  *)
(* output and the inputs that it names, of any number and with line ends   *)
(* of either kind between them, unless a path holds a colon or a           *)
(* backslash.                                                              *)
THEOREM RunAsWritten == Spec => []EdgesRunAsWritten
<1>1. IInv /\ MeaningInv => EdgesRunAsWritten
  <2>. SUFFICES ASSUME IInv, MeaningInv, pc = "accepted",
                       NEW i \in DOMAIN edges
                PROVE  LET e == edges[i] IN
                  /\ NoneArises(e, command[e.rule]) =>
                       EdgeCommand(e) = AsWritten(e, command[e.rule])
                  /\ NoneArises(e, depfile[e.rule]) =>
                       EdgeDepfile(e) = AsWritten(e, depfile[e.rule])
                  /\ (Spelled(e.outputs) \cup Spelled(e.inputs))
                        \cap {"colon", "backslash"} = {} =>
                       \A blanks \in [DOMAIN e.inputs -> Blanks] :
                         Parsed(DepfileText(e, blanks)) =
                           [ok |-> TRUE, output |-> Spelling[e.outputs[1]],
                            inputs |-> Spell(e.inputs)]
    BY DEF EdgesRunAsWritten
  <2>. DEFINE e == edges[i]
  <2>1. /\ e.outputs \in Seq(Path) /\ e.outputs # <<>>
        /\ e.inputs \in Seq(Path)
        /\ command[e.rule] \in Seq(Piece) /\ depfile[e.rule] \in Seq(Piece)
    BY AcceptedEdge
  <2>. HIDE DEF e
  <2>2. ASSUME NoneArises(e, command[e.rule])
        PROVE  EdgeCommand(e) = AsWritten(e, command[e.rule])
    BY <2>1, <2>2, ExpandedAsWritten DEF EdgeCommand
  <2>3. ASSUME NoneArises(e, depfile[e.rule])
        PROVE  EdgeDepfile(e) = AsWritten(e, depfile[e.rule])
    <3>1. Empty = <<>>
      BY SpellingAssumption
    <3>. QED BY <2>1, <2>3, <3>1, ExpandedAsWritten DEF EdgeDepfile
  <2>4. ASSUME (Spelled(e.outputs) \cup Spelled(e.inputs))
                  \cap {"colon", "backslash"} = {},
               NEW blanks \in [DOMAIN e.inputs -> Blanks]
        PROVE  Parsed(DepfileText(e, blanks)) =
                 [ok |-> TRUE, output |-> Spelling[e.outputs[1]],
                  inputs |-> Spell(e.inputs)]
    BY <2>1, <2>4, DepfileRead
  <2>. QED BY <2>2, <2>3, <2>4 DEF e
<1>. QED BY <1>1, Inductive, MeaningHolds, PTL

=============================================================================

-------------------------- MODULE MCManifestParser --------------------------
(***************************************************************************)
(* Manifests from statements that are right, wrong, or right only after    *)
(* another.  The path of one file holds "$in", that of another "$out", and *)
(* that of the third becomes "$out" behind a "$" of the rule.              *)
(***************************************************************************)
EXTENDS EdgeText, TLC

CONSTANTS ruleR, ruleS, fileA, fileB, fileC

MCEmpty == <<>>
MCSpelling == (fileA :> <<"a/", "$", "i", "n">>)
                @@ (fileB :> <<"o", "u", "t", ".c">>)
                @@ (fileC :> <<"$", "o", "u", "t">>)
t == <<"cc", "space", "$", "i", "n", "space", "$", "o", "u", "t">>
u == <<"$", "$", "i", "n", "$", "o", "u", "t", ".d">>
MCText == {t, u}
MCPiece == {"space", "newline", "return", "backslash", "colon",
            "$", "i", "n", "o", "u", "t", "a/", ".c", "cc", ".d"}

Build(outs, rule, ins) == [kind |-> "build", colon |-> TRUE, outputs |-> outs,
                           rule |-> rule, inputs |-> ins]
MCStatement ==
  {[kind |-> "blank"], [kind |-> "other"],
   [kind |-> "rule", name |-> ruleR], [kind |-> "rule", name |-> ruleS],
   [kind |-> "command", text |-> t], [kind |-> "command", text |-> u],
   [kind |-> "command", text |-> Empty],
   [kind |-> "depfile", text |-> u],
   Build(<<fileA>>, ruleR, <<fileB>>),
   Build(<<fileB, fileC>>, ruleS, <<fileA, fileA>>),
   Build(<<fileC>>, ruleR, <<fileC>>),
   Build(<<fileA, fileA>>, ruleR, <<fileC>>),
   Build(<<>>, ruleR, <<fileB>>), Build(<<fileA>>, none, <<>>),
   [Build(<<fileA>>, ruleR, <<fileB>>) EXCEPT !.colon = FALSE]}

=============================================================================

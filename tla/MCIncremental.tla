--------------------------- MODULE MCIncremental ----------------------------
(***************************************************************************)
(* Objects compiled from sources that include a header or do not, and a    *)
(* program linked from them.  A model has the first object only, or both.  *)
(***************************************************************************)
EXTENDS Incremental, TLC

CONSTANTS ccA, ccB, link, srcA, srcB, hdr, objA, objB, exe,
          t1, t2, c1, c2, k1, k2

MCInputs == [e \in Edge |-> CASE e = ccA -> {srcA}
                            [] e = ccB -> {srcB}
                            [] OTHER -> {objA, objB} \cap Node]
MCOutputs == [e \in Edge |-> CASE e = ccA -> {objA}
                               [] e = ccB -> {objB}
                               [] OTHER -> {exe}]
MCIncludes == [n \in Source |-> [t \in Text |-> IF n # hdr /\ t = t1 THEN {hdr}
                                                                     ELSE {}]]

(* The sources begin alike; edits make them differ.                        *)
OneStart == Init /\ \A n \in Source : content[n] = t1
SpecOneStart == OneStart /\ [][Next]_vars

Symmetric == Permutations(Command) \cup Permutations(Compiler)

=============================================================================

------------------------------ MODULE EdgeText ------------------------------
(***************************************************************************)
(* What an edge of a manifest gives to the shell and reads back:           *)
(* Edge::command and Edge::depfile (src/src/edge.cpp) put its files in     *)
(* place of $in and $out, and Depfile::parse (src/src/depfile.cpp) reads   *)
(* the file that a compiler leaves.                                        *)
(*                                                                         *)
(* A text is a sequence of pieces: the characters that Edge and Depfile    *)
(* look for, and whatever else a text is made of.                          *)
(***************************************************************************)
EXTENDS ManifestParser, SequencesExt

CONSTANTS
  Piece,    (* what texts are made of                                      *)
  Spelling  (* Spelling[n]: the pieces of the path n                       *)

Space == <<"space">>
Blank == {"space", "newline", "return"}
In == <<"$", "i", "n">>
Out == <<"$", "o", "u", "t">>

(* BuildGraph::get_or_create_node gives a path its node: a path is one     *)
(* word of the manifest.                                                   *)
ASSUME SpellingAssumption ==
  /\ Blank \cup {"backslash", "colon"} \subseteq Piece
  /\ Range(In) \cup Range(Out) \subseteq Piece
  /\ Text \subseteq Seq(Piece) /\ Empty = <<>>
  /\ Spelling \in [Path -> Seq(Piece)]
  /\ \A n \in Path : Spelling[n] # <<>> /\ Range(Spelling[n]) \cap Blank = {}

-----------------------------------------------------------------------------
(* The pieces stand in the text from i on; or as far as the text goes.     *)
StartsWith(text, i, pieces) ==
  \A k \in DOMAIN pieces :
    i + k - 1 \in DOMAIN text /\ text[i + k - 1] = pieces[k]
Begins(text, i, pieces) ==
  \A k \in DOMAIN pieces :
    i + k - 1 \in DOMAIN text => text[i + k - 1] = pieces[k]

(* With files[v] in place of each variable v.  An occurrence of $in or     *)
(* $out overlaps no other: those that find() meets from left to right,     *)
(* going on behind what was put in, are all there are.                     *)
Within(text, i, v) ==
  \E j \in 1..i - 1 : StartsWith(text, j, v) /\ i < j + Len(v)
Replaced(text, files) ==
  FlattenSeq([i \in 1..Len(text) |->
    IF \E v \in DOMAIN files : StartsWith(text, i, v)
    THEN files[CHOOSE v \in DOMAIN files : StartsWith(text, i, v)]
    ELSE IF \E v \in DOMAIN files : Within(text, i, v) THEN <<>>
    ELSE <<text[i]>>])

replace_all(text, from, to) == Replaced(text, [v \in {from} |-> to])

(* The paths with a blank between each two.                                *)
Joined(paths) ==
  FlattenSeq([i \in 1..Len(paths) |->
                (IF i = 1 THEN <<>> ELSE Space) \o Spelling[paths[i]]])

(* First $in, then $out, also in what stands for $in.  Mutant: $out first. *)
OutFirst(e, text) ==
  replace_all(replace_all(text, Out, Joined(e.outputs)),
              In, Joined(e.inputs))
Expanded(e, text) ==
  replace_all(replace_all(text, In, Joined(e.inputs)),
              Out, Joined(e.outputs))

EdgeCommand(e) == Expanded(e, command[e.rule])
EdgeDepfile(e) == IF depfile[e.rule] = Empty THEN Empty
                  ELSE Expanded(e, depfile[e.rule])

-----------------------------------------------------------------------------
(* Depfile::parse.  A backslash before an end of line, of either kind,     *)
(* becomes a blank.  Mutant: of the first kind only.                       *)
LineFeedOnly(text, i) ==
  IF StartsWith(text, i, <<"backslash", "newline">>) THEN 2 ELSE 0
Continuation(text, i) ==
  CASE StartsWith(text, i, <<"backslash", "newline">>) -> 2
    [] StartsWith(text, i, <<"backslash", "return", "newline">>) -> 3
    [] OTHER -> 0

(* The loop has gone over i with what begins before it.                    *)
Skipped(text, i) == \E j \in 1..i - 1 : i < j + Continuation(text, j)

Normalized(text) ==
  FlattenSeq([i \in 1..Len(text) |->
                IF Skipped(text, i) THEN <<>>
                ELSE IF Continuation(text, i) > 0 THEN Space
                ELSE <<text[i]>>])

(* The words that >> takes from a stream: those so far, with the piece i.  *)
Taking(words, text, i) ==
  IF text[i] \in Blank THEN words
  ELSE IF i = 1 \/ text[i - 1] \in Blank THEN Append(words, <<text[i]>>)
  ELSE [words EXCEPT ![Len(words)] = Append(@, text[i])]

WordsOf(text) ==
  LET upto[i \in 0..Len(text)] ==
        IF i = 0 THEN <<>> ELSE Taking(upto[i - 1], text, i)
  IN upto[Len(text)]

(* What stands before the first colon, as it is, and the words after it.   *)
Parsed(text) ==
  LET line == Normalized(text)
      colons == {i \in DOMAIN line : line[i] = "colon"}
      colon == CHOOSE i \in colons : \A j \in colons : i <= j
  IN IF colons = {} THEN [ok |-> FALSE, output |-> <<>>, inputs |-> <<>>]
     ELSE [ok |-> TRUE, output |-> SubSeq(line, 1, colon - 1),
           inputs |-> WordsOf(SubSeq(line, colon + 1, Len(line)))]

-----------------------------------------------------------------------------
(* The text of a rule with both variables replaced at once.                *)
AsWritten(e, text) ==
  Replaced(text, [v \in {In, Out} |-> Joined(IF v = In THEN e.inputs
                                                       ELSE e.outputs)])

(* Putting the inputs in place of $in makes no new $out: none begins among *)
(* the inputs, or up to three pieces before, in the text that $in follows. *)
NoneArises(e, text) ==
  LET in == Joined(e.inputs) IN
    /\ \A i \in DOMAIN in : ~Begins(in, i, Out)
    /\ \A i \in DOMAIN text, m \in 1..3 :
         /\ StartsWith(text, i + m, In)
         /\ \A k \in 1..m : text[i + k - 1] = Out[k]
         => ~Begins(in, 1 - m, Out)

(* A depfile for these paths, with these blanks between them.              *)
DepfileText(e, blanks) ==
  Spelling[e.outputs[1]] \o <<"colon">>
    \o FlattenSeq([i \in 1..Len(e.inputs) |->
                     blanks[i] \o Spelling[e.inputs[i]]])
    \o <<"newline">>

Blanks == {Space, <<"space", "backslash", "newline", "space">>,
           <<"space", "backslash", "return", "newline", "space">>}

Spell(paths) == [i \in DOMAIN paths |-> Spelling[paths[i]]]
Spelled(paths) == UNION {Range(Spelling[n]) : n \in Range(paths)}

(* What an edge of an accepted manifest runs, and the depfile it looks     *)
(* for, are the texts of its rule with its files in place of $in and $out, *)
(* unless the inputs make a new $out; and a depfile that names the output  *)
(* and the inputs is read as these, on one line or on many, unless a path  *)
(* holds a colon or a backslash.                                           *)
EdgesRunAsWritten ==
  pc = "accepted" =>
    \A i \in DOMAIN edges :
      LET e == edges[i] IN
        /\ NoneArises(e, command[e.rule]) =>
             EdgeCommand(e) = AsWritten(e, command[e.rule])
        /\ NoneArises(e, depfile[e.rule]) =>
             EdgeDepfile(e) = AsWritten(e, depfile[e.rule])
        /\ (Spelled(e.outputs) \cup Spelled(e.inputs))
              \cap {"colon", "backslash"} = {} =>
             \A blanks \in [DOMAIN e.inputs -> Blanks] :
               Parsed(DepfileText(e, blanks)) =
                 [ok |-> TRUE, output |-> Spelling[e.outputs[1]],
                  inputs |-> Spell(e.inputs)]

=============================================================================

------------------------------ MODULE MCLogFile ------------------------------
(***************************************************************************)
(* Two outputs, one of which is called like a number, with hashes of one   *)
(* or two digits, or no dependencies, or two.                              *)
(***************************************************************************)
EXTENDS LogFile, TLC

MCNumber == [w \in {"0", "1", "2", "12"} |->
               CASE w = "0" -> 0 [] w = "1" -> 1 [] w = "2" -> 2
                 [] OTHER -> 12]
MCDigits == (0 :> "0") @@ (1 :> "1") @@ (2 :> "2")
MCWord == {"", "H", "a", "ab"} \cup DOMAIN MCNumber
MCStart == [w \in MCWord |-> CASE w = "ab" -> {"a"}
                               [] w = "12" -> {"1"}
                               [] OTHER -> {}]
MCInputs == {<<>>, <<"ab", "1">>}

=============================================================================

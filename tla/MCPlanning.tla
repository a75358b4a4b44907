----------------------------- MODULE MCPlanning -----------------------------
(***************************************************************************)
(* A generator of two files, a compilation that reads both, a link that    *)
(* reads one of them and the object; and two edges that wait for each      *)
(* other, one of which also reads the object.  Some targets need the cycle *)
(* and some do not; src0 has no producer.                                  *)
(***************************************************************************)
EXTENDS Planning

CONSTANTS gen, cc, link, ping, pong, src0, src, hdr, obj, exe, x, y

MCInputs == (gen :> {src0}) @@ (cc :> {src, hdr}) @@ (link :> {obj, hdr})
              @@ (ping :> {y}) @@ (pong :> {x, obj})
MCOutputs == (gen :> {src, hdr}) @@ (cc :> {obj}) @@ (link :> {exe})
               @@ (ping :> {x}) @@ (pong :> {y})

Terminated == stage \in Ended /\ UNCHANGED vars
MCSpec == Init /\ [][Next \/ Terminated]_vars /\ Fairness

=============================================================================

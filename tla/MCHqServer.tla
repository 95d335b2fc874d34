----------------------------- MODULE MCHqServer -----------------------------
(***************************************************************************)
(* Texts, and the symmetry of the adjutants, for model checking HqServer.  *)
(***************************************************************************)
EXTENDS HqServer

CONSTANTS n1, n2   \* names of units

T(y, x, p, n) == [ok |-> TRUE, x |-> x, y |-> y, p |-> p, nazwa |-> n]

(* sscanf converts fewer than four items. *)
Nieczytelny == [T(0, 0, 1, n1) EXCEPT !.ok = FALSE]

(* Two units: with a register of one entry the second one is rejected. *)
TekstyKolejki == {T(0, 0, 1, n1), T(0, 0, 1, n2)}

(* Two units, one of them with both affiliations. *)
TekstyRejestru == {T(0, 0, 1, n1), T(0, 0, 0, n1), T(0, 0, 1, n2)}

(* One unit, anywhere on the map; a text that is not understood. *)
TekstyMapy == {T(y, x, 1, n1) : y, x \in Wiersze} \cup {Nieczytelny}

Symetria == Permutations(Adiutanci)
=============================================================================

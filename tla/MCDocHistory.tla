--------------------------- MODULE MCDocHistory ---------------------------
(***************************************************************************)
(* A document over two characters, "a" and the wide "w", so that texts and *)
(* with them hashes come back; operations of up to MaxComps components.    *)
(***************************************************************************)
EXTENDS DocHistory

CONSTANTS MaxComps, Texts

Component ==
  {SkipComp(n) : n \in 1..2} \cup {DeleteComp(n) : n \in 1..2}
    \cup {InsertComp(t) : t \in Texts}

MCWritten ==
  {comps \in UNION {[1..n -> Component] : n \in 1..MaxComps} : IsNormal(comps)}

MCTexts == {<<"a">>, <<"w">>, <<"a", "w">>}
MCFirst == {<<>>} \cup {<<InsertComp(t)>> : t \in MCTexts}
===========================================================================

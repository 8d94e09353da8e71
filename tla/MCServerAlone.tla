--------------------------- MODULE MCServerAlone ---------------------------
(***************************************************************************)
(* Operations of up to MaxComps components over one character and a wide   *)
(* one; documents opened without anything, empty or with a text, with and  *)
(* without a maximum size.                                                 *)
(***************************************************************************)
EXTENDS ServerAlone

CONSTANT MaxComps

Component == {SkipComp(1), SkipComp(2), DeleteComp(1), DeleteComp(2), InsertComp(<<"a">>), InsertComp(<<"w">>)}
Odd == {SkipComp(0), InsertComp(<<>>), CloseComp}

Lists(components) == UNION {[1..n -> components] : n \in 0..MaxComps}
MCWritten == {comps \in Lists(Component) : IsNormal(comps)}
MCDecoded == MCWritten \cup {comps \in Lists(Component \cup Odd) : ToSet(comps) \cap Odd # {}}

WithText(text, max_size) ==
  ot_doc_append(ot_new_doc(max_size), Op(0, ZeroHash, ZeroHash, <<InsertComp(text)>>)).doc

MCOpenings ==
  {NULL, ot_new_doc(0), ot_new_doc(1), WithText(<<"a", "w">>, 0), WithText(<<"a">>, 4)}
===========================================================================

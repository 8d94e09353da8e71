------------------------------ MODULE MCCodec ------------------------------
(***************************************************************************)
(* Hashes of three bytes, zero or not, with a digit zero or not;           *)
(* operations of up to two components; numbers an int of four bits holds   *)
(* and numbers it does not.                                                *)
(***************************************************************************)
EXTENDS Codec

Byte == {0, 1, 160}
Hashes == [1..HashLen -> Byte]
Components ==
  {SkipComp(1), SkipComp(IntMax), SkipComp(IntMax + 1), DeleteComp(2), DeleteComp(IntMax + 2),
   InsertComp(<<"a">>), OpenComp("p"), CloseComp,
   FmtComp(<<<<"bold", 1>>>>, <<>>)}
OpsOf(ids, hashes, components) ==
  {Op(id, parent, hash, comps) : id \in ids, parent \in hashes, hash \in hashes,
     comps \in UNION {[1..n -> components] : n \in 0..2}}

MCSent ==
  OpsOf({1}, Hashes, {SkipComp(1)})
    \cup OpsOf({0, IntMax, Uints - 1}, {<<0, 0, 1>>}, Components)
=============================================================================

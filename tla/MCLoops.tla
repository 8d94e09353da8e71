------------------------------ MODULE MCLoops ------------------------------
(***************************************************************************)
(* All pairs of operations of up to MaxComps components of up to MaxCount  *)
(* characters in the normal form the builders leave them in, and all pairs *)
(* of up to DecodedComps components as a message may have them, whether or *)
(* not the second spans what it should.  Characters tell which operation   *)
(* and which component inserted them.                                      *)
(***************************************************************************)
EXTENDS Loops

CONSTANTS MaxComps, MaxCount, DecodedComps

Components(author, i, counts) ==
  {SkipComp(n) : n \in counts} \cup {DeleteComp(n) : n \in counts}
    \cup {InsertComp([k \in 1..n |-> author + 10 * i + k]) : n \in counts}

Lists(max, components(_)) ==
  {op \in UNION {[1..n -> UNION {components(i) : i \in 1..max}] : n \in 0..max} :
     \A i \in 1..Len(op) : op[i] \in components(i)}

Written(author) ==
  {op \in Lists(MaxComps, LAMBDA i : Components(author, i, 1..MaxCount)) : IsNormal(op)}

\* Not normal, with components of size zero and elements.
Decoded(author) ==
  Lists(DecodedComps, LAMBDA i : Components(author, i, 0..MaxCount) \cup {CloseComp})

MCPairs == (Written(100) \X Written(200)) \cup (Decoded(100) \X Decoded(200))
MCTexts == {[k \in 1..n |-> k] : n \in 0..(MaxComps * MaxCount)}

\* Characters can be followed.
ASSUME DifferAssumption == CharactersDiffer
=============================================================================

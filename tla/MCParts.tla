------------------------------ MODULE MCParts ------------------------------
(***************************************************************************)
(* Three parts that share no state: the memory of a document (DocMemory),  *)
(* an operation under construction (Builder) and the walks over the bytes  *)
(* of a text (Utf8).  A behaviour is one of one of them, the others rest.  *)
(*                                                                         *)
(* Builders get the values that make a difference: a count of zero and the *)
(* empty text, two formats of one name and another.  Texts are made of the *)
(* first and the last character of every length and of bytes no character  *)
(* begins with.                                                            *)
(***************************************************************************)
EXTENDS DocMemory, Builder, Utf8

VARIABLES part

MCCounts == {0, 1}
MCStrings == {<<>>, <<"a">>, <<"b">>}
MCFmts == {<<"bold", 1>>, <<"bold", 2>>, <<"size", 1>>}
MCChars ==
  {<<1>>, <<127>>, <<194, 128>>, <<223, 191>>, <<224, 160, 128>>, <<239, 191, 191>>,
   <<240, 144, 128, 128>>, <<244, 143, 191, 191>>}

PartsInit ==
  /\ part \in {"document", "builder", "text"}
  /\ Init
  /\ BuilderInit
  /\ \/ part = "text" /\ WalkInit
     \/ part # "text" /\ chars = <<>> /\ i = 0 /\ length = 0

PartsNext ==
  /\ UNCHANGED part
  /\ \/ part = "document" /\ Next /\ UNCHANGED <<builderVars, walkVars>>
     \/ part = "builder" /\ BuilderNext /\ UNCHANGED <<vars, walkVars>>
     \/ part = "text" /\ Turn /\ UNCHANGED <<vars, builderVars>>

PartsSpec == PartsInit /\ [][PartsNext]_<<part, vars, builderVars, walkVars>>
=============================================================================

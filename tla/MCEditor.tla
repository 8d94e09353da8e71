------------------------------ MODULE MCEditor ------------------------------
(***************************************************************************)
(* The edits of MCSystem, made by the editors of Editor.                   *)
(***************************************************************************)
EXTENDS Editor, MCSystem
=============================================================================

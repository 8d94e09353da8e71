------------------------------ MODULE MCDirect ------------------------------
(***************************************************************************)
(* The editors of MCSystem, for the send callbacks of Direct.              *)
(***************************************************************************)
EXTENDS Direct, MCSystem

MCOneQueue == {{"client"}, {"server"}}
MCNoQueue == {{"client", "server"}}
=============================================================================

----------------------------- MODULE MCSession -----------------------------
(***************************************************************************)
(* Two clients start with a document that is missing, a third one joins.   *)
(***************************************************************************)
EXTENDS Session, MCSystem

MCFounders == {1, 2}
=============================================================================

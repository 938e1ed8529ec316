----------------------------- MODULE MCSettings -----------------------------
(***************************************************************************)
(* One size that the panels show and one that they do not.                 *)
(***************************************************************************)
EXTENDS Settings
MCDefault == [f \in Setting |-> 9]
=============================================================================

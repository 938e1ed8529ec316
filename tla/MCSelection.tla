---------------------------- MODULE MCSelection ----------------------------
(***************************************************************************)
(* Three functions: f is entered twice, g once, h is traced but never      *)
(* entered (an address inside it is reached by a jump) and has no row.  k  *)
(* is in the source only.                                                  *)
(***************************************************************************)
EXTENDS Selection

L(f, first) == [func |-> f, first |-> first]
MCLines == << L(NoFunc, FALSE), L("f", TRUE), L("g", TRUE), L("h", FALSE), L("f", TRUE) >>
MCOrders == {<<"f", "g">>, <<"g", "f">>}
============================================================================

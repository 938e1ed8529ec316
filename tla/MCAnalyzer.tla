----------------------------- MODULE MCAnalyzer -----------------------------
(***************************************************************************)
(* A listing with the shapes that strain the tables: a label in the middle *)
(* of main's name space, a header without a name, a branch to a function   *)
(* that ends its own, two headers of one address; every trace over it.     *)
(***************************************************************************)
EXTENDS AnalyzerLaws

CONSTANT MaxLen   \* bound: lines of a trace

To(n)  == [base |-> n, offset |-> FALSE]
Off(n) == [base |-> n, offset |-> TRUE]
H(a, label) == [kind |-> "header", addr |-> a, label |-> label]
Ins(a, op, label) ==
  [kind |-> "insn", addr |-> a, op |-> op, to |-> {}, next |-> a, label |-> label]

MCListing == <<
  H("m1", To("main")),
  Ins("m1", "call", To("f")),
  Ins("m2", "ret", NoLabel),
  H("m3", To("main.part")),
  Ins("m3", "plain", To("main.part")),
  H("f1", To("f")),
  H("f1", To("alias")),
  Ins("f1", "jump", To("g")),
  H("x1", Off("f")),
  Ins("x1", "plain", To("g")),
  H("g1", To("g")),
  Ins("g1", "jump", Off("g")),
  Ins("g2", "ret", To("outside")) >>

MCTraces == UNION {[1..n -> Addr] : n \in 0..MaxLen}
============================================================================

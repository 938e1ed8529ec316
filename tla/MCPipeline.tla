----------------------------- MODULE MCPipeline -----------------------------
(***************************************************************************)
(* Two programs.  Compiled: a boot ROM outside of all functions and what a *)
(* compiler makes of C, with loops, one of them around an indirect call of *)
(* two functions, a loop back to a first instruction, a function of one    *)
(* line and an interrupt handler.  Assembly: labels that control falls     *)
(* through, as in riscv-tests, where a failing check would branch to fail. *)
(***************************************************************************)
EXTENDS Pipeline

To(n)  == [base |-> n, offset |-> FALSE]
Off(n) == [base |-> n, offset |-> TRUE]
H(a, n) == [kind |-> "header", addr |-> a, label |-> To(n)]
Ins(a, op, to, next, label) ==
  [kind |-> "insn", addr |-> a, op |-> op, to |-> to, next |-> next, label |-> label]

Compiled == <<
  Ins("b1", "call", {"m1"}, "b1", NoLabel),
  H("m1", "main"),
  Ins("m1", "plain", {"m2"}, "m2", To("trap")),
  Ins("m2", "call", {"f1"}, "m3", To("f")),
  Ins("m3", "jump", {"m2", "m4"}, "m4", Off("main")),
  Ins("m4", "ret", {}, "f1", NoLabel),
  H("f1", "f"),
  Ins("f1", "plain", {"f2"}, "f2", NoLabel),
  Ins("f2", "call", {"g1", "k1"}, "f3", NoLabel),
  Ins("f3", "jump", {"f2", "f4"}, "f4", Off("f")),
  Ins("f4", "ret", {}, "g1", NoLabel),
  H("g1", "g"),
  Ins("g1", "jump", {"g1", "g2"}, "g2", Off("g")),
  Ins("g2", "jump", {"g1", "g3"}, "g3", To("g")),
  Ins("g3", "ret", {}, "k1", NoLabel),
  H("k1", "k"),
  Ins("k1", "ret", {}, "t1", NoLabel),
  H("t1", "trap"),
  Ins("t1", "plain", {"t2"}, "t2", NoLabel),
  Ins("t2", "mret", {}, "t2", NoLabel) >>

Assembly == <<
  H("s1", "start"),
  Ins("s1", "ecall", {}, "s2", NoLabel),
  Ins("s2", "plain", {"s3"}, "s3", To("trap")),
  Ins("s3", "jump", {"c1"}, "c1", To("check")),
  H("c1", "check"),
  Ins("c1", "jump", {"c2", "x1"}, "c2", To("fail")),
  H("c2", "check2"),
  Ins("c2", "jump", {"c2", "p1", "x1"}, "p1", To("fail")),
  H("p1", "pass"),
  Ins("p1", "jump", {"p1", "s1"}, "p1", Off("pass")),
  H("x1", "fail"),
  Ins("x1", "jump", {"x1"}, "x1", Off("fail")),
  H("t1", "trap"),
  Ins("t1", "call", {"c1"}, "t2", To("check")),
  Ins("t2", "mret", {}, "t2", NoLabel) >>
=============================================================================

----------------------------- MODULE MCHart --------------------------------
(***************************************************************************)
(* One program with every kind of instruction: a loop of one instruction   *)
(* (a), a store to the CLINT (b), a CSR access (c), wfi (d), an ecall (e), *)
(* an address that cannot be fetched (x), a CSR that does not exist (y),   *)
(* and a handler (h, i, j) that accesses CSRs before it returns.           *)
(***************************************************************************)
EXTENDS Hart

I(op, to) == [op |-> op, to |-> to]
MCProgram ==
  [a |-> I("plain", {"a", "b"}), b |-> I("clint", {"c"}), c |-> I("csr", {"d", "e"}),
   d |-> I("wfi", {"x", "y"}), y |-> I("badcsr", {}), e |-> I("trap", {"a"}), x |-> I("hole", {"b"}),
   h |-> I("plain", {"i"}), i |-> I("csr", {"j"}), j |-> I("mret", {})]
============================================================================

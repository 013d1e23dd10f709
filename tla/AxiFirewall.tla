----------------------------- MODULE AxiFirewall -----------------------------
(***************************************************************************)
(* The AXI firewall core as cores/axi_firewall.rs drives it: a firewall is *)
(* the soft-fault request written to MiSideSoftFaultControl and whether    *)
(* its manager side is blocked (MiSideFaultStatus # 0).                    *)
(***************************************************************************)

FirewallType == [soft : BOOLEAN, blocked : BOOLEAN]

Passing == [soft |-> FALSE, blocked |-> FALSE]

\* block_mi: MI_BLOCK_MASK into the soft-fault control register.
BlockMi == [soft |-> TRUE, blocked |-> TRUE]

\* unblock_mi, first write: 0 into the soft-fault control register.
ClearSoftFault(f) == [f EXCEPT !.soft = FALSE]

\* unblock_mi, second write: 1 into the unblock register.  A soft fault that
\* is still requested keeps the firewall blocked.
WriteUnblock(f) == [f EXCEPT !.blocked = f.soft]

\* mi_is_blocked.
MiIsBlocked(f) == f.blocked
=============================================================================

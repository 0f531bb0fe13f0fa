----------------------------- MODULE MCApprovals -----------------------------
(* Approvals for TLC: two decisions and a Stop. *)
EXTENDS Approvals, TLC
=============================================================================

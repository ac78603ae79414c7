---------------------------- MODULE MCCollection ----------------------------
(* Instances of Collection for TLC. *)
EXTENDS Collection, TLC

CONSTANTS l1, l2, c1, c2, gen1, gen2, rank, v1, v2, p1, s1, s2, i1, i2, i3
=============================================================================

------------------------------- MODULE Limits -------------------------------
(***************************************************************************)
(* The limit of proc.h that the life cycle of processes (Proc) and the     *)
(* allocation of their ids (GetPid) share.                                 *)
(***************************************************************************)
EXTENDS Naturals

CONSTANT MAX_PROCESS   \* processes there may be at once, the kernel threads included

\* idle and init
ASSUME LimitsAssumption == MAX_PROCESS \in Nat /\ MAX_PROCESS > 1
=============================================================================

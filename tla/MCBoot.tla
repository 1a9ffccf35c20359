------------------------------- MODULE MCBoot -------------------------------
(* A machine with two page tables of three entries. *)
EXTENDS Boot

=============================================================================

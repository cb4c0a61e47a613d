------------------------------ MODULE MCStride ------------------------------
(* StrideScheduler for TLC: two priorities whose steps differ by a factor    *)
(* of two, and a priority that sys_set_priority refuses.                     *)
EXTENDS StrideScheduler
=============================================================================

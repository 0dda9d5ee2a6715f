------------------------- MODULE MCMemoryCacherLocks -------------------------
(* MemoryCacherLocks with a few callers and cleaners. *)
EXTENDS MemoryCacherLocks

=============================================================================

----------------------------- MODULE NullPointer -----------------------------
(* The null pointer, shared by the modules that are composed. *)
CONSTANT None
=============================================================================

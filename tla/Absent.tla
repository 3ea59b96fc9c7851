------------------------------- MODULE Absent -------------------------------
(* The null of the pages: a value that is none of their ids, rows or answers. *)
CONSTANT None
=============================================================================

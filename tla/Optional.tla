------------------------------- MODULE Optional -------------------------------
(***************************************************************************)
(* What a file, a field or an entry of a table holds that holds nothing    *)
(* yet, the same in all modules: a missing file, Python's None, an absent  *)
(* row of a database.                                                      *)
(***************************************************************************)
CONSTANT None
===============================================================================

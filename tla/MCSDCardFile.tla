--------------------------- MODULE MCSDCardFile ---------------------------
(***************************************************************************)
(* SDCardFile with four calls of appendLine() or writeFile(), and any      *)
(* number of calls of the others between them.                             *)
(***************************************************************************)
EXTENDS SDCardFile

=============================================================================

---------------------------- MODULE MCLineEditor ----------------------------
(* The line editor on its own, with a rewritten declaration of two characters. *)
EXTENDS LineEditor

EditorDecl == <<"global", "decl">>
=============================================================================

---------------------------- MODULE MCSymbolTable ----------------------------
(***************************************************************************)
(* Three threads, two strings to intern, and room for one of them.         *)
(***************************************************************************)
EXTENDS SymbolTable

MCPredefined == << "false" >>
=============================================================================

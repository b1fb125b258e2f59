---------------------------- MODULE MCToolAgent ----------------------------
(* Two attempts, which may overlap; one tool that may answer in two ways, as   *)
(* the loop tells tools apart by nothing but their names; and entries that     *)
(* expire while the attempts run.                                              *)
EXTENDS ToolAgent

OneTool == {"file_read"}
=============================================================================

------------------------- MODULE MCClipboardProgram -------------------------
(* Texts of nothing, of less and of more than the pipe holds.              *)
EXTENDS ClipboardProgram
=============================================================================

------------------------ MODULE MCClipboardPipeline ------------------------
(* Three contents: the empty one, and two that a macro inserts or the user *)
(* copies.  Two pastes, so that one follows another that went wrong.       *)
EXTENDS ClipboardPipeline
CONSTANTS empty, draft, link
MCContents == {empty, draft, link}
MCAllFaults == {"get", "set", "combo", "copy", "slow"}
=============================================================================

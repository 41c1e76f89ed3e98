---------------------------- MODULE MCUsenetReader ----------------------------
(* Three segments: the first article is longer than the window, which ends it  *)
(* with pieces still to come, and the second is shorter than estimated.        *)
EXTENDS UsenetReader

MCBody == <<2, 1, 1>>
MCWindow == <<1, 2, 1>>
==============================================================================

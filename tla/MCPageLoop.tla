----------------------------- MODULE MCPageLoop -----------------------------
(***************************************************************************)
(* Small instances of PageLoop for TLC: two pages with a text and an     *)
(* upload each, and Review.                                                *)
(***************************************************************************)
EXTENDS PageLoopProps, TLC

CONSTANTS text, resume

TwoFields == {text, resume}
OneUpload == {resume}
TwoSlots == {1, 2}
=============================================================================

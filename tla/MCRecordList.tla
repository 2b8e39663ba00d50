----------------------------- MODULE MCRecordList -----------------------------
(***************************************************************************)
(* A small instance of RecordList for TLC.                                  *)
(***************************************************************************)
EXTENDS RecordList

CONSTANTS none, word, long, range, bad

Texts == {none, word, long}
Drafts == {none, range, bad}
BadDrafts == {bad}
Sizes == {20, 50}

=============================================================================

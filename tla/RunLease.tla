------------------------------ MODULE RunLease ------------------------------
(***************************************************************************)
(* What the platform promises about the runs of one target, whoever asks   *)
(* for them and whatever fails: a run holds the target at most once and in *)
(* one piece; only the holder moves the progress of its revision; progress *)
(* moves one batch at a time, or returns to the first batch once some run  *)
(* of the revision has completed.                                          *)
(***************************************************************************)
EXTENDS Integers

CONSTANTS Run, NoRun, Revision, NoRevision, NoCheckpoint

VARIABLES
    holder,     \* the run that may write, or NoRun
    retired,    \* the runs that held the target before
    scope,      \* the revision of each run
    progress,   \* the stored checkpoint of each revision
    completed   \* the revisions that some run has completed

vars == <<holder, retired, scope, progress, completed>>

Init ==
    /\ holder = NoRun
    /\ retired = {}
    /\ scope = [r \in Run |-> NoRevision]
    /\ progress = [rev \in Revision |-> NoCheckpoint]
    /\ completed = {}

(* A run that never held the target takes it over.                         *)
Grant(r, rev) ==
    /\ r \notin retired \union {holder}
    /\ holder' = r
    /\ retired' = retired \union ({holder} \ {NoRun})
    /\ scope' = [scope EXCEPT ![r] = rev]
    /\ UNCHANGED <<progress, completed>>

Release ==
    /\ holder # NoRun
    /\ holder' = NoRun
    /\ retired' = retired \union {holder}
    /\ completed' \in {completed, completed \union {scope[holder]}}
    /\ UNCHANGED <<scope, progress>>

Advance ==
    LET rev == scope[holder] IN
    /\ holder # NoRun
    /\ \/ /\ progress[rev] # NoCheckpoint
          /\ progress' = [progress EXCEPT ![rev] = progress[rev] + 1]
       \/ /\ progress[rev] = NoCheckpoint \/ rev \in completed
          /\ progress' = [progress EXCEPT ![rev] = 1]
    /\ UNCHANGED <<holder, retired, scope, completed>>

Next ==
    \/ \E r \in Run, rev \in Revision : Grant(r, rev)
    \/ Release
    \/ Advance

Spec == Init /\ [][Next]_vars

=============================================================================

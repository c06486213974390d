---------------------------- MODULE MCSubmission ----------------------------
(* Uploads and AssistantRequests, the two ways something reaches a submission *)
(* from outside the Studio, on small instances.  They share no row: in each   *)
(* behaviour one of them runs at a time and the other rests in its initial    *)
(* state.                                                                     *)
EXTENDS Uploads, AssistantRequests, TLC

CONSTANTS c1, c2, c3, m1, m2, t1, t2, r1, r2

\* Nothing orders completions, analyses, calls, tabs or requests of one payload.
\* Analyses and calls have the same values, which keeps the group small.
Symmetry ==
    Permutations(Call) \cup Permutations(ToolCall) \cup Permutations(Tab) \cup Permutations(Action)

UploadsRests == UploadsInit /\ parts = "none"
AssistantRests == AssistantInit /\ grant.submit /\ ~studio

MCInit == \/ UploadsInit /\ AssistantRests
          \/ AssistantInit /\ UploadsRests

MCNext == \/ UploadsNext /\ AssistantRests /\ UNCHANGED assistantVars
          \/ AssistantNext /\ UploadsRests /\ UNCHANGED uploadsVars

MCSpec == MCInit /\ [][MCNext]_<<uploadsVars, assistantVars>>
=============================================================================

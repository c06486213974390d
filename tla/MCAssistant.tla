---------------------------- MODULE MCAssistant ----------------------------
(* AssistantRequests with one call, one tab and one action request. *)
EXTENDS AssistantRequests

CONSTANTS c1, t1, r1
=============================================================================

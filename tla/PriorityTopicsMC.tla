--------------------------- MODULE PriorityTopicsMC ---------------------------
(* Two calls of the API at a time, and the worker, for TLC. *)
EXTENDS PriorityTopics

CONSTANTS producer, t1, t2, x, y, z
=============================================================================

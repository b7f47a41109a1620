---------------------------- MODULE MCTaskQueue ----------------------------
(* Three tasks over two queues: a task moves between queues with a stale    *)
(* `next' that points to a task of the other one.                           *)
EXTENDS TaskQueueSpec
=============================================================================

----------------------------- MODULE MCThreads -----------------------------
(* Tasks: a and b start on CPUs 0 and 1, h has high and k low priority.     *)
EXTENDS Threads
CONSTANTS a, b, h, k

RunAndWaitQueues == CPUs \cup {WaitQueue, CleanerQueue, WaitingTasks}
Initials == [c \in CPUs |-> IF c = 0 THEN a ELSE b]
Priorities == [t \in Tasks |-> IF t = k THEN 1 ELSE IF t = h THEN 3 ELSE 2]

Workload(ops, create, cleaner) == [ops |-> ops, create |-> create, cleaner |-> cleaner]
SmpWorkloads == {Workload({"yield", "create", "destroy"}, {h, k}, Null),
                 Workload({"yield", "mutex", "destroy"}, {}, Null)}
UpWorkloads == {Workload({"yield", "create", "mutex", "destroy"}, {h}, k),
                Workload({"yield", "create", "completion"}, {b, h}, Null)}
PanicWorkloads == {Workload({"mutex", "destroy"}, {}, Null)}
=============================================================================

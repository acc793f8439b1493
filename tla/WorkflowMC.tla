----------------------------- MODULE WorkflowMC -----------------------------
(* Instances of Workflow for TLC. *)
EXTENDS WorkflowProperties, TLC

CONSTANTS w1, w2,          \* workers
          ann, bob, cyn,   \* employees; bob and cyn may approve
          f1, f2, l1, l2, o1   \* requests: punch fixes, leaves, an overtime

Fix(type, at, d) ==
    [type |-> "punch_fix", days |-> {d}, half |-> FALSE,
     punch |-> [type |-> type, at |-> at, source |-> "admin"]]

Leave(days, half) ==
    [type |-> "leave", days |-> days, half |-> half,
     punch |-> [type |-> "clock_in", at |-> 1, source |-> "admin"]]

Overtime(d) == [Leave({d}, FALSE) EXCEPT !.type = "overtime"]

AllPayloads ==
    (f1 :> Fix("clock_in", 1, 1)) @@ (f2 :> Fix("clock_out", LastMinute, 1))
      @@ (l1 :> Leave({1, 2}, FALSE)) @@ (l2 :> Leave({1}, TRUE)) @@ (o1 :> Overtime(1))

MCPayload == [r \in Reqs |-> AllPayloads[r]]

\* bob asks for l2 himself, so that his own request is in his queue.
MCOwner == [r \in Reqs |-> IF r = l2 /\ bob \in Employees THEN bob ELSE ann]

OneOwner == [r \in Reqs |-> ann]

\* Two full days and a half, in half days.
MCEntitled == [e \in Employees |-> 5]

\* The clock starts with the first day, or stands still at the end of the last.
Morning == [day |-> 1, at |-> 0]
Evening  == [day |-> 1, at |-> LastMinute]
MonthEnd == [day |-> LastDate, at |-> LastMinute]

WorkerSymmetry == Permutations(Workers)
=============================================================================

------------------------------- MODULE PagesMC -------------------------------
(* Instances of Pages for TLC. *)
EXTENDS Pages

CONSTANTS ann, bob   \* users

MCRole == [u \in Users |-> IF u = ann THEN "admin" ELSE "member"]

Play(users, pages, lists, does, writesTo, faultsTo) ==
    [users |-> users, pages |-> pages, lists |-> lists, does |-> does,
     writes |-> writesTo, faults |-> faultsTo, skew |-> 0]

\* One scene for each group of lists that are shown together.
Tour ==
    {Play({ann}, {"clock"}, {"today", "monthly"}, {}, 1, 1),
     Play({ann}, {"clock"}, {"today"}, {}, 2, 1),
     Play({ann}, {"clock"}, {"me", "balance"}, {}, 1, 0),
     Play({ann}, {"clock", "myshifts"}, {"mine"}, {}, 1, 1),
     [Play({ann}, {"clock"}, {"own"}, {"bell"}, 2, 0) EXCEPT !.skew = -1],
     Play({ann}, {"requests", "clock"}, {"own"}, {}, 1, 1),
     Play({ann}, {"requests"}, {"queue"}, {}, 1, 0),
     Play({ann}, {"approvals", "clock"}, {"queue"}, {}, 2, 0),
     Play({ann}, {"shifts"}, {"employees", "shifts"}, {}, 1, 0),
     Play({ann}, {"employees", "departments"}, {"departments"}, {"lose"}, 1, 1),
     Play({ann}, {"employees", "overtime"}, {"employees"}, {}, 1, 0),
     Play({ann}, {"closing"}, {"closings"}, {}, 1, 0),
     Play({ann}, {"leaves"}, {"leaves"}, {}, 1, 0),
     Play({ann}, {"holidays"}, {"holidays"}, {}, 1, 0),
     Play({ann, bob}, {"requests", "approvals"}, {"own"}, {"logout"}, 1, 0)}

SharedBrowser == {Play({ann, bob}, {"requests"}, {"own"}, {"logout", "lose"}, 1, 0)}
BellOnly      == {Play({ann}, {"clock"}, {"own"}, {"bell"}, 1, 0)}
=============================================================================

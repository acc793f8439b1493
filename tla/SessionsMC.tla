----------------------------- MODULE SessionsMC -----------------------------
(* Instances of Sessions for TLC. *)
EXTENDS Sessions

CONSTANTS laptop, phone,   \* tabs, each in a browser of its own
          poll             \* a call of the pages

OwnBrowser == [t \in Tabs |-> t]
=============================================================================

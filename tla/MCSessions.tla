------------------------------ MODULE MCSessions ------------------------------
(* Instance of Sessions for TLC: each budget is a way to divide what a      *)
(* behaviour may contain between two TUIs and the failures of the store.    *)
EXTENDS Sessions

CONSTANTS a, b

Budget(ofA, ofB, failures) == [commands |-> (a :> ofA) @@ (b :> ofB), failures |-> failures]

MCBudgets == {Budget(2, 1, 0), Budget(1, 1, 1), Budget(3, 0, 1), Budget(2, 0, 2)}
=============================================================================

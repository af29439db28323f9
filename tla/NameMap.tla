------------------------------ MODULE NameMap ------------------------------
(***************************************************************************)
(* What a dictionary promises: a map from names to values, in which a call *)
(* changes the entry of the name it is given and no other.                 *)
(***************************************************************************)
CONSTANTS Names, Values, NoValue

VARIABLES map, call      \* call: the name and the value of the last dictput

Init == map = [nm \in Names |-> NoValue] /\ call = <<>>

dictput(nm, v) == call' = <<nm, v>> /\ map' = [map EXCEPT ![nm] = v]

Next == \E nm \in Names, v \in Values \cup {NoValue} : dictput(nm, v)

Spec == Init /\ [][Next]_<<map, call>>
=============================================================================

------------------------------ MODULE MCBudget ------------------------------
(* The instance of Budget that TLC checks. *)
EXTENDS Budget

\* a writes two bytes or its FIN, b one byte or its whole budget, c single bytes.
MixedSizes == [s \in Streams |-> IF s = "a" THEN {0, 2}
                             ELSE IF s = "b" THEN {1, 3} ELSE {1}]

=============================================================================

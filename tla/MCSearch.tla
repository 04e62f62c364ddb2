------------------------------ MODULE MCSearch ------------------------------
(* Three users: one found by the username, one by the full name in capital *)
(* letters, and one whose username has capital letters.                    *)
EXTENDS Search

CONSTANTS u1, u2, u3

MCOrder == <<u1, u2, u3>>
MCTexts == {"a", "A", "ab"}
MCLower == [t \in MCTexts |-> IF t = "A" THEN "a" ELSE t]
MCUsername == u1 :> {"a", "ab"} @@ u2 :> {} @@ u3 :> {"A"}
MCFullname == u1 :> {} @@ u2 :> {"A"} @@ u3 :> {}
============================================================================

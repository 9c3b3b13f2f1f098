----------------------------- MODULE MCServices -----------------------------
(***************************************************************************)
(* A small instance of Services.                                           *)
(***************************************************************************)
EXTENDS Services, TLC

CONSTANTS low, high, km, v1, v2, q1, q2

\* One field of the vehicle, the mileage, with its key and what its fact says.
MCVehicleKey == [f \in {"mileage"} |-> km]
MCVehicleText == [fv \in {"mileage"} \X {v1, v2} |-> IF fv[2] = v1 THEN low ELSE high]

\* Two pages of one manual and a discussion; one quote is on both pages.
MCNeighbors == [c \in 1 .. 3 |-> IF c = 1 THEN <<2>> ELSE IF c = 2 THEN <<1>> ELSE <<>>]
MCText == [c \in 1 .. 3 |-> IF c = 1 THEN {q1, q2} ELSE IF c = 2 THEN {q1} ELSE {q2}]

\* Messages and chats are alike.
Symm == Permutations(Turns) \cup Permutations(Sessions)
=============================================================================

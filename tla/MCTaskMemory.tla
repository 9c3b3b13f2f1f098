---------------------------- MODULE MCTaskMemory ----------------------------
(* One vehicle field, the mileage, with its key and what its fact says.    *)
EXTENDS TaskMemory

CONSTANTS say, low, high, km, mileage, v1, v2

MCVehicleKey == [f \in {mileage} |-> km]
MCVehicleText == [fv \in {mileage} \X {v1, v2} |-> IF fv[2] = v1 THEN low ELSE high]
=============================================================================

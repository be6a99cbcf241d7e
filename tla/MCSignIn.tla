------------------------------ MODULE MCSignIn ------------------------------
(***************************************************************************)
(* A Steam player with two devices, whose first sign-ins race, and a Stove *)
(* player with one.                                                        *)
(***************************************************************************)
EXTENDS SignIn

CONSTANTS steam, stove, pc, deck, laptop

MCPlayerOf == [d \in Devices |-> IF d = laptop THEN stove ELSE steam]
=============================================================================

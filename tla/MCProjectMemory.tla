---------------------------- MODULE MCProjectMemory ----------------------------
(* Instances of ProjectMemory: a laptop with two aicoder processes, a second *)
(* device with one.                                                          *)
EXTENDS ProjectMemory, TLC

CONSTANTS laptop, desktop, agent, team, other

LaptopHomes == agent :> laptop @@ team :> laptop
Homes == LaptopHomes @@ other :> desktop
================================================================================

-------------------------- MODULE MCDevicePassword --------------------------
(* Model-checking instance of DevicePassword: sessions and addresses are   *)
(* interchangeable.                                                        *)
EXTENDS DevicePassword, TLC

Symmetry == Permutations(Sessions) \cup Permutations(Ips)
=============================================================================

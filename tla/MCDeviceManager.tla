--------------------------- MODULE MCDeviceManager ---------------------------
(* Cameras are interchangeable to DeviceManager.                            *)
EXTENDS DeviceManager, TLC

Symmetry == Permutations(Cams)
=============================================================================

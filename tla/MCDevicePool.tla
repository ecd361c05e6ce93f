---------------------------- MODULE MCDevicePool ----------------------------
(***************************************************************************)
(* Values of the constants of DevicePool for TLC.                          *)
(***************************************************************************)
EXTENDS DevicePool

CONSTANTS d1, d2, a1, a2, b1, s1

TwoDevices == {d1, d2}
OneDevice == {d1}
TwoAsync == {a1, a2}
OneBackground == {b1}
OneDetached == {s1}
NoThread == {}
=============================================================================

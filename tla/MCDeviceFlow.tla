---------------------------- MODULE MCDeviceFlow ----------------------------
(* DeviceFlow for TLC: clients, user codes, personas and browsers are       *)
(* interchangeable, as nothing in the code tells them apart.                *)
EXTENDS DeviceFlow, TLC

Symmetry ==
  Permutations(Clients) \cup Permutations(UserCodes)
    \cup Permutations(Subs) \cup Permutations(Browsers)
==============================================================================

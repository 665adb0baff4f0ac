--------------------------- MODULE MC_WireFormat ---------------------------
(* Model checking WireFormat: the three ABIs the storage and keymaster     *)
(* ends are built for (arm64 and arm32 in the secure world, the proxy or a *)
(* client possibly i386), and two values for an uninitialised byte.        *)
EXTENDS WireFormat, TLC

AllABIs == {"arm64", "arm32", "i386"}

PadValues == {0, 165}
====

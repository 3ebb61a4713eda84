------------------------------ MODULE MCSidecar ------------------------------
(* A small instance of Sidecar for TLC. *)
EXTENDS Sidecar

World(windows, events) == [windows |-> windows, events |-> events]

AllWorlds ==
    {World(TRUE, {"crash", "stop", "probe", "foreign", "reuse"}),
     World(TRUE, {"stop", "probe"}),
     World(FALSE, {"stop", "probe"}),
     World(FALSE, {"stop", "probe", "overlap", "fails"}),
     World(FALSE, {"crash", "stop", "persist"})}
=============================================================================

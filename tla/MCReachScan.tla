----------------------------- MODULE MCReachScan -----------------------------
(* Instances of ReachScan for TLC. *)
EXTENDS ReachScan

CONSTANTS w1, w2

Ext(m, n) == [mod |-> m, name |-> n, external |-> TRUE]
Static(m, n) == [mod |-> m, name |-> n, external |-> FALSE]

(* Three entries, two in file 1, which reaches every other file; the third, in
   file 3, reaches 2 and 3, which call each other, and starts a thread whose name
   is external in file 4 and static in file 5; 6 cannot be lowered. *)
MCFunctions == {Ext(1, "ioctl"), Ext(1, "open"), Ext(2, "helper"), Ext(3, "leaf"),
                Static(3, "poll"), Ext(4, "worker"), Ext(5, "drain"), Static(5, "worker"),
                Ext(6, "lost")}
MCCalls == <<{"helper", "worker", "printk"}, {"leaf", "lost"}, {"helper"}, {"drain"}, {}, {}>>
MCSpawns == <<{}, {}, {"worker"}, {}, {}, {}>>
MCEntryNames == {"ioctl", "open", "poll"}
=============================================================================

---------------------------- MODULE MCEventLoop ------------------------------
(* Small instances of EventLoop for TLC: the master's journal and the      *)
(* journals of two other processes.                                        *)
EXTENDS EventLoop

CONSTANTS jm, ja, jb, lm, la, lb

Owner == [j \in Journal |-> IF j = jm THEN lm ELSE IF j = ja THEN la ELSE lb]
=============================================================================

------------------------------ MODULE MCDaemon ------------------------------
(* Values of the constants of Daemon for TLC. *)
EXTENDS Daemon

\* Below and above the 9 V limit.
MCVoltages == {8, 10}
=============================================================================

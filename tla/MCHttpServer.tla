----------------------------- MODULE MCHttpServer -----------------------------
(* Values of the constants of HttpServer for TLC. *)
EXTENDS HttpServer

MCHats == {[hw |-> 2, fw |-> 2]}
\* With and without sleep and LED.
MCAllHats == MCHats \cup {[hw |-> 1, fw |-> 1]}

\* `shrpi sleep 1' and `shrpi sleep' with a date one second ahead.
MCTexts == {[int |-> TRUE, value |-> 1], [int |-> FALSE, value |-> 1]}
\* `shrpi sleep 0'.
MCZero == {[int |-> TRUE, value |-> 0]}
\* A body without a time, no delay, what the handler refuses, and what breaks it.
MCBodies == {[kind |-> "neither", value |-> 0],
             [kind |-> "delay", value |-> 0],
             [kind |-> "baddatetime", value |-> 0],
             [kind |-> "baddelay", value |-> 0],
             [kind |-> "delay", value |-> -1],
             [kind |-> "datetime", value |-> -3],
             [kind |-> "broken", value |-> 0]}
=============================================================================

---------------------------- MODULE MCSHRPiDevice ----------------------------
(* Values of the constants of SHRPiDevice for TLC. *)
EXTENDS SHRPiDevice

\* Both generations of hardware, and the older one with newer firmware.
MCHats == {[hw |-> 1, fw |-> 1], [hw |-> 1, fw |-> 2], [hw |-> 2, fw |-> 2]}

\* The daemon's two, a tenth and less, and both sides of each width; a negative
\* one is a number too.
MCTimeouts == {-100, 0, 50, 100, 1001, 9999, 10000,
               25500, 25599, 25600, 65535, 65536, 75536}

\* Zero, half, just below full scale and above on one board or the other.
MCThresholds == {0, 1375, 2749, 9349, 9350}
=============================================================================

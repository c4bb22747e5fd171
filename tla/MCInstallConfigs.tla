-------------------------- MODULE MCInstallConfigs --------------------------
(* Values of the constants of InstallConfigs for TLC. *)
EXTENDS InstallConfigs

\* A fresh image, of the age when I2C was still blacklisted.
Fresh ==
    [k \in Entries |->
        CASE k \in {"i2c_arm", "spi"} -> {"commented"}
          [] k \in {"blacklist", "fake-hwclock", "hciuart", "console"} -> {"active"}
          [] OTHER -> {}]
MCShipped == {Fresh}

\* The users of SPI in every combination, also named by both options; the others
\* together.
Skip == [m \in Modules |-> "skip"]
OnSpi(can, rs485) == [Skip EXCEPT !["CAN"] = can, !["RS485"] = rs485]
Apart(answer) == [Skip EXCEPT !["RTC"] = answer, !["MAX-M8Q"] = answer]
MCRequests ==
    {OnSpi(a, b) : a, b \in {"enable", "disable", "skip"}}
        \cup {OnSpi("both", "disable")}
        \cup {Apart(a) : a \in {"enable", "disable"}}

\* None, and both versions with and without their clock; the overlays' directory
\* matters to version 1.
MCHats ==
    {h \in [board : {0, 1, 2}, fitted : BOOLEAN, overlays : BOOLEAN] :
        /\ h.board = 0 \/ ~h.overlays => ~h.fitted
        /\ h.board # 1 => h.overlays}
=============================================================================

------------------------------ MODULE MCSession ------------------------------
(* An instance of Session for TLC. *)
EXTENDS Session

Config(exit, ping, blink, beeps) ==
    [close_on_exit |-> exit, ping |-> ping, blink |-> blink, beeps |-> beeps]

SomeConfigs == {Config("FORCE_OFF", TRUE, FALSE, FALSE), Config("AUTO", FALSE, TRUE, FALSE),
                Config("FORCE_ON", FALSE, FALSE, FALSE), Config("FORCE_OFF", FALSE, FALSE, TRUE)}
=============================================================================

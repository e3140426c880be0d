---------------------------- MODULE MCUartConsole ----------------------------
(* An instance of UartConsole for TLC *)
EXTENDS UartConsole

\* The two bytes of an end of line, a reboot, noise, and a second CR before text
SomeInputs == {<<"A", "CR", "LF">>, <<"r", "CR">>, <<"NOISE">>, <<"CR", "CR", "A">>}
=============================================================================

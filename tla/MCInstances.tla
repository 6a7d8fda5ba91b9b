---------------------------- MODULE MCInstances ----------------------------
(* Command lines: as systemd and as udev start it, with a TCP socket, with *)
(* no pidfile, and the two ways to end a running instance.                 *)
EXTENDS Instances

UserArgs == {<<"s">>, <<"u">>, <<"f", "T">>, <<"f", "N">>, <<"x">>, <<"X">>}
NoArgs == {}

=============================================================================

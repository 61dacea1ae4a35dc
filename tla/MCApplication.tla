---------------------------- MODULE MCApplication ----------------------------
(* Instances of Application for TLC. *)
EXTENDS Application, TLC

CONSTANTS audit, billing

ExtensionOrder == <<audit, billing>>

Requested == {"login", "sessions", "unknown", billing}

Settings ==
  [tenths : {0, 5, 10, 15, 70}, unit : DOMAIN Seconds]
  \cup [tenths : {100800}, unit : {"m", "min"}]

=============================================================================

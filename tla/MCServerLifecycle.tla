-------------------------- MODULE MCServerLifecycle --------------------------
(* Instances of ServerLifecycle for TLC. *)
EXTENDS ServerLifecycle, TLC

CONSTANTS audit, billing

ExtensionOrder == <<audit, billing>>

=============================================================================

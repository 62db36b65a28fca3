-------------------------- MODULE MCCodexInjection --------------------------
(* A small instance of CodexInjection. *)
EXTENDS CodexInjection

CONSTANTS e1

MCEdits == {e1}
=============================================================================

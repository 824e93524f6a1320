--------------------------- MODULE MCWorkSessions ---------------------------
(* One role that can work under two harnesses.                             *)
EXTENDS WorkSessions

CONSTANTS codex, zcode

MCHarness == {codex, zcode}
=============================================================================

------------------------------- MODULE MCTitle -------------------------------
(* The window's title for TLC. *)
EXTENDS Explain, MCExplain

MCSize == {Size(132, 30)}
MCProcesses == {"process"}
=============================================================================

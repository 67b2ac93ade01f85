----------------------------- MODULE MCHistoryRestore -----------------------------
(***************************************************************************)
(* HistoryRestore for TLC.  Forced restores come from the command line and *)
(* the GUI; those of the MCP server install only groups that are not there.*)
(***************************************************************************)
EXTENDS HistoryRestore

Install(g, force) == [group |-> g, force |-> force]
MCRestore == [i1 |-> Install("g1", TRUE), i2 |-> Install("g2", TRUE), i3 |-> Install("g1", FALSE)]
McpRestore == [i1 |-> Install("g1", FALSE), i2 |-> Install("g2", FALSE)]
MCReadOf == [k1 |-> "g1"]
=============================================================================

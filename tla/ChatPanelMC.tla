----------------------------- MODULE ChatPanelMC -----------------------------
EXTENDS ChatPanel

CONSTANTS c1, c2
=============================================================================

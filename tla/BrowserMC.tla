----------------------------- MODULE BrowserMC -----------------------------
EXTENDS Browser

CONSTANTS u1, u2
=============================================================================

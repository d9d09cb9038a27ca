------------------------------- MODULE ChatMC -------------------------------
EXTENDS Chat, TLC

CONSTANTS u1, u2, c1

OneChat == c1 :> {u1, u2}
=============================================================================

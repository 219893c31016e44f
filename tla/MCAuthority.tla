----------------------------- MODULE MCAuthority -----------------------------
EXTENDS Authority, TLC
==============================================================================

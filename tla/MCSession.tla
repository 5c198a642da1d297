----------------------------- MODULE MCSession -----------------------------
EXTENDS Session

NoTimeout == -1
============================================================================

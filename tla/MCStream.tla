------------------------------ MODULE MCStream ------------------------------
EXTENDS Stream

\* An error, IProtocol::OK and IProtocol::Logout; the last is one more byte.
AnyResult == {-1, 0, 1}
=============================================================================

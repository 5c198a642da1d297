--------------------------- MODULE MCProtoClient ---------------------------
EXTENDS ProtoClient

AnyTimeout == {-1, 1}
=============================================================================

------------------------- MODULE MCDocumentedClaims -------------------------
EXTENDS DocumentedClaims, MCCanDriver
=============================================================================

------------------------------ MODULE MCStartup ------------------------------
EXTENDS Startup, TLC

MCEither == BOOLEAN
=============================================================================

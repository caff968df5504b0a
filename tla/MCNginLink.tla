---------------------------- MODULE MCNginLink ----------------------------
EXTENDS NginLink, MCCanDriver
=============================================================================

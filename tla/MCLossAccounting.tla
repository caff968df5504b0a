------------------------- MODULE MCLossAccounting -------------------------
EXTENDS LossAccounting, MCCanDriver
=============================================================================

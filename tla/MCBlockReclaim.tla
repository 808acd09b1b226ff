--------------------------- MODULE MCBlockReclaim ---------------------------
EXTENDS BlockReclaim
=============================================================================

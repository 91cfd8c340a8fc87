---------------------------- MODULE MCStateKeeper ----------------------------
EXTENDS StateKeeper
=============================================================================

---------------------------- MODULE MCChangeFeed -----------------------------
EXTENDS ChangeFeed

CONSTANTS b1, b2, b3

MCScreen == {b1, b2, b3}
==============================================================================

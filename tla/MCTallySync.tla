----------------------------- MODULE MCTallySync -----------------------------
EXTENDS TallySync

CONSTANTS j1, j2, w1, w2

MCJob == {j1, j2}
MCPass == {w1, w2}
==============================================================================

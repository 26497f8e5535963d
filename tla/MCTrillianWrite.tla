-------------------------- MODULE MCTrillianWrite --------------------------
EXTENDS TrillianWrite

CONSTANTS l1, l2

MCInitialTrees == {<<l1>>}
=============================================================================

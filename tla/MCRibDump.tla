----------------------------- MODULE MCRibDump ------------------------------
EXTENDS RibDump

MCSubtrees == {<<2, 2>>, <<2, 3>>}
=============================================================================

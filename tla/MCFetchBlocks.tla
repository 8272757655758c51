--------------------------- MODULE MCFetchBlocks ---------------------------
EXTENDS FetchBlocks

\* Blocks 1 and 2 are one file, the others one each.
MCLinkable == {{}, {1, 2}, {3}, Blocks}
=============================================================================

--------------------------- MODULE MCAioFileElement ---------------------------
EXTENDS AioFileElement, TLC
MCKeys == 1..(FileTags + 1)
MCRequests == {<<0, 0>>, <<2, 3>>}
=============================================================================

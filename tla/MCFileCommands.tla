--------------------------- MODULE MCFileCommands ---------------------------
EXTENDS FileCommands

MCCandidates == <<"logo">>
MCNoFile == -1
MCIsDir == -2
=============================================================================

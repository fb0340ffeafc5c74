----------------------------- MODULE MCLiveSync -----------------------------
EXTENDS LiveSync

MCRanges == {{1}, {1, 2}}
=============================================================================

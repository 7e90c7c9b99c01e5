---------------------------- MODULE MCCompaction ----------------------------
\* Compaction, instantiated for TLC by the MCCompact*.cfg files.
EXTENDS Compaction
=============================================================================

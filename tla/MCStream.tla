------------------------------ MODULE MCStream ------------------------------
\* Stream, instantiated for TLC by MCStream.cfg.
EXTENDS Stream
=============================================================================

---------------------------- MODULE MCIdempotency ----------------------------
\* Idempotency, instantiated for TLC by the MCIdempotency*.cfg files.
EXTENDS Idempotency
=============================================================================

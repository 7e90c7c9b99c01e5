----------------------------- MODULE MCDelivery -----------------------------
\* Delivery, instantiated for TLC by MCDelivery.cfg.
EXTENDS Delivery
=============================================================================

---------------------------- MODULE MCEipSession ----------------------------
\* One device with two readers; the values of the constants are in the .cfg.
EXTENDS EipSession
=============================================================================

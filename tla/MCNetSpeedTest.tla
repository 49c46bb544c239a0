-------------------------- MODULE MCNetSpeedTest --------------------------
EXTENDS NetSpeedTest
=============================================================================

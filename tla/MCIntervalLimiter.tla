------------------------- MODULE MCIntervalLimiter -------------------------
\* Small instances of IntervalLimiter; its constants need no definitions.
EXTENDS IntervalLimiter
===========================================================================

----------------------------- MODULE MCLogRing -----------------------------
\* Writers, streams and the sizes come from the cfg file.
EXTENDS LogRing
=============================================================================

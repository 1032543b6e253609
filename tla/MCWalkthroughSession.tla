------------------------ MODULE MCWalkthroughSession ------------------------
\* Instances of WalkthroughSession for TLC.
EXTENDS WalkthroughSession
=============================================================================

-------------------------- MODULE MCInboxLiveness --------------------------
\* InboxLiveness for TLC.
EXTENDS InboxLiveness
=============================================================================

------------------------- MODULE MCDetachedSession -------------------------
\* Small instances of DetachedSession.
EXTENDS DetachedSession
=============================================================================

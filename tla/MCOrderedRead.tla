---------------------------- MODULE MCOrderedRead ----------------------------
\* OrderedRead with a ring of three slots and seven requests a session, so
\* that the ring wraps and requests share slots.
EXTENDS OrderedRead
=============================================================================

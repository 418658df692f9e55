--------------------------- MODULE SourceConstants ---------------------------
\* Parameters the input sources share.
EXTENDS Naturals

CONSTANTS MaxRequests,   \* bound: blocks numbered in one session
          IoRequestNum   \* io_request_num: reads the IOCP reader keeps in flight

ASSUME MaxRequestsAssumption == MaxRequests \in Nat
ASSUME IoRequestNumAssumption == IoRequestNum \in Nat \ {0}
=============================================================================

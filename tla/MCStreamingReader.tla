-------------------------- MODULE MCStreamingReader --------------------------
\* StreamingReader with a ring of three slots and as many buffers.
EXTENDS StreamingReader
=============================================================================

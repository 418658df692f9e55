---------------------------- MODULE MCPosixReader ----------------------------
\* PosixReader with two workers, a ring of three slots and as many buffers.
EXTENDS PosixReader
=============================================================================

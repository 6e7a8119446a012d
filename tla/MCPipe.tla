------------------------------- MODULE MCPipe -------------------------------
EXTENDS Pipe
CONSTANTS p1, p2, p3
=============================================================================

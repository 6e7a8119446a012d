----------------------------- MODULE MCProcTree -----------------------------
EXTENDS ProcTree
=============================================================================

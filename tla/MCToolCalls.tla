----------------------------- MODULE MCToolCalls -----------------------------
EXTENDS ToolCallsProps

CONSTANTS c1, c2
=============================================================================

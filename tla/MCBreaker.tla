----------------------------- MODULE MCBreaker -----------------------------
EXTENDS BreakerProps

CONSTANTS t1, auth_error

NoApproveRev == {}
=============================================================================

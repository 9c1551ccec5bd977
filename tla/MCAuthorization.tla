--------------------------- MODULE MCAuthorization ---------------------------
\* Small instances of Authorization.
EXTENDS Authorization

CONSTANTS u1, u2, d1, a1, k1
===============================================================================

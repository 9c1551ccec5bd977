------------------------------- MODULE MCSchema -------------------------------
\* Small instances of Schema.
EXTENDS Schema
===============================================================================

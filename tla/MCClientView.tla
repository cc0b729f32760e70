----------------------------- MODULE MCClientView -----------------------------
EXTENDS ClientView, MCRequests

\* The next step overwrites what this one published.
ClientViewView == <<levels, order_index, incoming, viewVars>>
===============================================================================

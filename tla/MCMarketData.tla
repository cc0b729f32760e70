----------------------------- MODULE MCMarketData -----------------------------
EXTENDS MarketData, MCRequests

\* The next step overwrites what this one published; update_queue has it.
MarketDataView == <<levels, order_index, incoming, feedVars>>
===============================================================================

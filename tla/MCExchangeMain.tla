---------------------------- MODULE MCExchangeMain ----------------------------
EXTENDS ExchangeMain

CONSTANTS s1, s2

Order(s) == [kind |-> "order", symbol |-> s]
Other(kind) == [kind |-> kind, symbol |-> s1]

MCInput ==
  { << Order(s1), Order(s2) >>, << Order(s1), Order(s1) >>,
    << Other("comment"), Order(s2), Other("malformed"), Other("empty") >>,
    << Order(s1), Other("not a number") >>,
    << Other("empty") >> }
===============================================================================

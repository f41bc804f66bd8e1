--------------------------- MODULE MCSalesClients ---------------------------
EXTENDS SalesClients, TLC

CONSTANTS s1

StockTwo == [s \in SKUs |-> 2]

=============================================================================

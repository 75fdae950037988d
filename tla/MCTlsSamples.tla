---------------------------- MODULE MCTlsSamples ----------------------------
EXTENDS TlsSamples

MCServer ==
  {"tls_server", "ssl_server_async", "one_way_server", "two_way_server", "tcp_server"}

CONSTANTS a, b

Two(first, seconds) == {[c \in {a, b} |-> IF c = a THEN first ELSE s] : s \in seconds}

MCClientsOf ==
  [ tls_server       |-> Two("tls_client", {"ssl_client_async", "stranger"}),
    ssl_server_async |-> Two("ssl_client_async", {"tls_client", "stranger"}),
    one_way_server   |-> Two("one_way_client", {"one_way_client", "stranger"}),
    two_way_server   |-> Two("two_way_client", {"stranger"}),
    tcp_server       |-> Two("tcp_client", {"tcp_client", "stranger"}) ]

MCFlightsOf ==
  [s \in MCServer |-> IF s = "tcp_server" THEN {0} ELSE {3, 4}]

MCRefusersOf ==
  [ tls_server       |-> {"nobody"},
    ssl_server_async |-> {"nobody"},
    one_way_server   |-> {"nobody", "client"},
    two_way_server   |-> {"nobody", "client", "server"},
    tcp_server       |-> {"nobody"} ]
============================================================================

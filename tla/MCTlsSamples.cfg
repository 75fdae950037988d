SPECIFICATION FairSpec
CONSTANTS
  a = a
  b = b
  Client = {a, b}
  NoClient = none
  Troubles = 1
  Server <- MCServer
  ClientsOf <- MCClientsOf
  FlightsOf <- MCFlightsOf
  RefusersOf <- MCRefusersOf
  Handshakes = {3, 4}
  Lines = 2
  Capacity = 1
  Runs = 2
INVARIANTS
  NoDescriptorLost
  ServerOutlivesClients
  NothingLost
PROPERTIES
  EveryClientEnds
  LinesArrive
CHECK_DEADLOCK FALSE

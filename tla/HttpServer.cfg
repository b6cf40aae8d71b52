SPECIFICATION FairSpec
CONSTANTS
  Clients = {c1, c2, c3, c4}
  Workers = {w1, w2}
  Main = Main
  MaxAddresses = 3
INVARIANTS TypeOK Descriptors OneThread IndexOutlivesWork TasksFreed SocketClosed
PROPERTIES AcceptedServed ShutsDown

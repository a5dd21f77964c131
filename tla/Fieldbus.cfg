\* Three users beside the owner and the daemon; the connection fails three times.
CONSTANTS
  MaxOutages = 3
  Users = {u1, u2, u3}
SPECIFICATION BusSpec
INVARIANTS
  BusTypeOK
  ClientInUse
  RequestHasClient
  ClosedStaysClosed
PROPERTIES
  CloseReturns
  PollingRecovers

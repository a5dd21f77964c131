\* A start() and a stop() are enough.
CONSTANTS
  MaxOutages = 0
  Users = {u1}
SPECIFICATION BusSpec
PROPERTY StopLeavesDeviceOpen

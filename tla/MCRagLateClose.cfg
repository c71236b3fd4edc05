SPECIFICATION Spec
CONSTANTS
  Sockets = {s1, s2, s3, s4}
  MaxReconnectAttempts = 3
  NoSocket = NoSocket
PROPERTY OpenEntryKept
SYMMETRY SocketSymmetry

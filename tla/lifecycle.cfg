\* Files of every kind, addresses in use, and clients that never finish a handshake.
\* The process may end.
SPECIFICATION FairSpec
CONSTANTS
  Configs <- Files
  Foreign = {"a1:80", "a1:81"}
  Conns = {k1, k2, k3}
  MaxOpen = 2
  None = None
INVARIANTS TypeOK OneWriter
PROPERTIES AddressServed IdleProcessExits PendingAccepted
CHECK_DEADLOCK FALSE

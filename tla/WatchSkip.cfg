SPECIFICATION Spec
CONSTANTS
  Keys = {k1}
  Clients = {c1}
  ClientIds = {}
  Capacity = 1
  None = None
  Resync = Resync
  Asked = Asked
  MaxRev = 3
  MaxCompactions = 1
  MaxInstalls = 0
  MaxProgress = 0

INVARIANT NeverSkips
CHECK_DEADLOCK FALSE

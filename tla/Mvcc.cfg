SPECIFICATION Spec
CONSTANTS
  Keys = {1, 2}
  Leases = {1}
  Requests <- MCRequests
  NoRev = NoRev
  NoRec = NoRec
  NoReq = NoReq
  MaxRev = 5
INVARIANTS
  ReadsHistory TablesAgree 

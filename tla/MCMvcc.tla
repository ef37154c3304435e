------------------------------- MODULE MCMvcc -------------------------------
(***************************************************************************)
(* Requests for model checking Mvcc: two keys, one lease, one of each kind *)
(* of request the code treats differently.                                 *)
(***************************************************************************)
EXTENDS Mvcc

Put(k, v, l) == [op |-> "put", key |-> k, val |-> v, lease |-> l, keepVal |-> FALSE, keepLease |-> FALSE]
KeepLease(k, v) == [Put(k, v, 0) EXCEPT !.keepLease = TRUE]
KeepVal(k) == [Put(k, 0, 0) EXCEPT !.keepVal = TRUE]
Del(K) == [op |-> "del", keys |-> K]
Get(rev) == [op |-> "range", keys |-> {1, 2}, rev |-> rev]

Mutations(ops) == [txn |-> FALSE, cmp |-> {}, yes |-> ops, no |-> <<>>]
Txn(cs, yes, no) == [txn |-> TRUE, cmp |-> cs, yes |-> yes, no |-> no]
Nested(cs, yes, no) == [op |-> "txn", cmp |-> cs, yes |-> yes, no |-> no]

Exists(k) == [keys |-> {k}, range |-> FALSE, field |-> "create", op |-> "gt", arg |-> 0]
AllOld == [keys |-> {1, 2}, range |-> TRUE, field |-> "mod", op |-> "lt", arg |-> 2]
NoneLeased == [keys |-> {1, 2}, range |-> TRUE, field |-> "lease", op |-> "eq", arg |-> 0]
ValueIs(k, v) == [keys |-> {k}, range |-> FALSE, field |-> "val", op |-> "eq", arg |-> v]
ValueIsNot(k, v) == [keys |-> {k}, range |-> FALSE, field |-> "val", op |-> "ne", arg |-> v]

MCRequests == {
  <<Mutations(<<Put(1, 1, 1)>>)>>,
  <<Mutations(<<Put(1, 1, 0), KeepVal(2)>>)>>,
  <<Mutations(<<Del({1, 2})>>)>>,
  \* Put, read back, delete and put again in one txn, if key 1 exists.
  <<Txn({Exists(1)}, <<Put(2, 1, 0), Get(0), Del({1, 2}), Put(1, 2, 1)>>,
                     <<Get(1), Put(1, 1, 0)>>)>>,
  \* A nested txn after a put of the key it compares.
  <<Txn({AllOld}, <<Put(1, 2, 0), Nested({ValueIsNot(1, 2)}, <<Put(2, 2, 1)>>, <<Del({1})>>)>>,
                  <<Del({2})>>)>>,
  \* Several requests in one commit; the second may be refused.
  <<Mutations(<<Put(2, 1, 0)>>), Mutations(<<KeepLease(1, 2)>>),
    Txn({ValueIs(1, 2), NoneLeased}, <<Del({2})>>, <<Get(0)>>)>>,
  \* Not shareable: the second put may be refused after the first.
  <<Mutations(<<Put(1, 2, 0)>>), Mutations(<<Put(1, 1, 0), KeepVal(2)>>)>>
  }
=============================================================================

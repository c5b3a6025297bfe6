CONSTANTS
  Users = {u1, u2, u3}
  NoConn = NoConn
SPECIFICATION FairSpec
INVARIANTS TypeOK PairedByConnID NoStalePending DataConnOwnedOnce
PROPERTIES UserServedOrClosed AcceptorReturns
CHECK_DEADLOCK FALSE

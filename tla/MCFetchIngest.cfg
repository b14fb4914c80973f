CONSTANTS
  Msgs <- MCMsgs
  MsgFlags <- MCMsgFlags
  ItemOrders <- FlagsFirstOrders

SPECIFICATION Spec

INVARIANT TypeOK
INVARIANT BodyRoundTrip
INVARIANT FlagsRoundTrip
INVARIANT FetchComplete
 

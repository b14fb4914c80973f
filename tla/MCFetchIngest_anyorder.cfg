CONSTANTS
  Msgs <- MCMsgs
  MsgFlags <- MCMsgFlags
  ItemOrders <- AnyOrders

SPECIFICATION Spec

INVARIANT FlagsRoundTrip

--------------------------- MODULE MCFetchIngest ---------------------------
(* Two messages; flag sets with letters, without letters, and with a flag *)
(* (\Deleted) that has no letter.                                          *)
EXTENDS FetchIngest

MCMsgs == 1..2
MCMsgFlags == {{}, {"Deleted"}, {"Answered", "Seen"}}

(* Orders in which the FLAGS item precedes the BODY[] item, as servers    *)
(* answer when they follow the order of the request.                      *)
FlagsFirstOrders == {o \in SetToSeqs(ItemKinds) :
                       \A i, j \in 1..4 : o[i] = "BODY" /\ o[j] = "FLAGS" => j < i}

(* Every order: RFC 3501 does not fix the order of a FETCH response's items. *)
AnyOrders == SetToSeqs(ItemKinds)

=============================================================================

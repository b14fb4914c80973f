----------------------------- MODULE MCSession -----------------------------
(* Instantiation of Session for TLC: two messages, the capability sets    *)
(* that select every branch of command(), and both values of opts_.del;  *)
(* UID 3 is new mail that may arrive at any point of the session.        *)
EXTENDS Session

MCUIDs == {1, 2, 3}
MCArrivals == {3}
(* With other sessions expunging: one message present, one arriving. *)
MCFewUIDs == {1, 2}
MCFewArrivals == {2}
MCPreCapSets == {{"IMAP4REV1"}, {"IMAP4REV1", "LOGINDISABLED"}}
MCPostCapSets == {{"IMAP4REV1"}, {"IMAP4REV1", "UIDPLUS"}}

=============================================================================

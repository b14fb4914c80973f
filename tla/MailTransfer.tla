---------------------------- MODULE MailTransfer ----------------------------
(***************************************************************************)
(* What imapdl promises about mail, whatever the protocol steps: messages  *)
(* arrive in the server's mailbox, each is copied into the maildir at most *)
(* once while it is on the server, and a message leaves the server (is     *)
(* flagged \Deleted or expunged) only once its copy is in the maildir.     *)
(*                                                                         *)
(* server is the set of messages the mailbox keeps (present and not       *)
(* flagged \Deleted); local is the maildir, a bag counting the files that *)
(* hold each message.                                                     *)
(***************************************************************************)
EXTENDS Bags

CONSTANT Mail   \* the messages (UIDs) that may ever be in the mailbox

VARIABLES server, local

Init ==
  /\ server \subseteq Mail
  /\ local = EmptyBag

(* New mail is delivered to the mailbox by someone else. *)
Arrive(u) ==
  /\ u \notin server /\ ~BagIn(u, local)
  /\ server' = server \cup {u}
  /\ UNCHANGED local

(* A message on the server is written into the maildir, once. *)
Deliver(u) ==
  /\ u \in server /\ ~BagIn(u, local)
  /\ local' = local (+) SetToBag({u})
  /\ UNCHANGED server

(* Messages whose copies are in the maildir leave the server. *)
Remove(U) ==
  /\ U # {} /\ U \subseteq server /\ U \subseteq BagToSet(local)
  /\ server' = server \ U
  /\ UNCHANGED local

Next ==
  \/ \E u \in Mail : Arrive(u) \/ Deliver(u)
  \/ \E U \in SUBSET Mail : Remove(U)

Spec == Init /\ [][Next]_<<server, local>>

=============================================================================

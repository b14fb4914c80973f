---------------------------- MODULE FetchIngest ----------------------------
(***************************************************************************)
(* The parser callbacks of IMAP::Copy::Client that turn the untagged FETCH *)
(* responses of "FETCH 1:* (UID FLAGS BODY.PEEK[HEADER.FIELDS (date from   *)
(* subject)] BODY.PEEK[])" into maildir files (src/unnamed/part_000,       *)
(* imap_data_fetch_begin .. imap_uid): the flag letters of the message,    *)
(* the full_body_ marker, the buffer proxy that the parser writes section  *)
(* data through, the temporary file and its move to new/ or cur/.          *)
(*                                                                         *)
(* The parser is the environment: for every message it emits the four    *)
(* requested items in one of the orders ItemOrders allows, each item as   *)
(* the callbacks the lexer makes for it, and finally the tagged OK.       *)
(***************************************************************************)
EXTENDS Naturals, Sequences, FiniteSets, SequencesExt

CONSTANTS
  Msgs,        \* sequence numbers of the mailbox's messages, 1..N
  MsgFlags,    \* flag sets a message may carry on the server
  ItemOrders   \* orders of UID, FLAGS, HDR, BODY the server may use

ItemKinds == {"UID", "FLAGS", "HDR", "BODY"}
IMAPFlags == {"Answered", "Seen", "Flagged", "Draft", "Recent", "Deleted"}

ASSUME Msgs = 1..Cardinality(Msgs)
ASSUME \A F \in MsgFlags : F \subseteq IMAPFlags
ASSUME \A o \in ItemOrders : o \in Seq(ItemKinds) /\ ToSet(o) = ItemKinds /\ Len(o) = 4

(* Variant: \Deleted given maildir's "T" (trashed) letter. *)
MaildirLetterTrashed == [Answered |-> <<"R">>, Seen |-> <<"S">>, Flagged |-> <<"F">>,
                         Draft |-> <<"D">>, Recent |-> <<>>, Deleted |-> <<"T">>]

(* imap_flag: the maildir letter of an IMAP flag; \Recent and \Deleted   *)
(* have none.                                                            *)
MaildirLetter == [Answered |-> <<"R">>, Seen |-> <<"S">>, Flagged |-> <<"F">>,
                  Draft |-> <<"D">>, Recent |-> <<>>, Deleted |-> <<>>]

(* The letters a FLAGS list gives, in the order the flags are listed. *)
Letters(fs) == FlattenSeq([i \in DOMAIN fs |-> MaildirLetter[fs[i]]])

VARIABLES
  fetching,  \* state_ = FETCHING (FALSE once the tagged OK moved to FETCHED)
  flagsBuf,  \* flags_: the maildir flag letters of the current message
  fullBody,  \* full_body_
  proxy,     \* buffer_proxy_ target: "memory" (buffer_) or "file" (file_buffer_)
  fileOpen,  \* file_buffer_ holds an open temporary file
  tmp,       \* the temporary file being written: its content
  maildir,   \* files moved into new/ or cur/, in order
  uids,      \* uids_
  fetched,   \* fetched_messages_
  srvFlags,  \* the FLAGS list of every message (fixed)
  nextMsg,   \* the next message the server will answer with
  todo,      \* the items of the current message not yet emitted
  ev         \* callbacks of the current item not yet made

vars == <<fetching, flagsBuf, fullBody, proxy, fileOpen, tmp, maildir, uids,
          fetched, srvFlags, nextMsg, todo, ev>>
srvVars == <<srvFlags, nextMsg, todo, ev>>
cbVars == <<fetching, flagsBuf, fullBody, proxy, fileOpen, tmp, maildir, uids, fetched>>

(* A message's UID: the model takes its sequence number. *)
UidOf(m) == m

(* Section data: the header fields or the full body of message m. *)
Data == {<<k, m>> : k \in {"hdr", "body"}, m \in Msgs}

-----------------------------------------------------------------------------
(* The parser: the callbacks each item of "* m FETCH (...)" produces.       *)

Callbacks(item, m) ==
  CASE item = "UID"   -> <<[cb |-> "uid", n |-> UidOf(m)]>>
    [] item = "FLAGS" -> [i \in DOMAIN srvFlags[m] |-> [cb |-> "flag", f |-> srvFlags[m][i]]]
    [] item = "HDR"   -> <<[cb |-> "inner"], [cb |-> "data", d |-> <<"hdr", m>>],
                          [cb |-> "end"]>>
    [] item = "BODY"  -> <<[cb |-> "empty"], [cb |-> "inner"],
                          [cb |-> "data", d |-> <<"body", m>>], [cb |-> "end"]>>

(* The server starts the next message's FETCH response in an allowed order. *)
BeginMessage ==
  /\ ev = <<>> /\ todo = <<>> /\ nextMsg \in Msgs
  /\ \E o \in ItemOrders : todo' = o
  /\ ev' = <<[cb |-> "begin", n |-> nextMsg]>>
  /\ nextMsg' = nextMsg + 1
  /\ UNCHANGED <<srvFlags>> /\ UNCHANGED cbVars

(* The lexer reaches the next item of the current message. *)
NextItem ==
  /\ ev = <<>> /\ todo # <<>>
  /\ ev' = Callbacks(Head(todo), nextMsg - 1)
  /\ todo' = Tail(todo)
  /\ UNCHANGED <<srvFlags, nextMsg>> /\ UNCHANGED cbVars

(* After the last message, the tagged OK: FETCHING gives way to FETCHED. *)
TaggedOk ==
  /\ ev = <<>> /\ todo = <<>> /\ nextMsg \notin Msgs /\ fetching
  /\ fetching' = FALSE
  /\ UNCHANGED srvVars
  /\ UNCHANGED <<flagsBuf, fullBody, proxy, fileOpen, tmp, maildir, uids, fetched>>

-----------------------------------------------------------------------------
(* The client's callbacks, one action each, taking the head of ev.         *)

Take(kind) == ev # <<>> /\ Head(ev).cb = kind /\ ev' = Tail(ev)

Untouched == UNCHANGED <<srvFlags, nextMsg, todo>>

(* Variant: flags_ not cleared at the start of a FETCH response. *)
FetchBeginKeepsFlags ==
  /\ Take("begin")
  /\ Untouched
  /\ UNCHANGED <<flagsBuf, fetching, fullBody, proxy, fileOpen, tmp, maildir, uids, fetched>>

(* imap_data_fetch_begin: flags_.clear() *)
FetchBegin ==
  /\ Take("begin")
  /\ flagsBuf' = <<>>
  /\ Untouched
  /\ UNCHANGED <<fetching, fullBody, proxy, fileOpen, tmp, maildir, uids, fetched>>

(* imap_uid: in FETCHING, uids_.push(number) *)
Uid ==
  /\ Take("uid")
  /\ uids' = IF fetching THEN uids \cup {Head(ev).n} ELSE uids
  /\ Untouched
  /\ UNCHANGED <<fetching, flagsBuf, fullBody, proxy, fileOpen, tmp, maildir, fetched>>

(* imap_flag: append the maildir letter of the flag, if it has one *)
Flag ==
  /\ Take("flag")
  /\ flagsBuf' = flagsBuf \o MaildirLetter[Head(ev).f]
  /\ Untouched
  /\ UNCHANGED <<fetching, fullBody, proxy, fileOpen, tmp, maildir, uids, fetched>>

(* imap_section_empty: the section has no specifier, it is BODY[] *)
SectionEmpty ==
  /\ Take("empty")
  /\ fullBody' = TRUE
  /\ Untouched
  /\ UNCHANGED <<fetching, flagsBuf, proxy, fileOpen, tmp, maildir, uids, fetched>>

(* Variant: the proxy redirected for every section, full_body_ ignored. *)
BodySectionInnerAnySection ==
  /\ Take("inner")
  /\ IF fetching
     THEN /\ fileOpen' = TRUE /\ tmp' = <<>> /\ proxy' = "file"
     ELSE UNCHANGED <<fileOpen, tmp, proxy>>
  /\ Untouched
  /\ UNCHANGED <<fetching, flagsBuf, fullBody, maildir, uids, fetched>>

(* imap_body_section_inner: for the full body in FETCHING, create a file *)
(* under tmp/ and point the buffer proxy at it.                          *)
BodySectionInner ==
  /\ Take("inner")
  /\ IF fetching /\ fullBody
     THEN /\ fileOpen' = TRUE /\ tmp' = <<>> /\ proxy' = "file"
     ELSE UNCHANGED <<fileOpen, tmp, proxy>>
  /\ Untouched
  /\ UNCHANGED <<fetching, flagsBuf, fullBody, maildir, uids, fetched>>

(* The lexer writes the section's literal through the buffer proxy. *)
SectionData ==
  /\ Take("data")
  /\ tmp' = IF proxy = "file" THEN Append(tmp, Head(ev).d) ELSE tmp
  /\ Untouched
  /\ UNCHANGED <<fetching, flagsBuf, fullBody, proxy, fileOpen, maildir, uids, fetched>>

(* Variant: full_body_ not cleared after the file is moved. *)
BodySectionEndKeepsFullBody ==
  /\ Take("end")
  /\ IF fetching /\ fullBody
     THEN /\ proxy' = "memory" /\ fileOpen' = FALSE
          /\ maildir' = Append(maildir,
                 [dir |-> IF flagsBuf = <<>> THEN "new" ELSE "cur",
                  flags |-> flagsBuf, content |-> tmp])
          /\ fetched' = fetched + 1
     ELSE UNCHANGED <<proxy, fileOpen, maildir, fetched>>
  /\ Untouched
  /\ UNCHANGED <<fetching, flagsBuf, tmp, uids, fullBody>>

(* imap_body_section_end: for the full body in FETCHING, point the proxy *)
(* back at buffer_, close the file and move it to new/ (no flags) or to  *)
(* cur/ with the flag letters; clear full_body_, count the message.      *)
BodySectionEnd ==
  /\ Take("end")
  /\ IF fetching /\ fullBody
     THEN /\ proxy' = "memory" /\ fileOpen' = FALSE
          /\ maildir' = Append(maildir,
                 [dir |-> IF flagsBuf = <<>> THEN "new" ELSE "cur",
                  flags |-> flagsBuf, content |-> tmp])
          /\ fullBody' = FALSE
          /\ fetched' = fetched + 1
     ELSE UNCHANGED <<proxy, fileOpen, maildir, fullBody, fetched>>
  /\ Untouched
  /\ UNCHANGED <<fetching, flagsBuf, tmp, uids>>

-----------------------------------------------------------------------------

(* The order in which the server lists a message's flags. *)
FlagOrder == <<"Answered", "Seen", "Flagged", "Draft", "Recent", "Deleted">>

Init ==
  /\ srvFlags \in [Msgs -> {SelectSeq(FlagOrder, LAMBDA f : f \in F) : F \in MsgFlags}]
  /\ fetching = TRUE /\ flagsBuf = <<>> /\ fullBody = FALSE
  /\ proxy = "memory" /\ fileOpen = FALSE /\ tmp = <<>>
  /\ maildir = <<>> /\ uids = {} /\ fetched = 0
  /\ nextMsg = 1 /\ todo = <<>> /\ ev = <<>>

Done == ~fetching /\ UNCHANGED vars

Next ==
  \/ BeginMessage \/ NextItem \/ TaggedOk
  \/ FetchBegin \/ Uid \/ Flag \/ SectionEmpty
  \/ BodySectionInner \/ SectionData \/ BodySectionEnd
  \/ Done

Spec == Init /\ [][Next]_vars /\ WF_vars(Next)


-----------------------------------------------------------------------------
(* Properties.                                                              *)

TypeOK ==
  /\ fetching \in BOOLEAN /\ fullBody \in BOOLEAN /\ fileOpen \in BOOLEAN
  /\ flagsBuf \in Seq({"R", "S", "F", "D"})
  /\ proxy \in {"memory", "file"}
  /\ tmp \in Seq(Data)
  /\ maildir \in Seq([dir : {"new", "cur"}, flags : Seq({"R", "S", "F", "D"}),
                      content : Seq(Data)])
  /\ uids \subseteq {UidOf(m) : m \in Msgs}
  /\ fetched \in Nat

(* The maildir files that hold exactly the full body of message m. *)
FilesOf(m) == {i \in DOMAIN maildir : maildir[i].content = <<<<"body", m>>>>}

(* Every file moved into the maildir holds the full body of one message  *)
(* and nothing else: the proxy is switched to the file only for BODY[],  *)
(* never for the header-fields section, and back before the next item.   *)
BodyRoundTrip ==
  \A i \in DOMAIN maildir : \E m \in Msgs : i \in FilesOf(m)

(* A message's file carries the maildir letters of exactly the flags the *)
(* server listed for it, in order, and lies in cur/ exactly when there   *)
(* are letters (spec 8.5).                                               *)
FlagsRoundTrip ==
  \A m \in Msgs : \A i \in FilesOf(m) :
     /\ maildir[i].flags = Letters(srvFlags[m])
     /\ maildir[i].dir = IF Letters(srvFlags[m]) = <<>> THEN "new" ELSE "cur"

(* When FETCH's tagged OK arrives, every message is in the maildir exactly *)
(* once, counted once, its UID recorded for STORE/EXPUNGE, and the buffer *)
(* proxy is back on the memory buffer with no temporary file open.         *)
FetchComplete ==
  ~fetching =>
     /\ \A m \in Msgs : Cardinality(FilesOf(m)) = 1
     /\ fetched = Cardinality(Msgs) /\ Len(maildir) = fetched
     /\ uids = {UidOf(m) : m \in Msgs}
     /\ proxy = "memory" /\ ~fileOpen

(* The refinement mapping to MailTransfer: the mailbox holds every       *)
(* message; the maildir counts, for each message, the files that hold any *)
(* of its data.                                                           *)
Copies(m) == Cardinality({i \in DOMAIN maildir :
                            \E k \in {"hdr", "body"} : <<k, m>> \in ToSet(maildir[i].content)})

Delivery == INSTANCE MailTransfer WITH
              Mail <- {UidOf(m) : m \in Msgs},
              server <- {UidOf(m) : m \in Msgs},
              local <- [u \in {UidOf(m) : m \in {n \in Msgs : Copies(n) > 0}} |-> Copies(u)]

=============================================================================

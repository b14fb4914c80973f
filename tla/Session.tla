------------------------------ MODULE Session ------------------------------
(***************************************************************************)
(* The IMAP download session of IMAP::Copy::Client (src/unnamed/part_000): *)
(* the state machine driven by command(), the tag registry tag_to_state_,  *)
(* the capability set, and every completion handler the single-threaded    *)
(* io_service runs: resolve/connect/handshake, reads, the greeting-wait    *)
(* timer, the 1-second fetch-stats timer, the SIGINT/SIGTERM wait and      *)
(* async_shutdown.  Each action is one handler run to completion; the      *)
(* environment is an honest IMAP server that answers the commands of the  *)
(* transport's FIFO write queue in order.                                  *)
(*                                                                         *)
(* The client's memory is one record cl; the handlers are written as       *)
(* operators from record to record, in the order the C++ statements run,   *)
(* so that command() can be the recursive dispatcher it is in the code.    *)
(***************************************************************************)
EXTENDS Naturals, Sequences, FiniteSets, Bags, SequencesExt, TLC

CONSTANTS
  UIDs,            \* UIDs of the messages the selected mailbox may hold
  Arrivals,        \* UIDs of new mail that may arrive during the session
  PreCapSets,      \* capability sets the server may announce before LOGIN
  PostCapSets,     \* capability sets the server may announce after LOGIN
  DeleteOpts,      \* values of opts_.del explored
  Statuses,        \* tagged statuses the server may answer with
  ConnResults,     \* completions of async_resolve/connect/handshake
  CloseErrors,     \* read errors once the server has closed the connection
  ShutdownResults, \* completions async_shutdown may report
  MayDrop,         \* the connection may break before LOGOUT
  MayExpunge,      \* another session may expunge messages meanwhile
  MaxRuns          \* how many times the program is run in a behaviour

ASSUME UIDs \subseteq Nat \ {0} /\ Arrivals \subseteq UIDs
ASSUME "OK" \in Statuses /\ "ok" \in ConnResults /\ MayDrop \in BOOLEAN
ASSUME MayExpunge \in BOOLEAN /\ MaxRuns \in Nat \ {0}
ASSUME \A S \in PreCapSets \cup PostCapSets : "IMAP4REV1" \in S

(* enum class State, in declaration order: state_ + 1 is integer increment *)
DISCONNECTED == 0
ESTABLISHED == 1
GOT_INITIAL_CAPABILITIES == 2
LOGGED_IN == 3
GOT_CAPABILITIES == 4
SELECTED_MAILBOX == 5
FETCHING == 6
FETCHED == 7
STORED == 8
EXPUNGED == 9
LOGGING_OUT == 10
LOGGED_OUT == 11
END == 12
States == DISCONNECTED..END

(* SSL short read and asio EOF: the read errors do_read() may swallow *)
BenignReadErrors == {"short_read", "eof"}
(* Variant: only a clean close_notify exchange counts as success. *)
BenignShutdownStrict == {"ok"}

(* SSL short read and DECRYPTION_FAILED_OR_BAD_RECORD_MAC: do_shutdown() *)
BenignShutdown == {"ok", "short_read", "bad_record_mac"}

VARIABLES
  cl,       \* the Client object and the async operations it has pending
  inbox,    \* server responses not yet read by the client, in order
  mbox,     \* UIDs present in the server's mailbox
  flags,    \* server-side flags of each message
  srvAuth,  \* the server has accepted LOGIN
  srvBye,   \* the server has answered LOGOUT and closed its side
  caps0,    \* the server's capabilities before and after LOGIN (fixed)
  mbox0,    \* the mailbox content at the start (ghost, for properties)
  flags0,   \* the server-side flags at the start (ghost, for properties)
  arrived,  \* every UID the mailbox has held (ghost, for properties)
  taken,    \* UIDs other sessions expunged (ghost, for properties)
  marked,   \* UIDs other sessions flagged \Deleted (ghost, for properties)
  maildir,  \* the maildir on disk: how many files hold each message
  runs      \* how many times the program has been started

vars == <<cl, inbox, mbox, flags, srvAuth, srvBye, caps0, mbox0, flags0,
          arrived, taken, marked, maildir, runs>>
(* Everything outside the client process's memory. *)
srvVars == <<mbox, flags, srvAuth, srvBye, caps0, mbox0, flags0,
             arrived, taken, marked, maildir, runs>>

Command == [tag : Nat, op : {"CAPABILITY", "LOGIN", "SELECT", "FETCH",
                             "UID STORE", "UID EXPUNGE", "EXPUNGE", "LOGOUT"},
            set : SUBSET UIDs]

-----------------------------------------------------------------------------
(* Helpers for the statements handlers share.                               *)

(* THROW_MSG / THROW_ERROR: the exception unwinds io_service::run(). *)
Throw(c, why) == [c EXCEPT !.fatal = why]

(* writer_.<cmd>(tag); tag_to_state_[tag] = next; do_write() *)
Send(c, op, set, next) ==
  [c EXCEPT !.tags = @ @@ (c.nextTag :> next),
            !.nextTag = @ + 1,
            !.wq = Append(@, [tag |-> c.nextTag, op |-> op, set |-> set]),
            !.sent = Append(@, op)]

(* client_->cancel() then do_shutdown(): every transport operation still *)
(* pending completes with operation_aborted; a new async_shutdown starts. *)
DoQuit(c) ==
  [c EXCEPT !.read = IF @ = "pending" THEN "aborted" ELSE @,
            !.conn = IF @ \in {"resolving", "connecting", "handshaking"}
                     THEN "aborted" ELSE @,
            !.shut = [i \in DOMAIN @ |-> "aborted"] \o <<"pending">>]

(* print_fetch_stats(); fetch_timer_.cancel(): a wait already expired and *)
(* queued cannot be cancelled and will run with success.                  *)
StopFetchTimer(c) ==
  [c EXCEPT !.fetchTimer = IF @ = "armed" THEN "aborted" ELSE @]

DoSelect(c) == Send(c, "SELECT", {}, SELECTED_MAILBOX)

(* Variant: the FETCH tag registered for FETCHING instead of FETCHED. *)
DoFetchWrongTag(c) ==
  [Send(c, "FETCH", {}, FETCHING) EXCEPT !.state = FETCHING,
                                          !.fetchTimer = "armed"]

DoFetch(c) ==
  [Send(c, "FETCH", {}, FETCHED) EXCEPT !.state = FETCHING,
                                         !.fetchTimer = "armed"]

DoLogout(c) == [Send(c, "LOGOUT", {}, LOGGED_OUT) EXCEPT !.state = LOGGING_OUT]

(* Variant: "exists_ > 1" for "exists_": one message counts as none. *)
DoFetchOrLogoutOffByOne(c) == IF c.exists > 1 THEN DoFetch(c) ELSE DoLogout(c)

DoFetchOrLogout(c) == IF c.exists # 0 THEN DoFetch(c) ELSE DoLogout(c)

(* Variant: the \Deleted flag stored on 1:* like the FETCH, not on uids_. *)
DoStoreAll(c) == Send(c, "UID STORE", UIDs, STORED)

DoStore(c) == Send(c, "UID STORE", c.uids, STORED)

DoStoreOrLogout(c) == IF c.del THEN DoStore(c) ELSE DoLogout(c)

(* Variant: the find() result compared with "==" end(). *)
HasUidplusInverted(c) == "UIDPLUS" \notin c.caps

HasUidplus(c) == "UIDPLUS" \in c.caps

DoUidOrSimpleExpunge(c) ==
  IF HasUidplus(c) THEN Send(c, "UID EXPUNGE", c.uids, EXPUNGED)
                   ELSE Send(c, "EXPUNGE", {}, EXPUNGED)

DoLogin(c) ==
  IF "LOGINDISABLED" \in c.caps
  THEN Throw(c, "logindisabled")
  ELSE Send([c EXCEPT !.caps = {}, !.exists = 0, !.uids = {}],
            "LOGIN", {}, LOGGED_IN)

RECURSIVE DispatchCommand(_), DoCapabilities(_)

(* Client::command(): the next protocol step for the state just entered. *)
DispatchCommand(c) ==
  CASE c.state = GOT_INITIAL_CAPABILITIES -> DoLogin(c)
    [] c.state = LOGGED_IN                -> DoCapabilities(c)
    [] c.state = GOT_CAPABILITIES         -> DoSelect(c)
    [] c.state = SELECTED_MAILBOX         -> DoFetchOrLogout(c)
    [] c.state = FETCHED                  -> DoStoreOrLogout(StopFetchTimer(c))
    [] c.state = STORED                   -> DoUidOrSimpleExpunge(c)
    [] c.state = EXPUNGED                 -> DoLogout(c)
    [] c.state = LOGGED_OUT               -> DoQuit(c)
    [] OTHER                              -> c

(* With capabilities already known, skip the CAPABILITY round trip. *)
DoCapabilities(c) ==
  IF c.caps # {}
  THEN DispatchCommand([c EXCEPT !.state = @ + 1])
  ELSE Send(c, "CAPABILITY", {}, c.state + 1)

(* Variant: the consumed tag is left in tag_to_state_ (erase missing). *)
TaggedStatusEndKeepsTag(c, tag, status) ==
  IF status # "OK" THEN Throw(c, "command_failed")
  ELSE IF tag \notin DOMAIN c.tags THEN Throw(c, "unknown_tag")
  ELSE DispatchCommand([c EXCEPT !.state = c.tags[tag]])

(* imap_tagged_status_end: a failed status or an unknown tag is fatal; *)
(* otherwise enter the registered state and dispatch.                  *)
TaggedStatusEnd(c, tag, status) ==
  IF status # "OK" THEN Throw(c, "command_failed")
  ELSE IF tag \notin DOMAIN c.tags THEN Throw(c, "unknown_tag")
  ELSE DispatchCommand([c EXCEPT !.state = c.tags[tag],
                                 !.tags = Restrict(@, DOMAIN @ \ {tag})])

(* Variant: the UID is recorded but the body never reaches the maildir. *)
OnFetchDropsBody(c, uid) ==
  IF c.state = FETCHING THEN [c EXCEPT !.uids = @ \cup {uid}] ELSE c

(* One FETCH response: data_fetch_begin, uid, and the BODY[] section;    *)
(* in FETCHING the UID is recorded and the body moved into the maildir.  *)
(* The order of the items inside the response is the FetchIngest module. *)
OnFetch(c, uid) ==
  IF c.state = FETCHING
  THEN [c EXCEPT !.uids = @ \cup {uid}, !.delivered = @ \cup {uid}]
  ELSE c

(* The parser callbacks one server response produces. *)
OnResponse(c, r) ==
  CASE r.kind = "okcaps" -> [c EXCEPT !.caps = r.caps]
    [] r.kind = "caps"   -> [c EXCEPT !.caps = @ \cup r.caps]
    [] r.kind = "exists" -> [c EXCEPT !.exists = r.n]
    [] r.kind = "fetch"  -> OnFetch(c, r.uid)
    [] r.kind = "tagged" -> TaggedStatusEnd(c, r.tag, r.status)


-----------------------------------------------------------------------------
(* The completion handlers the io_service runs, one action each.            *)

Alive == cl.fatal = "none"

(* do_resolve / do_connect / do_handshake callbacks: an error (or the   *)
(* operation_aborted of a quit) is thrown; the handshake's success      *)
(* enters ESTABLISHED, starts reading and arms the greeting-wait timer. *)
ConnectHandler ==
  /\ Alive
  /\ cl.conn \in {"resolving", "connecting", "handshaking", "aborted"}
  /\ \E r \in ConnResults :
       cl' = IF cl.conn = "aborted" \/ r # "ok" THEN Throw(cl, "connect_failed")
             ELSE CASE cl.conn = "resolving"  -> [cl EXCEPT !.conn = "connecting"]
                    [] cl.conn = "connecting" -> [cl EXCEPT !.conn = "handshaking"]
                    [] cl.conn = "handshaking" ->
                         [cl EXCEPT !.conn = "open", !.state = ESTABLISHED,
                                    !.read = "pending", !.loginTimer = "armed"]
  /\ UNCHANGED <<inbox, srvVars>>

(* do_read callback with data: the parser's callbacks for one response, *)
(* then another read unless the session has reached LOGGED_OUT.  The    *)
(* bodies the callbacks moved into the maildir are new files on disk.   *)
ReadData ==
  /\ Alive /\ cl.read = "pending" /\ inbox # <<>>
  /\ inbox' = Tail(inbox)
  /\ LET c == OnResponse([cl EXCEPT !.read = "none"], Head(inbox)) IN
       /\ cl' = IF c.fatal = "none" /\ c.state # LOGGED_OUT
                THEN [c EXCEPT !.read = "pending"] ELSE c
       /\ maildir' = [u \in UIDs |->
                        maildir[u] + (IF u \in c.delivered \ cl.delivered THEN 1 ELSE 0)]
  /\ UNCHANGED <<mbox, flags, srvAuth, srvBye, caps0, mbox0, flags0,
                 arrived, taken, marked, runs>>

(* The error a pending read completes with: operation_aborted after a *)
(* cancel or close, or what the TLS layer reports once the server has  *)
(* closed its side.                                                   *)
ReadErrors ==
  CASE cl.read = "aborted" -> {"aborted"}
    [] cl.read = "pending" /\ inbox = <<>> /\ srvBye -> CloseErrors
    [] OTHER -> {}

(* do_read callback with an error: swallowed only in LOGGED_OUT and only *)
(* for a short read or EOF; anything else is thrown.                     *)
ReadError ==
  /\ Alive
  /\ \E ec \in ReadErrors :
       cl' = IF cl.state = LOGGED_OUT /\ ec \in BenignReadErrors
             THEN [cl EXCEPT !.read = "none"] ELSE Throw(cl, "read_failed")
  /\ UNCHANGED <<inbox, srvVars>>

(* do_pre_login: after greeting_wait ms, go for the capabilities. *)
LoginTimerFires ==
  /\ Alive /\ cl.loginTimer = "armed"
  /\ cl' = DoCapabilities([cl EXCEPT !.loginTimer = "idle"])
  /\ UNCHANGED <<inbox, srvVars>>

(* One second passes: the armed fetch-stats wait completes and its      *)
(* handler is queued with success; cancel() can no longer revoke it.    *)
FetchTimerExpires ==
  /\ Alive /\ cl.fetchTimer = "armed"
  /\ cl' = [cl EXCEPT !.fetchTimer = "expired"]
  /\ UNCHANGED <<inbox, srvVars>>

(* resume_fetch_timer's callback: operation_aborted returns; success    *)
(* prints the statistics and re-arms the timer.                          *)
FetchTimerHandler ==
  /\ Alive /\ cl.fetchTimer \in {"expired", "aborted"}
  /\ cl' = [cl EXCEPT !.fetchTimer = IF @ = "expired" THEN "armed" ELSE "idle"]
  /\ UNCHANGED <<inbox, srvVars>>

(* Variant: the "if (signaled_)" escalation dropped. *)
SignalDeliveredNoEscalation ==
  /\ Alive /\ cl.sigWait = "waiting"
  /\ cl' = DoQuit([cl EXCEPT !.signaled = @ + 1])
  /\ UNCHANGED <<inbox, srvVars>>

(* do_signal_wait callback on SIGINT/SIGTERM: the second signal throws; *)
(* the first re-arms the wait and quits.                                 *)
SignalDelivered ==
  /\ Alive /\ cl.sigWait = "waiting"
  /\ cl' = IF cl.signaled > 0 THEN Throw(cl, "second_signal")
           ELSE DoQuit([cl EXCEPT !.signaled = 1])
  /\ UNCHANGED <<inbox, srvVars>>

(* do_signal_wait callback with operation_canceled: ignored. *)
SignalCanceled ==
  /\ Alive /\ cl.sigWait = "canceled"
  /\ cl' = [cl EXCEPT !.sigWait = "none"]
  /\ UNCHANGED <<inbox, srvVars>>

(* client_->close(); signals_.cancel() *)
Close(c) ==
  [c EXCEPT !.conn = "closed",
            !.read = IF @ = "pending" THEN "aborted" ELSE @,
            !.shut = [j \in DOMAIN @ |-> "aborted"],
            !.sigWait = IF @ = "waiting" THEN "canceled" ELSE @]

(* do_shutdown callback: success, a short read or a bad record MAC are *)
(* benign and close the connection; every other error is thrown.        *)
ShutdownHandler ==
  /\ Alive
  /\ \E i \in DOMAIN cl.shut :
       \E ec \in IF cl.shut[i] = "aborted" THEN {"aborted"} ELSE ShutdownResults :
         cl' = IF ec \in BenignShutdown
               THEN Close([cl EXCEPT !.shut = RemoveAt(@, i)])
               ELSE Throw(cl, "shutdown_failed")
  /\ UNCHANGED <<inbox, srvVars>>

-----------------------------------------------------------------------------
(* The IMAP server: it answers the oldest command of the write queue with  *)
(* its untagged data and the tagged status, in the order RFC 3501 gives.   *)

Tagged(tag, st) == [kind |-> "tagged", tag |-> tag, status |-> st]

Reply(rs) == inbox' = inbox \o rs

ServeCapability(cmd) ==
  /\ cmd.op = "CAPABILITY"
  /\ Reply(<<[kind |-> "caps", caps |-> IF srvAuth THEN caps0.post ELSE caps0.pre],
            Tagged(cmd.tag, "OK")>>)
  /\ UNCHANGED srvVars

(* The tagged OK of LOGIN may carry a [CAPABILITY ...] status code. *)
ServeLogin(cmd) ==
  /\ cmd.op = "LOGIN"
  /\ srvAuth' = TRUE
  /\ \/ Reply(<<Tagged(cmd.tag, "OK")>>)
     \/ Reply(<<[kind |-> "okcaps", caps |-> caps0.post], Tagged(cmd.tag, "OK")>>)
  /\ UNCHANGED <<mbox, flags, srvBye, caps0, mbox0, flags0, arrived, taken, marked, maildir, runs>>

ServeSelect(cmd) ==
  /\ cmd.op = "SELECT"
  /\ Reply(<<[kind |-> "exists", n |-> Cardinality(mbox)], Tagged(cmd.tag, "OK")>>)
  /\ UNCHANGED srvVars

(* FETCH 1:* answers one FETCH response per message, in UID order.  In   *)
(* an empty mailbox "*" names no message: servers answer BAD or an     *)
(* empty OK.                                                            *)
ServeFetch(cmd) ==
  /\ cmd.op = "FETCH"
  /\ LET s == SetToSortSeq(mbox, <) IN
       \/ /\ mbox # {}
          /\ Reply([i \in DOMAIN s |-> [kind |-> "fetch", uid |-> s[i]]]
                   \o <<Tagged(cmd.tag, "OK")>>)
       \/ mbox = {} /\ \E st \in {"OK", "BAD"} : Reply(<<Tagged(cmd.tag, st)>>)
  /\ UNCHANGED srvVars

(* UID STORE in Store_Mode::REPLACE: the flags become exactly \Deleted. *)
ServeStore(cmd) ==
  /\ cmd.op = "UID STORE"
  /\ flags' = [u \in UIDs |-> IF u \in cmd.set \cap mbox THEN {"Deleted"} ELSE flags[u]]
  /\ Reply(<<Tagged(cmd.tag, "OK")>>)
  /\ UNCHANGED <<mbox, srvAuth, srvBye, caps0, mbox0, flags0, arrived, taken, marked, maildir, runs>>

ServeExpunge(cmd) ==
  /\ cmd.op \in {"UID EXPUNGE", "EXPUNGE"}
  /\ mbox' = {u \in mbox : "Deleted" \notin flags[u]
                           \/ (cmd.op = "UID EXPUNGE" /\ u \notin cmd.set)}
  /\ Reply(<<Tagged(cmd.tag, "OK")>>)
  /\ UNCHANGED <<flags, srvAuth, srvBye, caps0, mbox0, flags0, arrived, taken, marked, maildir, runs>>

(* LOGOUT: the server answers and closes its side of the connection. *)
ServeLogout(cmd) ==
  /\ cmd.op = "LOGOUT"
  /\ srvBye' = TRUE
  /\ Reply(<<Tagged(cmd.tag, "OK")>>)
  /\ UNCHANGED <<mbox, flags, srvAuth, caps0, mbox0, flags0, arrived, taken, marked, maildir, runs>>

(* A command the server refuses with NO or BAD changes nothing. *)
ServeRefusal(cmd) ==
  /\ \E st \in Statuses \ {"OK"} : Reply(<<Tagged(cmd.tag, st)>>)
  /\ UNCHANGED srvVars

(* Another client delivers new mail into the mailbox, at any time before *)
(* the server has closed the session; UIDs are never reused.            *)
NewMail ==
  /\ ~srvBye
  /\ \E u \in Arrivals \ arrived :
       /\ mbox' = mbox \cup {u}
       /\ arrived' = arrived \cup {u}
  /\ UNCHANGED <<cl, inbox, flags, srvAuth, srvBye, caps0, mbox0, flags0, taken, marked, maildir, runs>>

(* The connection breaks (reset, timeout): responses not yet read may be *)
(* lost, and the server answers nothing more; the pending read fails.   *)
Drop ==
  /\ MayDrop /\ ~srvBye
  /\ srvBye' = TRUE
  /\ \E k \in 0..Len(inbox) : inbox' = SubSeq(inbox, 1, k)
  /\ UNCHANGED <<cl, mbox, flags, srvAuth, caps0, mbox0, flags0, arrived, taken, marked, maildir, runs>>

(* Another session expunges a message (its own \Deleted, or a move). *)
OtherExpunge ==
  /\ MayExpunge /\ ~srvBye
  /\ \E u \in mbox : mbox' = mbox \ {u} /\ taken' = taken \cup {u}
  /\ UNCHANGED <<cl, inbox, flags, srvAuth, srvBye, caps0, mbox0, flags0, arrived, marked, maildir, runs>>

(* Another session flags a message \Deleted; until someone expunges it, *)
(* that session (or its user) may still take the flag back.            *)
OtherFlagDeleted ==
  /\ MayExpunge /\ ~srvBye
  /\ \E u \in mbox :
       /\ "Deleted" \notin flags[u]
       /\ flags' = [flags EXCEPT ![u] = @ \cup {"Deleted"}]
       /\ marked' = marked \cup {u}
  /\ UNCHANGED <<cl, inbox, mbox, srvAuth, srvBye, caps0, mbox0, flags0, arrived, taken, maildir, runs>>

Serve ==
  /\ Alive /\ cl.wq # <<>> /\ ~srvBye
  /\ cl' = [cl EXCEPT !.wq = Tail(@)]
  /\ LET cmd == Head(cl.wq) IN
       \/ ServeCapability(cmd) \/ ServeLogin(cmd) \/ ServeSelect(cmd)
       \/ ServeFetch(cmd) \/ ServeStore(cmd) \/ ServeExpunge(cmd)
       \/ ServeLogout(cmd) \/ ServeRefusal(cmd)

-----------------------------------------------------------------------------

(* Client::Client: buffer proxy on memory, signal wait armed, resolving. *)
InitClient(d) ==
  [state |-> DISCONNECTED, tags |-> [t \in {} |-> DISCONNECTED], nextTag |-> 1,
   caps |-> {}, exists |-> 0, uids |-> {}, delivered |-> {}, del |-> d,
   signaled |-> 0, fatal |-> "none", wq |-> <<>>, sent |-> <<>>,
   read |-> "none", conn |-> "resolving", loginTimer |-> "idle",
   fetchTimer |-> "idle", sigWait |-> "waiting", shut |-> <<>>]

(* The server greets with "* OK [CAPABILITY ...]" or with a plain         *)
(* "* OK", which makes no callback that changes the client.               *)
Init ==
  /\ \E d \in DeleteOpts : cl = InitClient(d)
  /\ \E pre \in PreCapSets, post \in PostCapSets : caps0 = [pre |-> pre, post |-> post]
  /\ mbox \in SUBSET (UIDs \ Arrivals)
  /\ mbox0 = mbox /\ arrived = mbox /\ taken = {} /\ marked = {}
  /\ flags \in [UIDs -> {{}, {"Seen"}}]
  /\ flags0 = flags
  /\ inbox \in {<<>>, <<[kind |-> "okcaps", caps |-> caps0.pre]>>}
  /\ srvAuth = FALSE
  /\ srvBye = FALSE
  /\ maildir = [u \in UIDs |-> 0] /\ runs = 1

(* No handler is pending: io_service::run() returns and the program ends. *)
Drained ==
  /\ cl.read = "none" /\ cl.loginTimer = "idle" /\ cl.fetchTimer = "idle"
  /\ cl.sigWait = "none" /\ cl.shut = <<>>
  /\ cl.conn \in {"open", "closed"}

(* The program has ended: by an exception or by running out of work. *)
Terminating == (~Alive \/ Drained) /\ UNCHANGED vars

(* The program is started again (by hand or from cron) after the last    *)
(* run ended, with the same options: a new process whose only memory of  *)
(* earlier runs is what they left in the maildir and on the server.      *)
Restart ==
  /\ runs < MaxRuns /\ (~Alive \/ Drained)
  /\ runs' = runs + 1
  /\ cl' = InitClient(cl.del)
  /\ inbox' \in {<<>>, <<[kind |-> "okcaps", caps |-> caps0.pre]>>}
  /\ srvAuth' = FALSE /\ srvBye' = FALSE
  /\ mbox0' = mbox /\ flags0' = flags
  /\ UNCHANGED <<mbox, flags, caps0, arrived, taken, marked, maildir>>

Next ==
  \/ ConnectHandler \/ ReadData \/ ReadError
  \/ LoginTimerFires \/ FetchTimerExpires \/ FetchTimerHandler
  \/ SignalDelivered \/ SignalCanceled \/ ShutdownHandler
  \/ Serve \/ NewMail \/ Drop \/ OtherExpunge \/ OtherFlagDeleted
  \/ Restart
  \/ Terminating

(* The io_service runs every ready handler, time passes, and the server  *)
(* answers; the user's signals are not assumed to come.                  *)
Fairness ==
  /\ WF_vars(ConnectHandler) /\ WF_vars(ReadData) /\ WF_vars(ReadError)
  /\ WF_vars(LoginTimerFires) /\ WF_vars(FetchTimerExpires)
  /\ WF_vars(FetchTimerHandler) /\ WF_vars(SignalCanceled)
  /\ WF_vars(ShutdownHandler) /\ WF_vars(Serve)

Spec == Init /\ [][Next]_vars /\ Fairness

-----------------------------------------------------------------------------
(* Properties.                                                              *)

TypeOK ==
  /\ cl.state \in States
  /\ cl.signaled \in 0..1
  /\ cl.tags \in [DOMAIN cl.tags -> States] /\ DOMAIN cl.tags \subseteq Nat
  /\ cl.caps \subseteq UNION (PreCapSets \cup PostCapSets)
  /\ cl.uids \subseteq UIDs /\ cl.delivered \subseteq UIDs
  /\ cl.wq \in Seq(Command)
  /\ cl.read \in {"none", "pending", "aborted"}
  /\ cl.fetchTimer \in {"idle", "armed", "expired", "aborted"}
  /\ cl.sigWait \in {"waiting", "canceled", "none"}
  /\ cl.shut \in Seq({"pending", "aborted"})
  /\ mbox \subseteq arrived /\ taken \subseteq arrived \ mbox /\ marked \subseteq arrived
  /\ flags \in [UIDs -> SUBSET {"Seen", "Deleted"}]
  /\ runs \in 1..MaxRuns /\ maildir \in [UIDs -> 0..MaxRuns]

(* Tags of commands written but whose tagged status has not been read. *)
Outstanding ==
  {cmd.tag : cmd \in ToSet(cl.wq)}
    \cup {r.tag : r \in {x \in ToSet(inbox) : x.kind = "tagged"}}

(* tag_to_state_ holds exactly the tags of the commands still awaiting    *)
(* their tagged status, and there is never more than one: the greeting   *)
(* timer, the capability short-cut and the tagged-status dispatch never  *)
(* put a second command on the wire or leave a consumed tag behind.      *)
RegistryTracksOutstanding ==
  Alive => /\ DOMAIN cl.tags = Outstanding
           /\ Cardinality(DOMAIN cl.tags) <= 1

(* A message leaves the server, or is flagged \Deleted there, only after *)
(* its body has been moved into the maildir (do_store / do_expunge act   *)
(* on uids_, which imap_uid fills while the bodies are written), also    *)
(* when a run stopped between STORE and EXPUNGE and the next one goes on. *)
NoLossOnDelete ==
  \A u \in arrived \ (taken \cup marked) :
    ("Deleted" \in flags[u] \/ u \notin mbox) => maildir[u] > 0

(* A session that shuts down without having been interrupted has moved   *)
(* every message of the initial mailbox into the maildir, and has        *)
(* removed from the server exactly the delivered ones when opts_.del     *)
(* asks for it: mail that arrived after the FETCH stays on the server.   *)
CompleteDownload ==
  (cl.conn = "closed" /\ cl.signaled = 0 /\ Alive) =>
     /\ mbox0 \subseteq cl.delivered /\ cl.delivered \subseteq arrived
     /\ mbox = IF cl.del THEN arrived \ cl.delivered ELSE arrived

(* The refinement mapping to MailTransfer: the mailbox keeps the messages *)
(* present and not flagged \Deleted; the maildir holds the messages that *)
(* have a file in it, however many (SavedOnce is about the count).        *)
Kept == {u \in mbox : "Deleted" \notin flags[u]}

Saved == {u \in UIDs : maildir[u] > 0}

Transfer == INSTANCE MailTransfer WITH
              Mail <- UIDs, server <- Kept, local <- SetToBag(Saved)

(* The session implements MailTransfer: every step either leaves the     *)
(* mailbox and maildir alone, lets mail arrive, copies a message that is *)
(* on the server, or takes off the server (STORE \Deleted, EXPUNGE) only  *)
(* messages already in the maildir, while new mail keeps arriving.       *)
TransfersMail == Transfer!Spec

NoSpuriousFailure ==
  (cl.signaled = 0 /\ ~Alive) => cl.fatal = "logindisabled"

(* A message another session flagged \Deleted is removed by this        *)
(* session only if it was downloaded first, whenever the server offers  *)
(* UIDPLUS: do_uid_or_simple_expunge then expunges just uids_, instead  *)
(* of every \Deleted message in the mailbox (spec: Store/expunge).      *)
ExpungeSparesOthers ==
  "UIDPLUS" \in caps0.post =>
    \A u \in marked \ taken : u \in mbox \/ maildir[u] > 0

(* Against an honest server, every session ends: shut down, or stopped  *)
(* by an exception (a refused LOGIN, LOGINDISABLED, a signal).          *)
SessionTerminates == <>(cl.conn = "closed" \/ ~Alive)

(* The program exits: once the session is over, no handler is left on  *)
(* the io_service (io_service::run() returns).                          *)
ProgramExits == <>(~Alive \/ Drained)

(* The first SIGINT/SIGTERM quits gracefully (spec 4.6): the session     *)
(* does not end in an exception unless a second signal demands it.       *)
FirstSignalIsGraceful ==
  (cl.signaled = 1) => cl.fatal \in {"none", "second_signal"}

(* Spec 4.3: deleting stores "+FLAGS.SILENT (\Deleted)", so a message   *)
(* still on the server keeps the flags it had (\Seen among them).       *)
StoreKeepsFlags ==
  \A u \in mbox : flags0[u] \subseteq flags[u]

=============================================================================

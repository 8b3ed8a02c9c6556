------------------------------ MODULE SmtpRelay ------------------------------
(***************************************************************************)
(* smtp_client_session (async_smtp_scanner.cpp) with the dialogue of       *)
(* smtp_client_protocol_class (smtp_protocol_class.hpp): one mail is given *)
(* to the next SMTP server, which is external and keeps to its protocol.   *)
(*                                                                         *)
(* The server's replies are sequences of tokens, of which a read returns   *)
(* as many as TCP happens to deliver; the client judges each read alone    *)
(* and keeps nothing of it.  A write may take only a part of a command,    *)
(* and the client does not look at how much was taken.                     *)
(***************************************************************************)
EXTENDS AsyncTcpClient, Integers, Sequences, FiniteSets, SequencesExt

CONSTANTS ASYNC_CLIENT_DEFAULT_TIMEOUT_SEC,
          MaxRecipients       \* bound: recipients of the mail

(* 60 seconds, where m_timeouts is 80 unless it is configured otherwise:   *)
(* either may be the longer one.                                           *)
ASSUME DefaultTimeoutAssumption ==
  /\ ASYNC_CLIENT_DEFAULT_TIMEOUT_SEC \in Nat
  /\ ASYNC_CLIENT_DEFAULT_TIMEOUT_SEC < MaxElapsed
ASSUME MaxRecipientsAssumption == MaxRecipients \in Nat

VARIABLES
  tcp,                 \* the async_tcp_client part
  n_send_setp,
  n_session_status,
  rcpt_to,             \* number of recipients in smtp_info
  data_buffer,         \* what the last read returned
  pstr,                \* what async_send_data is writing
  inbox,               \* what has arrived at the server
  server,              \* the command the server expects next
  replies,             \* tokens on their way to the client
  smooth               \* nothing was refused, cut, lost or late so far

vars == <<tcp, n_send_setp, n_session_status, rcpt_to, data_buffer, pstr, inbox,
          server, replies, smooth>>

clientVars == <<n_send_setp, n_session_status, rcpt_to, pstr>>
serverVars == <<inbox, server, replies>>

(* The session is constructed and async_connect_server called.             *)
Init == /\ tcp = StartConnect(NewClient)
        /\ n_send_setp = "EHLO"
        /\ n_session_status = "NORMAL"
        /\ rcpt_to \in 0 .. MaxRecipients
        /\ data_buffer = <<>>
        /\ pstr = "none"
        /\ inbox = <<>>
        /\ server = "greeting"
        /\ replies = <<>>
        /\ smooth = TRUE

----------------------------------------------------------------------------
(* The dialogue: what each step waits for, sends and goes on to. *)

Steps == {"EHLO", "MAILFROM", "RCPTTO", "DATA", "DATAEND", "WAIT_DATA_END",
          "WAIT_QUIT", "QUIT"}
Commands == {"ehlo", "mail", "rcpt", "data", "text", "quit"}

(* Mutant: the text is sent whatever the server says to DATA. *)
ExpectedUnlessData(status) ==
  status = [EHLO |-> "220", MAILFROM |-> "250", RCPTTO |-> "250", DATA |-> "250",
            DATAEND |-> status, WAIT_DATA_END |-> "250", WAIT_QUIT |-> "221",
            QUIT |-> "none"][n_send_setp]

(* is_can_start_ehlo, is_can_start_mail_from, ... is_can_quit. *)
Expected(status) ==
  status = [EHLO |-> "220", MAILFROM |-> "250", RCPTTO |-> "250", DATA |-> "250",
            DATAEND |-> "354", WAIT_DATA_END |-> "250", WAIT_QUIT |-> "221",
            QUIT |-> "none"][n_send_setp]

(* send_cmd_ehlo, send_cmd_mail_from, ... send_cmd_quit. *)
NextCommand ==
  [EHLO |-> "ehlo", MAILFROM |-> "mail", RCPTTO |-> "rcpt", DATA |-> "data",
   DATAEND |-> "text", WAIT_DATA_END |-> "quit"][n_send_setp]

(* Mutant: the reply to the text is not waited for. *)
NextStepSkipsReply ==
  [EHLO |-> "MAILFROM", MAILFROM |-> "RCPTTO", RCPTTO |-> "DATA",
   DATA |-> "DATAEND", DATAEND |-> "WAIT_QUIT", WAIT_DATA_END |-> "WAIT_QUIT",
   WAIT_QUIT |-> "QUIT"][n_send_setp]

NextStep ==
  [EHLO |-> "MAILFROM", MAILFROM |-> "RCPTTO", RCPTTO |-> "DATA",
   DATA |-> "DATAEND", DATAEND |-> "WAIT_DATA_END", WAIT_DATA_END |-> "WAIT_QUIT",
   WAIT_QUIT |-> "QUIT"][n_send_setp]

Space == " "
Dash == "-"
NewLine == "\n"

(* Mutant: a reply of several lines is never complete. *)
IsCommandLineSingle(chunk) ==
  /\ IsSuffix(<<NewLine>>, chunk)
  /\ ~IsPrefix(<<"250", Dash>>, chunk)
  /\ Contains(chunk, Space)

(* is_command_line. *)
IsCommandLine(chunk) ==
  /\ IsSuffix(<<NewLine>>, chunk)
  /\ IF IsPrefix(<<"250", Dash>>, chunk)
     THEN \E i \in 1 .. Len(chunk) - 1 : SubSeq(chunk, i, i + 1) = <<"250", Space>>
     ELSE Contains(chunk, Space)

(* to_long64 of the word before the first space: the digits at the very    *)
(* start of the chunk.  What starts otherwise counts as 0.                 *)
StatusCode(chunk) == Head(chunk)

----------------------------------------------------------------------------
(* The handlers. *)

Continue(t) == tcp' = t

(* The handlers that leave the dialogue alone. *)
HandleConnect ==
  LET t == [tcp EXCEPT !.conn = "none"]
  IN /\ \/ tcp.conn = "error" /\ Continue(Close(t)) /\ smooth' = FALSE
        \/ tcp.conn = "ok" /\ Continue(AsyncRecv(IoTimerCallAt(Connected(t))))
                           /\ UNCHANGED smooth
     /\ UNCHANGED <<clientVars, serverVars, data_buffer>>

OpenSocket ==
  /\ tcp.conn = "starting"
  /\ \E opened \in BOOLEAN : tcp' = AsyncConnect(tcp, opened)
  /\ UNCHANGED <<clientVars, serverVars, data_buffer, smooth>>

ReadDone == [tcp EXCEPT !.rd = "none", !.elapsed = 0]
HasRead == tcp.rd = "ok" /\ data_buffer' = <<>> /\ UNCHANGED <<serverVars, smooth>>

(* handle_tcp_read without data. *)
ReadFails == /\ tcp.rd = "error"
             /\ Continue(Close(ReadDone))
             /\ UNCHANGED <<clientVars, serverVars, data_buffer, smooth>>

(* handle_protocol_read: not a command line, read on. *)
ReadsOn == /\ HasRead
           /\ ~IsCommandLine(data_buffer)
           /\ Continue(AsyncRecv(ReadDone))
           /\ UNCHANGED clientVars

(* from_revc_get_next_data returns nothing: an unexpected status, ... *)
Refused == /\ HasRead
           /\ IsCommandLine(data_buffer)
           /\ ~Expected(StatusCode(data_buffer))
           /\ n_session_status' = "ERROR"
           /\ Continue(Close(ReadDone))
           /\ UNCHANGED <<n_send_setp, rcpt_to, pstr>>

Accepted(step) == /\ HasRead
                  /\ IsCommandLine(data_buffer)
                  /\ Expected(StatusCode(data_buffer))
                  /\ n_send_setp = step
                  /\ n_send_setp' = NextStep

(* ... a mail without recipients, ... *)
NoRecipient == /\ Accepted("RCPTTO")
               /\ rcpt_to = 0
               /\ n_session_status' = "ERROR"
               /\ Continue(Close(ReadDone))
               /\ UNCHANGED <<rcpt_to, pstr>>

(* ... or the end. *)
Quits == /\ Accepted("WAIT_QUIT")
         /\ Continue(Close(ReadDone))
         /\ UNCHANGED <<n_session_status, rcpt_to, pstr>>

(* Mutant: a read is started beside the write. *)
SendsAndReads == \E step \in Steps \ {"WAIT_QUIT"} :
                   /\ Accepted(step)
                   /\ step = "RCPTTO" => rcpt_to > 0
                   /\ pstr' = NextCommand
                   /\ Continue(AsyncRecv(AsyncSend(ReadDone)))
                   /\ UNCHANGED <<n_session_status, rcpt_to>>

(* Mutant: the recipient is taken off the list, whether or not there is    *)
(* one.                                                                    *)
SendsNextPops == \E step \in Steps \ {"WAIT_QUIT"} :
                   /\ Accepted(step)
                   /\ rcpt_to' = IF step = "RCPTTO" THEN rcpt_to - 1 ELSE rcpt_to
                   /\ pstr' = NextCommand
                   /\ Continue(AsyncSend(ReadDone))
                   /\ UNCHANGED n_session_status

SendsNext == \E step \in Steps \ {"WAIT_QUIT"} :
               /\ Accepted(step)
               /\ step = "RCPTTO" => rcpt_to > 0
               /\ pstr' = NextCommand
               /\ Continue(AsyncSend(ReadDone))
               /\ UNCHANGED <<n_session_status, rcpt_to>>

HandleRead == ReadFails \/ ReadsOn \/ Refused \/ NoRecipient \/ Quits \/ SendsNext

(* handle_tcp_write; handle_protocol_write starts to read the reply. *)
HandleWrite ==
  LET t == [tcp EXCEPT !.wr = "none", !.elapsed = 0]
  IN /\ \/ tcp.wr = "error" /\ Continue(Close(t))
        \/ tcp.wr = "ok" /\ Continue(AsyncRecv(t))
     /\ UNCHANGED <<clientVars, serverVars, data_buffer, smooth>>

(* Mutant: the timer's handler does not arm the timer again. *)
HandleIoTimerOnce ==
  LET t == [tcp EXCEPT !.io_timer = "off"]
  IN /\ tcp.io_timer = "fired"
     /\ Continue(IF t.elapsed > ASYNC_CLIENT_DEFAULT_TIMEOUT_SEC THEN Close(t) ELSE t)
     /\ UNCHANGED <<clientVars, serverVars, data_buffer, smooth>>

(* handle_io_timer with the inherited handle_protocol_timer, which waits   *)
(* for the default time and not for conf_smtp_client_timeout.              *)
HandleIoTimer ==
  LET t == [tcp EXCEPT !.io_timer = "off"]
  IN /\ tcp.io_timer = "fired"
     /\ Continue(IF IsClosed(t) THEN t
                 ELSE IF t.elapsed > ASYNC_CLIENT_DEFAULT_TIMEOUT_SEC THEN Close(t)
                 ELSE IoTimerCallAt(t))
     /\ UNCHANGED <<clientVars, serverVars, data_buffer, smooth>>

HandleConnectTimer ==
  LET t == [tcp EXCEPT !.connect_timer = "off"]
  IN /\ tcp.connect_timer = "fired"
     /\ Continue(IF t.is_open THEN t ELSE Close(t))
     /\ UNCHANGED <<clientVars, serverVars, data_buffer, smooth>>

Handler == \/ OpenSocket \/ HandleConnect \/ HandleRead \/ HandleWrite
           \/ HandleIoTimer \/ HandleConnectTimer

----------------------------------------------------------------------------
(* The next SMTP server: external. *)

Line(code) == <<code, Space, "t", NewLine>>
Lines(code) == <<code, Dash, "t", Space, "t", NewLine>> \o Line(code)

Positive == [greeting |-> "220", ehlo |-> "250", mail |-> "250", rcpt |-> "250",
             data |-> "354", text |-> "250", quit |-> "221"]
Follows == [greeting |-> "ehlo", ehlo |-> "mail", mail |-> "rcpt", rcpt |-> "data",
            data |-> "text", text |-> "quit", quit |-> "bye"]

(* A greeting and the reply to EHLO may have several lines. *)
Accept(what) == /\ server = what
                /\ server' = Follows[what]
                /\ \/ replies' = replies \o Line(Positive[what])
                   \/ /\ what \in {"greeting", "ehlo"}
                      /\ replies' = replies \o Lines(Positive[what])
                /\ UNCHANGED smooth

(* A refused text ends the server's transaction; while it reads a text a   *)
(* command is a part of the text.                                          *)
Refuse(what) == /\ server = "text" => what = "text"
                /\ server' = CASE what = "greeting" -> "refused"
                               [] server = "text"   -> "mail"
                               [] OTHER             -> server
                /\ replies' = replies \o Line("550")
                /\ smooth' = FALSE

ServerGreets == /\ tcp.is_open /\ tcp.conn \in {"ok", "none"}
                /\ server = "greeting"
                /\ Accept("greeting") \/ Refuse("greeting")
                /\ UNCHANGED <<tcp, clientVars, data_buffer, inbox>>

ServerAnswers == /\ inbox # <<>>
                 /\ Head(inbox) \in Commands
                 /\ inbox' = Tail(inbox)
                 /\ Accept(Head(inbox)) \/ Refuse(Head(inbox))
                 /\ UNCHANGED <<tcp, clientVars, data_buffer>>

----------------------------------------------------------------------------
(* The network and the clock. *)

ConnectionAnswers == /\ tcp.conn = "pending"
                     /\ \E r \in {"ok", "error"} : tcp' = ConnectCompletes(tcp, r)
                     /\ UNCHANGED <<clientVars, serverVars, data_buffer, smooth>>

(* A read returns the first n tokens in flight. *)
ReadReturns == \E n \in 1 .. Len(replies) :
                 /\ tcp.rd = "pending"
                 /\ tcp' = ReadCompletes(tcp, "ok")
                 /\ data_buffer' = SubSeq(replies, 1, n)
                 /\ replies' = SubSeq(replies, n + 1, Len(replies))
                 /\ smooth' = (smooth /\ n = Len(replies))
                 /\ UNCHANGED <<clientVars, inbox, server>>

(* The server ends the connection, or it breaks. *)
ReadBreaks == /\ tcp.rd = "pending"
              /\ tcp' = ReadCompletes(tcp, "error")
              /\ smooth' = FALSE
              /\ UNCHANGED <<clientVars, serverVars, data_buffer>>

(* A write takes the whole string, a part of it or nothing. *)
WriteTakes == \E taken \in {pstr, "part"} :
                /\ tcp.wr = "pending"
                /\ tcp' = WriteCompletes(tcp, "ok")
                /\ inbox' = Append(inbox, taken)
                /\ smooth' = (smooth /\ taken = pstr)
                /\ UNCHANGED <<clientVars, data_buffer, server, replies>>
WriteBreaks == /\ tcp.wr = "pending"
               /\ tcp' = WriteCompletes(tcp, "error")
               /\ smooth' = FALSE
               /\ UNCHANGED <<clientVars, serverVars, data_buffer>>

IoTimerExpires == /\ tcp.io_timer = "armed"
                  /\ tcp' = [tcp EXCEPT !.io_timer = "fired"]
                  /\ UNCHANGED <<clientVars, serverVars, data_buffer, smooth>>
ConnectTimerExpires == /\ ConnectTimerDue(tcp)
                       /\ tcp' = [tcp EXCEPT !.connect_timer = "fired"]
                       /\ UNCHANGED <<clientVars, serverVars, data_buffer, smooth>>

(* Time that passes while somebody still has something to do makes him     *)
(* late; while the client reads and nobody owes it anything it does not.   *)
NobodyOwes == tcp.rd = "pending" /\ server # "greeting" /\ inbox = <<>> /\ replies = <<>>
SecondPasses == /\ CanTick(tcp)
                /\ tcp' = Tick(tcp)
                /\ smooth' = (smooth /\ NobodyOwes)
                /\ UNCHANGED <<clientVars, serverVars, data_buffer>>

Network == ConnectionAnswers \/ ReadReturns \/ ReadBreaks \/ WriteTakes \/ WriteBreaks
Clock == IoTimerExpires \/ ConnectTimerExpires \/ SecondPasses

Next == Handler \/ ServerGreets \/ ServerAnswers \/ Network \/ Clock

----------------------------------------------------------------------------
(* Fairness: queued handlers run, timers expire, time passes, and the      *)
(* operating system ends a connection attempt.  Nothing is assumed of the  *)
(* server.                                                                 *)
Fairness == /\ WF_vars(OpenSocket)
            /\ WF_vars(HandleConnect)
            /\ WF_vars(HandleRead)
            /\ WF_vars(HandleWrite)
            /\ WF_vars(HandleIoTimer)
            /\ WF_vars(HandleConnectTimer)
            /\ WF_vars(ConnectionAnswers)
            /\ WF_vars(IoTimerExpires)
            /\ WF_vars(ConnectTimerExpires)
            /\ WF_vars(SecondPasses)

Spec == Init /\ [][Next]_vars /\ Fairness

----------------------------------------------------------------------------

Tokens == {"220", "250", "354", "221", "550", Space, Dash, "t", NewLine}

TypeOK == /\ tcp \in AsyncTcpClients
          /\ n_send_setp \in Steps
          /\ n_session_status \in {"NORMAL", "ERROR"}
          /\ rcpt_to \in 0 .. MaxRecipients
          /\ data_buffer \in Seq(Tokens)
          /\ replies \in Seq(Tokens)
          /\ pstr \in Commands \cup {"none"}
          /\ inbox \in Seq(Commands \cup {"part"})
          /\ server \in DOMAIN Follows \cup {"bye", "refused"}
          /\ smooth \in BOOLEAN

(* A session has one handler to come until it is closed and never two,     *)
(* however its server's replies are cut and whichever timer runs.          *)
OneContinuation == /\ Cardinality(Continuations(tcp)) <= 1
                   /\ ~IsClosed(tcp) => Continuations(tcp) # {}

(* The text of the mail reaches the server only while the server reads a   *)
(* text: no line of a mail is ever taken for a command, though a cut       *)
(* greeting can put the client one reply ahead of its server.              *)
TextReadAsText ==
  (tcp.wr = "pending" /\ pstr = "text") \/ "text" \in ToSet(inbox)
    => server = "text"

(* The client's view agrees with the server's: it says QUIT only when the  *)
(* server has taken the mail.                                              *)
QuitOnlyWhenTaken ==
  n_send_setp \in {"WAIT_QUIT", "QUIT"} => server \in {"quit", "bye"}

(* A mail with a recipient gets through a server that accepts it, provided *)
(* replies and commands arrive whole and in time: the dialogue leaves out  *)
(* no command, waits for no reply that is not sent and knows replies of    *)
(* several lines.                                                          *)
SmoothDelivered ==
  IsClosed(tcp) /\ smooth /\ rcpt_to > 0 => n_send_setp = "QUIT" /\ server = "bye"

(* Every relay ends, closed and with nothing outstanding, wherever the     *)
(* server stops: it may stall at any point but connecting, which the       *)
(* operating system ends.                                                  *)
RelayEnds == <>[](IsClosed(tcp) /\ Idle(tcp))
=============================================================================

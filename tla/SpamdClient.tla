---------------------------- MODULE SpamdClient ----------------------------
(***************************************************************************)
(* async_spamd_client (async_smtp_scanner.cpp): one client per received    *)
(* mail.  It polls proc_limit for a slot, sends the mail to spamd, relays  *)
(* what spamd returns to the next SMTP server and closes, giving the slot  *)
(* back.  A handler runs whole under m_io_mutex, so it is one action; the  *)
(* wait timer's handler stops once, between arming the connect timer and   *)
(* opening the socket.                                                     *)
(***************************************************************************)
EXTENDS AsyncTcpClient, FiniteSets, Sequences

CONSTANTS
  Clients,                 \* the mails received, each with its client
  Oversize,                \* those of at least conf_spamd_max_scanner_bytes
  conf_spamd_max_session,
  MaxReports               \* bound: chunks counted of one reply of spamd

ASSUME ClientsAssumption == IsFiniteSet(Clients) /\ Oversize \subseteq Clients
ASSUME MaxSessionAssumption == conf_spamd_max_session \in Nat
ASSUME MaxReportsAssumption == MaxReports \in Nat

VARIABLES
  created,               \* the clients constructed so far
  tcp,                   \* the async_tcp_client part of each
  m_wait_status,
  spamd_wait_timer,
  m_pystr_report_data,   \* chunks of an incomplete reply kept so far
  relayed,               \* bodies given to send_data_to_next_smtp_server
  m_proc_num             \* conf_spamd_limit

vars == <<created, tcp, m_wait_status, spamd_wait_timer, m_pystr_report_data,
          relayed, m_proc_num>>

Init == /\ created = {}
        /\ tcp = [c \in Clients |-> NewClient]
        /\ m_wait_status = [c \in Clients |-> "WAIT_SEND"]
        /\ spamd_wait_timer = [c \in Clients |-> "off"]
        /\ m_pystr_report_data = [c \in Clients |-> 0]
        /\ relayed = [c \in Clients |-> <<>>]
        /\ m_proc_num = 0

----------------------------------------------------------------------------

(* send_data_to_next_smtp_server: a smtp_client_session of its own takes   *)
(* the body.                                                               *)
Relay(c, body) == relayed' = [relayed EXCEPT ![c] = Append(@, body)]

(* Mutant: one connection too many is admitted. *)
IsNeedWaitOffByOne == m_proc_num > conf_spamd_max_session

(* proc_limit::is_need_wait, whose mutex makes the test and the INC one    *)
(* step.                                                                   *)
IsNeedWait == m_proc_num >= conf_spamd_max_session

(* Mutant: an oversize mail is relayed and scanned as well. *)
AutoSmartSendNoReturn(c) ==
  /\ IF c \in Oversize THEN Relay(c, "raw") ELSE UNCHANGED relayed
  /\ ~IsNeedWait
  /\ m_proc_num' = m_proc_num + 1
  /\ m_wait_status' = [m_wait_status EXCEPT ![c] = "ALLOW_SEND"]
  /\ tcp' = [tcp EXCEPT ![c] = StartConnect(@)]
  /\ spamd_wait_timer' = [spamd_wait_timer EXCEPT ![c] = "off"]

(* auto_smart_send.  The branch that returns ASYNC_WAIT_TIMEOUT is dead:   *)
(* is_wait_send returns before its test.                                   *)
AutoSmartSend(c) ==
  \/ /\ c \in Oversize
     /\ Relay(c, "raw")
     /\ spamd_wait_timer' = [spamd_wait_timer EXCEPT ![c] = "off"]
     /\ UNCHANGED <<tcp, m_wait_status, m_proc_num>>
  \/ /\ c \notin Oversize
     /\ IsNeedWait
     /\ spamd_wait_timer' = [spamd_wait_timer EXCEPT ![c] = "armed"]
     /\ UNCHANGED <<tcp, m_wait_status, relayed, m_proc_num>>
  \/ /\ c \notin Oversize
     /\ ~IsNeedWait
     /\ m_proc_num' = m_proc_num + 1
     /\ m_wait_status' = [m_wait_status EXCEPT ![c] = "ALLOW_SEND"]
     /\ tcp' = [tcp EXCEPT ![c] = StartConnect(@)]
     /\ spamd_wait_timer' = [spamd_wait_timer EXCEPT ![c] = "off"]
     /\ UNCHANGED relayed

(* The session constructs the client and calls auto_smart_send. *)
Create(c) == /\ c \notin created
             /\ created' = created \cup {c}
             /\ AutoSmartSend(c)
             /\ UNCHANGED m_pystr_report_data

(* The wait timer's handler: the next poll. *)
Poll(c) == /\ spamd_wait_timer[c] = "fired"
           /\ AutoSmartSend(c)
           /\ UNCHANGED <<created, m_pystr_report_data>>

(* The second half of async_start_connect. *)
OpenSocket(c) ==
  /\ tcp[c].conn = "starting"
  /\ \E opened \in BOOLEAN : tcp' = [tcp EXCEPT ![c] = AsyncConnect(@, opened)]
  /\ UNCHANGED <<created, m_wait_status, spamd_wait_timer, m_pystr_report_data,
                 relayed, m_proc_num>>

----------------------------------------------------------------------------

(* Mutant: the slot is not given back. *)
CloseWithoutDEC(c, t) ==
  /\ tcp' = [tcp EXCEPT ![c] = Close(t)]
  /\ UNCHANGED <<m_proc_num, spamd_wait_timer>>

(* Mutant: the slot is given back whether or not the session was closed    *)
(* before.                                                                 *)
CloseUnguarded(c, t) ==
  /\ tcp' = [tcp EXCEPT ![c] = Close(t)]
  /\ m_proc_num' = m_proc_num - 1
  /\ UNCHANGED spamd_wait_timer

(* close_tcp_session on a session that a handler has made t, with          *)
(* handle_protocol_closed.                                                 *)
CloseTcpSession(c, t) ==
  /\ tcp' = [tcp EXCEPT ![c] = Close(t)]
  /\ IF IsClosed(t) THEN UNCHANGED <<m_proc_num, spamd_wait_timer>>
     ELSE /\ m_proc_num' = m_proc_num - 1
          /\ spamd_wait_timer' = [spamd_wait_timer EXCEPT ![c] = Cancel(@)]

(* A handler that goes on with the session t instead of closing it. *)
Continue(c, t) == /\ tcp' = [tcp EXCEPT ![c] = t]
                  /\ UNCHANGED <<m_proc_num, spamd_wait_timer>>

(* Mutant: the protocol starts to read beside its write. *)
HandleConnectReadsToo(c) ==
  LET t == [tcp[c] EXCEPT !.conn = "none"]
  IN /\ \/ tcp[c].conn = "error" /\ CloseTcpSession(c, t)
        \/ /\ tcp[c].conn = "ok"
           /\ Continue(c, AsyncRecv(AsyncSend(IoTimerCallAt(Connected(t)))))
     /\ UNCHANGED <<created, m_wait_status, m_pystr_report_data, relayed>>

(* handle_tcp_once_connect; handle_protocol_connected sends the mail. *)
HandleConnect(c) ==
  LET t == [tcp[c] EXCEPT !.conn = "none"]
  IN /\ \/ tcp[c].conn = "error" /\ CloseTcpSession(c, t)
        \/ tcp[c].conn = "ok" /\ Continue(c, AsyncSend(IoTimerCallAt(Connected(t))))
     /\ UNCHANGED <<created, m_wait_status, m_pystr_report_data, relayed>>

(* handle_tcp_write; handle_protocol_write starts to read the reply. *)
HandleWrite(c) ==
  LET t == [tcp[c] EXCEPT !.wr = "none", !.elapsed = 0]
  IN /\ \/ tcp[c].wr = "error" /\ CloseTcpSession(c, t)
        \/ tcp[c].wr = "ok" /\ Continue(c, AsyncRecv(t))
     /\ UNCHANGED <<created, m_wait_status, m_pystr_report_data, relayed>>

ReadDone(c) == [tcp[c] EXCEPT !.rd = "none", !.elapsed = 0]

(* handle_tcp_read without data. *)
ReadFails(c) == /\ tcp[c].rd = "error"
                /\ CloseTcpSession(c, ReadDone(c))
                /\ UNCHANGED <<created, m_wait_status, m_pystr_report_data, relayed>>

(* A chunk is added to those kept; beyond MaxReports they are not counted. *)
OneMore(chunks) == IF chunks < MaxReports THEN chunks + 1 ELSE chunks

(* handle_protocol_read, SPAMD_DATALEN_ERROR: keep the chunk, read on,     *)
(* however often; each read starts the time anew.                          *)
ReportIncomplete(c) ==
  /\ tcp[c].rd = "ok"
  /\ m_pystr_report_data' = [m_pystr_report_data EXCEPT ![c] = OneMore(@)]
  /\ Continue(c, AsyncRecv(ReadDone(c)))
  /\ UNCHANGED <<created, m_wait_status, relayed>>

(* SPAMD_HEADER_ERROR and SPAMD_REPORT_ERROR: the mail is given up. *)
ReportBad(c) == /\ tcp[c].rd = "ok"
                /\ m_pystr_report_data' = [m_pystr_report_data EXCEPT ![c] = OneMore(@)]
                /\ CloseTcpSession(c, ReadDone(c))
                /\ UNCHANGED <<created, m_wait_status, relayed>>

(* Mutant: the session stays open for another reply. *)
ReportCompleteKeepsReading(c) ==
  /\ tcp[c].rd = "ok"
  /\ m_pystr_report_data' = [m_pystr_report_data EXCEPT ![c] = 0]
  /\ Relay(c, "scanned")
  /\ Continue(c, AsyncRecv(ReadDone(c)))
  /\ UNCHANGED <<created, m_wait_status>>

(* SPAMD_NO_ERROR: relay the scanned mail and close. *)
ReportComplete(c) ==
  /\ tcp[c].rd = "ok"
  /\ m_pystr_report_data' = [m_pystr_report_data EXCEPT ![c] = 0]
  /\ Relay(c, "scanned")
  /\ CloseTcpSession(c, ReadDone(c))
  /\ UNCHANGED <<created, m_wait_status>>

(* Mutant: the timer's handler does not arm the timer again. *)
HandleIoTimerOnce(c) ==
  LET t == [tcp[c] EXCEPT !.io_timer = "off"]
  IN /\ tcp[c].io_timer = "fired"
     /\ IF ~IsClosed(t) /\ t.elapsed > m_timeouts THEN CloseTcpSession(c, t)
                                                  ELSE Continue(c, t)
     /\ UNCHANGED <<created, m_wait_status, m_pystr_report_data, relayed>>

(* handle_io_timer with handle_protocol_timer. *)
HandleIoTimer(c) ==
  LET t == [tcp[c] EXCEPT !.io_timer = "off"]
  IN /\ tcp[c].io_timer = "fired"
     /\ IF IsClosed(t) THEN Continue(c, t)
        ELSE IF t.elapsed > m_timeouts THEN CloseTcpSession(c, t)
        ELSE Continue(c, IoTimerCallAt(t))
     /\ UNCHANGED <<created, m_wait_status, m_pystr_report_data, relayed>>

(* Mutant: an unanswered connection attempt is closed. *)
HandleConnectTimerCloses(c) ==
  LET t == [tcp[c] EXCEPT !.connect_timer = "off"]
  IN /\ tcp[c].connect_timer = "fired"
     /\ IF t.conn = "none" THEN Continue(c, t) ELSE CloseTcpSession(c, t)
     /\ UNCHANGED <<created, m_wait_status, m_pystr_report_data, relayed>>

(* handle_connect_timer: nothing is done while the socket is open, and     *)
(* async_connect has opened it.                                            *)
HandleConnectTimer(c) ==
  LET t == [tcp[c] EXCEPT !.connect_timer = "off"]
  IN /\ tcp[c].connect_timer = "fired"
     /\ IF t.is_open THEN Continue(c, t) ELSE CloseTcpSession(c, t)
     /\ UNCHANGED <<created, m_wait_status, m_pystr_report_data, relayed>>

Handler(c) == \/ Poll(c) \/ OpenSocket(c) \/ HandleConnect(c) \/ HandleWrite(c)
              \/ ReadFails(c) \/ ReportIncomplete(c) \/ ReportBad(c)
              \/ ReportComplete(c) \/ HandleIoTimer(c) \/ HandleConnectTimer(c)

----------------------------------------------------------------------------
(* The network, spamd and the clock. *)

TcpStep(c, t) == /\ tcp' = [tcp EXCEPT ![c] = t]
                 /\ UNCHANGED <<created, m_wait_status, spamd_wait_timer,
                                m_pystr_report_data, relayed, m_proc_num>>

Results == {"ok", "error"}

ConnectionAnswers(c) == /\ tcp[c].conn = "pending"
                        /\ \E r \in Results : TcpStep(c, ConnectCompletes(tcp[c], r))
PeerAnswers(c) ==
  \/ tcp[c].rd = "pending" /\ \E r \in Results : TcpStep(c, ReadCompletes(tcp[c], r))
  \/ tcp[c].wr = "pending" /\ \E r \in Results : TcpStep(c, WriteCompletes(tcp[c], r))

WaitTimerExpires(c) ==
  /\ spamd_wait_timer[c] = "armed"
  /\ spamd_wait_timer' = [spamd_wait_timer EXCEPT ![c] = "fired"]
  /\ UNCHANGED <<created, tcp, m_wait_status, m_pystr_report_data, relayed,
                 m_proc_num>>
IoTimerExpires(c) == /\ tcp[c].io_timer = "armed"
                     /\ TcpStep(c, [tcp[c] EXCEPT !.io_timer = "fired"])
ConnectTimerExpires(c) == /\ ConnectTimerDue(tcp[c])
                          /\ TcpStep(c, [tcp[c] EXCEPT !.connect_timer = "fired"])
SecondPasses(c) == /\ c \in created
                   /\ CanTick(tcp[c])
                   /\ TcpStep(c, Tick(tcp[c]))

Clock(c) == \/ WaitTimerExpires(c) \/ IoTimerExpires(c)
            \/ ConnectTimerExpires(c) \/ SecondPasses(c)

Next == \E c \in Clients :
          Create(c) \/ Handler(c) \/ ConnectionAnswers(c) \/ PeerAnswers(c) \/ Clock(c)

----------------------------------------------------------------------------
(* Fairness: every queued handler runs, since run() keeps worker threads   *)
(* on the io_service, timers expire and time passes.  Nothing is assumed   *)
(* of spamd: it need not answer.                                           *)
Fairness ==
  \A c \in Clients :
    /\ WF_vars(Poll(c))
    /\ WF_vars(OpenSocket(c))
    /\ WF_vars(HandleConnect(c))
    /\ WF_vars(HandleWrite(c))
    /\ WF_vars(ReadFails(c) \/ ReportIncomplete(c) \/ ReportBad(c) \/ ReportComplete(c))
    /\ WF_vars(HandleIoTimer(c))
    /\ WF_vars(HandleConnectTimer(c))
    /\ WF_vars(WaitTimerExpires(c))
    /\ WF_vars(IoTimerExpires(c))
    /\ WF_vars(ConnectTimerExpires(c))
    /\ WF_vars(SecondPasses(c))

SafetySpec == Init /\ [][Next]_vars
Spec == SafetySpec /\ Fairness

(* The operating system gives up a connection attempt in the end, though   *)
(* long after m_timeouts.                                                  *)
ConnectGivenUpByOS == \A c \in Clients : WF_vars(ConnectionAnswers(c))

(* A reply of spamd is finite: when reads go on returning chunks, one of   *)
(* them completes the reply.  Without this a chunk now and then, each      *)
(* starting the time anew, would keep the session and its slot for ever.   *)
ReplyEnds == \A c \in Clients : SF_vars(ReportBad(c) \/ ReportComplete(c))

LiveSpec == Spec /\ ConnectGivenUpByOS /\ ReplyEnds

----------------------------------------------------------------------------

TypeOK == /\ created \in SUBSET Clients
          /\ tcp \in [Clients -> AsyncTcpClients]
          /\ m_wait_status \in [Clients -> {"WAIT_SEND", "ALLOW_SEND", "WAIT_TIMEOUT"}]
          /\ spamd_wait_timer \in [Clients -> Timers]
          /\ m_pystr_report_data \in [Clients -> 0 .. MaxReports]
          /\ relayed \in [Clients -> Seq({"raw", "scanned"})]
          /\ m_proc_num \in Nat

Allowed(c) == m_wait_status[c] = "ALLOW_SEND"
Closed(c) == IsClosed(tcp[c])

(* The clients that is_wait_send let through and that are not closed. *)
slots == {c \in Clients : Allowed(c) /\ ~Closed(c)}

(* No slot is leaked and none is given back twice, whichever of the write, *)
(* read, connect and timer handlers closes the session, and however many   *)
(* of them still run afterwards: the counter is the number of open scans.  *)
SlotsExact == m_proc_num = Cardinality(slots)

(* "Maximum spamd parallel porc": the sockets open towards spamd never     *)
(* exceed the configured number.                                           *)
SpamdParallel ==
  Cardinality({c \in Clients : tcp[c].is_open}) <= conf_spamd_max_session

(* A started client has one handler to come and never two: it neither      *)
(* stalls with nothing that could wake it nor runs its protocol twice at   *)
(* the same time.  A waiting one is woken by its timer alone.              *)
OneContinuation ==
  \A c \in created \ Oversize :
    IF Allowed(c)
    THEN /\ Cardinality(Continuations(tcp[c])) <= 1
         /\ ~Closed(c) => Continuations(tcp[c]) # {}
         /\ spamd_wait_timer[c] = "off"
    ELSE Continuations(tcp[c]) = {} /\ spamd_wait_timer[c] # "off"

(* Close is final: a handler that was queued before the close, the connect *)
(* handler included, never brings the session back.                        *)
NoReopen == [][\A c \in Clients : Closed(c) => Closed(c)']_vars

Quiet(c) == /\ spamd_wait_timer[c] = "off"
            /\ Idle(tcp[c])

(* Every mail gets its turn and its slot is given back: each client ends   *)
(* closed (or never connected, when oversize) with nothing outstanding, so *)
(* that the last shared_ptr to it goes.  spamd may stall at any point but  *)
(* connecting, which is left to the operating system; it may not send its  *)
(* reply for ever.                                                         *)
EveryClientEnds ==
  \A c \in Clients :
    c \in created ~> Quiet(c) /\ (c \notin Oversize => Closed(c))

(* The comment "timeout check" at async_start_connect: the connect timer   *)
(* bounds how long a connection attempt may stay unanswered.               *)
ConnectTimesOut ==
  \A c \in Clients : tcp[c].conn = "pending" ~> tcp[c].conn # "pending"

(* The comment at ASYNC_WAIT_TIMEOUT, "waited too long, discard": a poll   *)
(* later than conf_spamd_timeout does not wait again.                      *)
LongWaitDiscarded ==
  [][\A c \in Clients :
       spamd_wait_timer[c] = "fired" /\ spamd_wait_timer'[c] = "armed"
         => tcp[c].elapsed <= m_timeouts]_vars

(* The clients implement the abstract scan jobs. *)
jobState == [c \in Clients |->
               IF c \notin created THEN "new"
               ELSE IF c \in Oversize \/ Closed(c) THEN "finished"
               ELSE IF Allowed(c) THEN "scanning"
               ELSE "waiting"]
jobCopies == [c \in Clients |-> {relayed[c][i] : i \in DOMAIN relayed[c]}]
Job == INSTANCE ScanJob WITH Jobs <- Clients, Large <- Oversize,
         Max <- conf_spamd_max_session, state <- jobState, copies <- jobCopies
ImplementsScanJob == Job!Spec

(* The scanned mail is relayed once, and a mail is relayed unscanned only  *)
(* when it is too large.                                                   *)
RelayedOnce ==
  \A c \in Clients :
    relayed[c] \in {<<>>, <<IF c \in Oversize THEN "raw" ELSE "scanned">>}
=============================================================================

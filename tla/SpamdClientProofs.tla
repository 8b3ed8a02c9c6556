------------------------- MODULE SpamdClientProofs -------------------------
(***************************************************************************)
(* Proofs about SpamdClient, for any number of mails, any limit and any    *)
(* timeout of at least one second.                                         *)
(***************************************************************************)
EXTENDS SpamdClient, FiniteSetTheorems, TLAPS

----------------------------------------------------------------------------
(* One connection of a client that is_wait_send let through.               *)

(* The connect, write and read handlers follow each other. *)
OneAtATime(t) ==
  /\ t.conn # "none" => t.rd = "none" /\ t.wr = "none" /\ t.io_timer = "off"
  /\ t.rd # "none" => t.wr = "none"

(* While the connect handler may still succeed the session is not closed:  *)
(* the connect timer is not due before the socket is open, and leaves an   *)
(* open socket alone.                                                      *)
ConnectPhase(t) ==
  /\ t.conn = "starting" => /\ t.connect_timer = "armed"
                            /\ t.elapsed = 0
                            /\ ~IsClosed(t)
  /\ t.conn \in {"pending", "ok"} => t.is_open

OpenIsNormal(t) == t.is_open => ~IsClosed(t)

(* No handler of the protocol is to come. *)
NoOperation(t) == t.conn = "none" /\ t.rd = "none" /\ t.wr = "none"

LiveOrClosed(t) == NoOperation(t) => IsClosed(t)

ScanInv(t) == /\ OneAtATime(t)
              /\ ConnectPhase(t)
              /\ OpenIsNormal(t)
              /\ LiveOrClosed(t)

(* The connection of a client that still waits. *)
Unstarted(t) == /\ ~IsClosed(t)
                /\ ~t.is_open
                /\ NoOperation(t)
                /\ t.io_timer = "off" /\ t.connect_timer = "off"

(* Closing is safe when the connect handler can only fail or has run. *)
Closable(t) == /\ t \in AsyncTcpClients
               /\ t.conn \in {"none", "error"}
               /\ OneAtATime(t)
               /\ OpenIsNormal(t)

LEMMA CloseScan ==
  ASSUME NEW t, Closable(t)
  PROVE  /\ Close(t) \in AsyncTcpClients
         /\ ScanInv(Close(t))
         /\ IsClosed(Close(t))
<1>1. CASE IsClosed(t)
    BY <1>1 DEF Closable, Close, ScanInv, OneAtATime, ConnectPhase, OpenIsNormal,
                LiveOrClosed, NoOperation, IsClosed
<1>2. CASE ~IsClosed(t)
  <2> DEFINE u == Close(t)
  <2>1. /\ Abort(t.conn) \in ConnectStates
        /\ Abort(t.rd) \in Operations /\ Abort(t.wr) \in Operations
        /\ Cancel(t.io_timer) \in Timers /\ Cancel(t.connect_timer) \in Timers
      BY DEF Closable, AsyncTcpClients, Abort, Cancel, ConnectStates, Operations, Timers
  <2>2. u \in AsyncTcpClients
      BY <1>2, <2>1 DEF Closable, Close, AsyncTcpClients
  <2>3. /\ u.n_socket_status = "CLOSED" /\ u.is_open = FALSE
        /\ u.conn = Abort(t.conn) /\ u.rd = Abort(t.rd) /\ u.wr = Abort(t.wr)
        /\ u.io_timer = Cancel(t.io_timer)
      BY <1>2 DEF Closable, Close, AsyncTcpClients
  <2>4. ScanInv(u)
      BY <2>3 DEF Closable, ScanInv, OneAtATime, ConnectPhase, OpenIsNormal,
                  LiveOrClosed, IsClosed, Abort, Cancel
  <2> QED
      BY <2>2, <2>3, <2>4 DEF IsClosed
<1> QED
    BY <1>1, <1>2

(* A handler that goes on with one read or one write. *)
LEMMA RecvScan ==
  ASSUME NEW t \in AsyncTcpClients,
         NoOperation(t), OpenIsNormal(t)
  PROVE  /\ AsyncRecv(t) \in AsyncTcpClients
         /\ ScanInv(AsyncRecv(t))
         /\ IsClosed(AsyncRecv(t)) <=> IsClosed(t)
<1>1. 0 \in 0 .. MaxElapsed /\ Started(t) \in {"pending", "error"}
    BY TimeoutsAssumption DEF Started
<1>2. AsyncRecv(t) \in AsyncTcpClients
    BY <1>1 DEF AsyncRecv, AsyncTcpClients, Operations
<1> QED
    BY <1>1, <1>2
    DEF AsyncRecv, AsyncTcpClients, ScanInv, OneAtATime, ConnectPhase,
        OpenIsNormal, LiveOrClosed, NoOperation, IsClosed

LEMMA SendScan ==
  ASSUME NEW t \in AsyncTcpClients,
         NoOperation(t), OpenIsNormal(t)
  PROVE  /\ AsyncSend(t) \in AsyncTcpClients
         /\ ScanInv(AsyncSend(t))
         /\ IsClosed(AsyncSend(t)) <=> IsClosed(t)
<1>1. 0 \in 0 .. MaxElapsed /\ Started(t) \in {"pending", "error"}
    BY TimeoutsAssumption DEF Started
<1>2. AsyncSend(t) \in AsyncTcpClients
    BY <1>1 DEF AsyncSend, AsyncTcpClients, Operations
<1> QED
    BY <1>1, <1>2
    DEF AsyncSend, AsyncTcpClients, ScanInv, OneAtATime, ConnectPhase,
        OpenIsNormal, LiveOrClosed, NoOperation, IsClosed

(* async_start_connect begins a scan. *)
LEMMA StartScan ==
  ASSUME NEW t \in AsyncTcpClients, Unstarted(t)
  PROVE  /\ StartConnect(t) \in AsyncTcpClients
         /\ ScanInv(StartConnect(t))
         /\ ~IsClosed(StartConnect(t))
<1>1. 0 \in 0 .. MaxElapsed
    BY TimeoutsAssumption
<1>2. StartConnect(t) \in AsyncTcpClients
    BY <1>1 DEF StartConnect, AsyncTcpClients, ConnectStates, Timers
<1> QED
    BY <1>2
    DEF StartConnect, Unstarted, AsyncTcpClients, ScanInv, OneAtATime, ConnectPhase,
        OpenIsNormal, LiveOrClosed, NoOperation, IsClosed

(* The second half of async_start_connect. *)
LEMMA OpenScan ==
  ASSUME NEW t \in AsyncTcpClients, ScanInv(t), t.conn = "starting",
         NEW opened \in BOOLEAN
  PROVE  /\ AsyncConnect(t, opened) \in AsyncTcpClients
         /\ ScanInv(AsyncConnect(t, opened))
         /\ IsClosed(AsyncConnect(t, opened)) <=> IsClosed(t)
BY DEF AsyncConnect, AsyncTcpClients, ScanInv, OneAtATime, ConnectPhase,
       OpenIsNormal, LiveOrClosed, NoOperation, IsClosed, Timers, Operations, ConnectStates

----------------------------------------------------------------------------
(* The inductive invariant: one conjunct per phase of a client, and the    *)
(* counter.                                                                *)

ClientTypes ==
  /\ created \in SUBSET Clients
  /\ tcp \in [Clients -> AsyncTcpClients]
  /\ m_wait_status \in [Clients -> {"WAIT_SEND", "ALLOW_SEND", "WAIT_TIMEOUT"}]
  /\ spamd_wait_timer \in [Clients -> Timers]
  /\ m_pystr_report_data \in [Clients -> 0 .. MaxReports]
  /\ relayed \in [Clients -> Seq({"raw", "scanned"})]

(* Before its first auto_smart_send a client has done nothing. *)
NewInv(c) == c \notin created => /\ ~Allowed(c)
                                 /\ spamd_wait_timer[c] = "off"
                                 /\ relayed[c] = <<>>

(* An oversize mail was relayed as it came, and its client does nothing    *)
(* more.                                                                   *)
OversizeInv(c) ==
  c \in Oversize => /\ ~Allowed(c)
                    /\ spamd_wait_timer[c] = "off"
                    /\ c \in created => relayed[c] = <<"raw">>

(* A client that was not let through has no connection; its timer brings   *)
(* the next poll.                                                          *)
WaitInv(c) ==
  ~Allowed(c) => /\ Unstarted(tcp[c])
                 /\ m_pystr_report_data[c] = 0
                 /\ c \notin Oversize => relayed[c] = <<>>
                 /\ c \in created \ Oversize => spamd_wait_timer[c] # "off"

(* A client that was let through scans, and relays when it is done. *)
AllowInv(c) ==
  Allowed(c) => /\ ScanInv(tcp[c])
                /\ spamd_wait_timer[c] = "off"
                /\ relayed[c] \in {<<>>, <<"scanned">>}
                /\ relayed[c] # <<>> => NoOperation(tcp[c])

ClientInv(c) == NewInv(c) /\ OversizeInv(c) /\ WaitInv(c) /\ AllowInv(c)

IInv == /\ ClientTypes
        /\ \A c \in Clients : ClientInv(c)
        /\ SlotsExact
        /\ Cardinality(slots) <= conf_spamd_max_session

LEMMA SlotsFinite == IsFiniteSet(slots) /\ Cardinality(slots) \in Nat
BY ClientsAssumption, FS_Subset, FS_CardinalityType DEF slots

LEMMA InitInv == Init => IInv
<1> SUFFICES ASSUME Init PROVE IInv
    OBVIOUS
<1>1. 0 \in 0 .. MaxElapsed /\ 0 \in 0 .. MaxReports
    BY TimeoutsAssumption, MaxReportsAssumption
<1>2. NewClient \in AsyncTcpClients
    BY <1>1 DEF NewClient, AsyncTcpClients, ConnectStates, Operations, Timers
<1>3. <<>> \in Seq({"raw", "scanned"})
    OBVIOUS
<1>4. ClientTypes
    BY <1>1, <1>2, <1>3 DEF ClientTypes, Init, Timers
<1>5. Unstarted(NewClient)
    BY DEF Unstarted, NewClient, NoOperation, IsClosed
<1>6. \A c \in Clients : ClientInv(c)
    BY <1>5 DEF Init, ClientInv, NewInv, OversizeInv, WaitInv, AllowInv, Allowed
<1>7. slots = {}
    BY DEF slots, Init, Allowed
<1>8. Cardinality(slots) = 0
    BY <1>7, FS_EmptySet
<1>9. SlotsExact /\ Cardinality(slots) <= conf_spamd_max_session
    BY <1>8, MaxSessionAssumption DEF SlotsExact, Init
<1> QED
    BY <1>4, <1>6, <1>9 DEF IInv

----------------------------------------------------------------------------
(* The steps of the clients that were let through.                         *)

(* A step of client c that makes its connection t, its chunks n and its    *)
(* relayed bodies r; the slot is given back when the step closes it.       *)
ScanStep(c, t, n, r) ==
  /\ t \in AsyncTcpClients
  /\ ScanInv(t)
  /\ Closed(c) => IsClosed(t)
  /\ n \in 0 .. MaxReports
  /\ r = relayed[c] \/ (r = <<"scanned">> /\ relayed[c] = <<>>)
  /\ NoOperation(t) \/ r = <<>>
  /\ tcp' = [tcp EXCEPT ![c] = t]
  /\ m_pystr_report_data' = [m_pystr_report_data EXCEPT ![c] = n]
  /\ relayed' = [relayed EXCEPT ![c] = r]
  /\ m_proc_num' = IF IsClosed(t) /\ ~Closed(c) THEN m_proc_num - 1 ELSE m_proc_num
  /\ UNCHANGED <<created, m_wait_status, spamd_wait_timer>>

(* close_tcp_session in a handler that has made the session t. *)
LEMMA CloseStep ==
  ASSUME IInv, NEW c \in Clients, Allowed(c), NEW t, Closable(t),
         IsClosed(t) <=> Closed(c), CloseTcpSession(c, t)
  PROVE  /\ tcp' = [tcp EXCEPT ![c] = Close(t)]
         /\ Close(t) \in AsyncTcpClients
         /\ ScanInv(Close(t))
         /\ IsClosed(Close(t))
         /\ m_proc_num' = IF ~Closed(c) THEN m_proc_num - 1 ELSE m_proc_num
         /\ spamd_wait_timer' = spamd_wait_timer
<1>1. spamd_wait_timer[c] = "off"
    BY DEF IInv, ClientInv, AllowInv
<1>2. [spamd_wait_timer EXCEPT ![c] = Cancel(@)] = spamd_wait_timer
    BY <1>1 DEF IInv, ClientTypes, Cancel
<1> QED
    BY <1>2, CloseScan DEF CloseTcpSession

(* A step of the connection alone, and one of the connection that leaves   *)
(* the chunks and the relayed bodies alone. *)
LEMMA TcpScanStep ==
  ASSUME IInv, NEW c \in Clients, Allowed(c), NEW t \in AsyncTcpClients,
         ScanInv(t), Closed(c) => IsClosed(t),
         NoOperation(t) \/ ~NoOperation(tcp[c]),
         tcp' = [tcp EXCEPT ![c] = t],
         m_proc_num' = IF IsClosed(t) /\ ~Closed(c) THEN m_proc_num - 1 ELSE m_proc_num,
         UNCHANGED <<created, m_wait_status, spamd_wait_timer, m_pystr_report_data, relayed>>
  PROVE  ScanStep(c, t, m_pystr_report_data[c], relayed[c])
<1>1. /\ m_pystr_report_data[c] \in 0 .. MaxReports
      /\ relayed[c] # <<>> => NoOperation(tcp[c])
    BY DEF IInv, ClientTypes, ClientInv, AllowInv
<1>2. /\ m_pystr_report_data' = [m_pystr_report_data EXCEPT ![c] = m_pystr_report_data[c]]
      /\ relayed' = [relayed EXCEPT ![c] = relayed[c]]
    BY DEF IInv, ClientTypes
<1>3. NoOperation(t) \/ relayed[c] = <<>>
    BY <1>1
<1>4. UNCHANGED <<created, m_wait_status, spamd_wait_timer>>
    OBVIOUS
<1> QED
    BY <1>1, <1>2, <1>3, <1>4 DEF ScanStep

(* handle_tcp_once_connect: only a session that is not closed connects. *)
LEMMA HandleConnectStep ==
  ASSUME IInv, NEW c \in Clients, Allowed(c), HandleConnect(c)
  PROVE  \E t, n, r : ScanStep(c, t, n, r)
<1> DEFINE t == [tcp[c] EXCEPT !.conn = "none"]
<1>1. tcp[c] \in AsyncTcpClients /\ ScanInv(tcp[c])
    BY DEF IInv, ClientTypes, ClientInv, AllowInv
<1>2. /\ t \in AsyncTcpClients
      /\ t.rd = tcp[c].rd /\ t.wr = tcp[c].wr /\ t.conn = "none"
      /\ t.is_open = tcp[c].is_open
      /\ IsClosed(t) <=> Closed(c)
    BY <1>1 DEF AsyncTcpClients, ConnectStates, IsClosed, Closed
<1>3. ~NoOperation(tcp[c])
    BY DEF HandleConnect, NoOperation
<1>4. CASE tcp[c].conn = "error" /\ CloseTcpSession(c, t)
  <2>1. Closable(t)
      BY <1>1, <1>2 DEF Closable, ScanInv, OneAtATime, OpenIsNormal, IsClosed, Closed
  <2>2. ScanStep(c, Close(t), m_pystr_report_data[c], relayed[c])
      BY <1>2, <1>3, <1>4, <2>1, CloseStep, TcpScanStep DEF HandleConnect
  <2> QED
      BY <2>2
<1>5. CASE tcp[c].conn = "ok" /\ Continue(c, AsyncSend(IoTimerCallAt(Connected(t))))
  <2> DEFINE u == IoTimerCallAt(Connected(t))
  <2>1. 0 \in 0 .. MaxElapsed
      BY TimeoutsAssumption
  <2>2. tcp[c].is_open /\ ~Closed(c) /\ tcp[c].rd = "none" /\ tcp[c].wr = "none"
      BY <1>1, <1>5 DEF ScanInv, OneAtATime, ConnectPhase, OpenIsNormal, Closed
  <2>3. u \in AsyncTcpClients
      BY <1>2, <2>1 DEF IoTimerCallAt, Connected, AsyncTcpClients, Timers
  <2>4. NoOperation(u) /\ OpenIsNormal(u) /\ ~IsClosed(u)
      BY <1>2, <2>2 DEF IoTimerCallAt, Connected, AsyncTcpClients, NoOperation,
                        OpenIsNormal, IsClosed
  <2>5. ScanStep(c, AsyncSend(u), m_pystr_report_data[c], relayed[c])
      BY <1>3, <1>5, <2>2, <2>3, <2>4, SendScan, TcpScanStep DEF HandleConnect, Continue
  <2> QED
      BY <2>5
<1> QED
    BY <1>4, <1>5 DEF HandleConnect

(* handle_tcp_write. *)
LEMMA HandleWriteStep ==
  ASSUME IInv, NEW c \in Clients, Allowed(c), HandleWrite(c)
  PROVE  \E t, n, r : ScanStep(c, t, n, r)
<1> DEFINE t == [tcp[c] EXCEPT !.wr = "none", !.elapsed = 0]
<1>1. tcp[c] \in AsyncTcpClients /\ ScanInv(tcp[c])
    BY DEF IInv, ClientTypes, ClientInv, AllowInv
<1>2. 0 \in 0 .. MaxElapsed
    BY TimeoutsAssumption
<1>3. tcp[c].wr # "none" /\ tcp[c].conn = "none" /\ tcp[c].rd = "none"
    BY <1>1 DEF HandleWrite, ScanInv, OneAtATime
<1>4. t \in AsyncTcpClients /\ NoOperation(t) /\ OpenIsNormal(t) /\ OneAtATime(t)
    BY <1>1, <1>2, <1>3 DEF AsyncTcpClients, Operations, NoOperation, OpenIsNormal,
                            ScanInv, OneAtATime, IsClosed
<1>5. (IsClosed(t) <=> Closed(c)) /\ ~NoOperation(tcp[c])
    BY <1>1, <1>3 DEF AsyncTcpClients, IsClosed, Closed, NoOperation
<1>6. CASE CloseTcpSession(c, t)
  <2>1. Closable(t)
      BY <1>4 DEF Closable, NoOperation
  <2>2. ScanStep(c, Close(t), m_pystr_report_data[c], relayed[c])
      BY <1>5, <1>6, <2>1, CloseStep, TcpScanStep DEF HandleWrite
  <2> QED
      BY <2>2
<1>7. CASE Continue(c, AsyncRecv(t))
  <2>1. ScanStep(c, AsyncRecv(t), m_pystr_report_data[c], relayed[c])
      BY <1>4, <1>5, <1>7, RecvScan, TcpScanStep DEF HandleWrite, Continue
  <2> QED
      BY <2>1
<1> QED
    BY <1>6, <1>7 DEF HandleWrite

(* What a read handler finds: one finished read and nothing else. *)
LEMMA ReadDoneScan ==
  ASSUME IInv, NEW c \in Clients, Allowed(c), tcp[c].rd # "none"
  PROVE  /\ ReadDone(c) \in AsyncTcpClients
         /\ NoOperation(ReadDone(c))
         /\ OpenIsNormal(ReadDone(c))
         /\ Closable(ReadDone(c))
         /\ IsClosed(ReadDone(c)) <=> Closed(c)
         /\ ~NoOperation(tcp[c])
         /\ relayed[c] = <<>>
         /\ m_pystr_report_data[c] \in 0 .. MaxReports
<1>1. tcp[c] \in AsyncTcpClients /\ ScanInv(tcp[c])
    BY DEF IInv, ClientTypes, ClientInv, AllowInv
<1>2. 0 \in 0 .. MaxElapsed
    BY TimeoutsAssumption
<1>3. tcp[c].conn = "none" /\ tcp[c].wr = "none" /\ ~NoOperation(tcp[c])
    BY <1>1 DEF ScanInv, OneAtATime, NoOperation
<1>4. /\ ReadDone(c) \in AsyncTcpClients
      /\ NoOperation(ReadDone(c))
      /\ OpenIsNormal(ReadDone(c))
      /\ OneAtATime(ReadDone(c))
      /\ IsClosed(ReadDone(c)) <=> Closed(c)
    BY <1>1, <1>2, <1>3
    DEF ReadDone, AsyncTcpClients, Operations, NoOperation, OpenIsNormal, ScanInv,
        OneAtATime, IsClosed, Closed
<1>5. relayed[c] = <<>> /\ m_pystr_report_data[c] \in 0 .. MaxReports
    BY <1>3 DEF IInv, ClientTypes, ClientInv, AllowInv
<1> QED
    BY <1>3, <1>4, <1>5 DEF Closable, NoOperation

(* handle_tcp_read and handle_protocol_read. *)
LEMMA ReadStep ==
  ASSUME IInv, NEW c \in Clients, Allowed(c),
         ReadFails(c) \/ ReportIncomplete(c) \/ ReportBad(c) \/ ReportComplete(c)
  PROVE  \E t, n, r : ScanStep(c, t, n, r)
<1>1. tcp[c].rd # "none"
    BY DEF ReadFails, ReportIncomplete, ReportBad, ReportComplete
<1>2. /\ ReadDone(c) \in AsyncTcpClients
      /\ NoOperation(ReadDone(c))
      /\ OpenIsNormal(ReadDone(c))
      /\ Closable(ReadDone(c))
      /\ IsClosed(ReadDone(c)) <=> Closed(c)
      /\ ~NoOperation(tcp[c])
      /\ relayed[c] = <<>>
      /\ m_pystr_report_data[c] \in 0 .. MaxReports
    BY <1>1, ReadDoneScan
<1>3. /\ relayed = [relayed EXCEPT ![c] = <<>>]
      /\ [relayed EXCEPT ![c] = Append(@, "scanned")] = [relayed EXCEPT ![c] = <<"scanned">>]
    BY <1>2 DEF IInv, ClientTypes
<1>4. NoOperation(Close(ReadDone(c)))
    BY <1>2 DEF Close, NoOperation, AsyncTcpClients, Abort
<1>5. CASE ReadFails(c)
  <2>1. ScanStep(c, Close(ReadDone(c)), m_pystr_report_data[c], relayed[c])
      BY <1>2, <1>5, CloseStep, TcpScanStep DEF ReadFails
  <2> QED
      BY <2>1
<1>6. CASE ReportIncomplete(c)
  <2> DEFINE n == OneMore(m_pystr_report_data[c])
  <2>1. n \in 0 .. MaxReports
      BY <1>2, MaxReportsAssumption DEF OneMore
  <2>2. m_pystr_report_data' = [m_pystr_report_data EXCEPT ![c] = n]
      BY <1>6 DEF ReportIncomplete
  <2>3. ScanStep(c, AsyncRecv(ReadDone(c)), n, <<>>)
      BY <1>2, <1>3, <1>6, <2>1, <2>2, RecvScan DEF ReportIncomplete, Continue, ScanStep
  <2> QED
      BY <2>3
<1>7. CASE ReportBad(c)
  <2> DEFINE n == OneMore(m_pystr_report_data[c])
  <2>1. n \in 0 .. MaxReports
      BY <1>2, MaxReportsAssumption DEF OneMore
  <2>2. m_pystr_report_data' = [m_pystr_report_data EXCEPT ![c] = n]
      BY <1>7 DEF ReportBad
  <2>3. ScanStep(c, Close(ReadDone(c)), n, <<>>)
      BY <1>2, <1>3, <1>4, <1>7, <2>1, <2>2, CloseStep DEF ReportBad, ScanStep
  <2> QED
      BY <2>3
<1>8. CASE ReportComplete(c)
  <2>1. 0 \in 0 .. MaxReports
      BY MaxReportsAssumption
  <2>2. ScanStep(c, Close(ReadDone(c)), 0, <<"scanned">>)
      BY <1>2, <1>3, <1>4, <1>8, <2>1, CloseStep DEF ReportComplete, Relay, ScanStep
  <2> QED
      BY <2>2
<1> QED
    BY <1>5, <1>6, <1>7, <1>8

(* handle_io_timer: the timer only runs once the connection is there. *)
LEMMA IoTimerStep ==
  ASSUME IInv, NEW c \in Clients, Allowed(c), HandleIoTimer(c)
  PROVE  \E t, n, r : ScanStep(c, t, n, r)
<1> DEFINE t == [tcp[c] EXCEPT !.io_timer = "off"]
<1>1. tcp[c] \in AsyncTcpClients /\ ScanInv(tcp[c]) /\ tcp[c].conn = "none"
    BY DEF IInv, ClientTypes, ClientInv, AllowInv, HandleIoTimer, ScanInv, OneAtATime
<1>2. /\ t \in AsyncTcpClients
      /\ t.conn = "none" /\ t.rd = tcp[c].rd /\ t.wr = tcp[c].wr
      /\ t.is_open = tcp[c].is_open
      /\ IsClosed(t) <=> Closed(c)
    BY <1>1 DEF AsyncTcpClients, Timers, IsClosed, Closed
<1>3. ScanInv(t) /\ Closable(t) /\ (NoOperation(t) <=> NoOperation(tcp[c]))
    BY <1>1, <1>2 DEF ScanInv, OneAtATime, ConnectPhase, OpenIsNormal, LiveOrClosed,
                      NoOperation, Closable, IsClosed, Closed
<1>4. CASE CloseTcpSession(c, t) /\ ~IsClosed(t)
  <2>1. NoOperation(Close(t)) \/ ~NoOperation(tcp[c])
      BY <1>1, <1>2, <1>3, <1>4 DEF ScanInv, LiveOrClosed, Closed
  <2>2. ScanStep(c, Close(t), m_pystr_report_data[c], relayed[c])
      BY <1>2, <1>3, <1>4, <2>1, CloseStep, TcpScanStep DEF HandleIoTimer
  <2> QED
      BY <2>2
<1>5. CASE Continue(c, t)
  <2>1. ScanStep(c, t, m_pystr_report_data[c], relayed[c])
      BY <1>2, <1>3, <1>5, TcpScanStep DEF HandleIoTimer, Continue
  <2> QED
      BY <2>1
<1>6. CASE Continue(c, IoTimerCallAt(t))
  <2> DEFINE u == IoTimerCallAt(t)
  <2>1. /\ u \in AsyncTcpClients
        /\ u.conn = t.conn /\ u.rd = t.rd /\ u.wr = t.wr /\ u.is_open = t.is_open
        /\ IsClosed(u) <=> IsClosed(t)
      BY <1>2 DEF IoTimerCallAt, AsyncTcpClients, Timers, IsClosed
  <2>2. ScanInv(u) /\ (NoOperation(u) <=> NoOperation(t))
      BY <1>2, <1>3, <2>1 DEF ScanInv, OneAtATime, ConnectPhase, OpenIsNormal,
                              LiveOrClosed, NoOperation
  <2>3. ScanStep(c, u, m_pystr_report_data[c], relayed[c])
      BY <1>2, <1>3, <1>6, <2>1, <2>2, TcpScanStep DEF HandleIoTimer, Continue
  <2> QED
      BY <2>3
<1> QED
    BY <1>4, <1>5, <1>6 DEF HandleIoTimer

(* handle_connect_timer: it closes only a session whose socket is not      *)
(* open, so never one that may still connect.                              *)
LEMMA ConnectTimerStep ==
  ASSUME IInv, NEW c \in Clients, Allowed(c), HandleConnectTimer(c)
  PROVE  \E t, n, r : ScanStep(c, t, n, r)
<1> DEFINE t == [tcp[c] EXCEPT !.connect_timer = "off"]
<1>1. tcp[c] \in AsyncTcpClients /\ ScanInv(tcp[c]) /\ tcp[c].conn # "starting"
    BY DEF IInv, ClientTypes, ClientInv, AllowInv, HandleConnectTimer, ScanInv, ConnectPhase
<1>2. /\ t \in AsyncTcpClients
      /\ t.conn = tcp[c].conn /\ t.rd = tcp[c].rd /\ t.wr = tcp[c].wr
      /\ t.is_open = tcp[c].is_open /\ t.io_timer = tcp[c].io_timer
      /\ IsClosed(t) <=> Closed(c)
    BY <1>1 DEF AsyncTcpClients, Timers, IsClosed, Closed
<1>3. ScanInv(t) /\ (NoOperation(t) <=> NoOperation(tcp[c]))
    BY <1>1, <1>2 DEF ScanInv, OneAtATime, ConnectPhase, OpenIsNormal, LiveOrClosed,
                      NoOperation, IsClosed, Closed
<1>4. CASE t.is_open /\ Continue(c, t)
  <2>1. ScanStep(c, t, m_pystr_report_data[c], relayed[c])
      BY <1>2, <1>3, <1>4, TcpScanStep DEF HandleConnectTimer, Continue
  <2> QED
      BY <2>1
<1>5. CASE ~t.is_open /\ CloseTcpSession(c, t)
  <2>1. t.conn \in {"none", "error"}
      BY <1>1, <1>2, <1>5 DEF ScanInv, ConnectPhase, AsyncTcpClients, ConnectStates
  <2>2. Closable(t)
      BY <1>2, <1>3, <2>1 DEF Closable, ScanInv
  <2>3. NoOperation(Close(t)) \/ ~NoOperation(tcp[c])
    <3>1. CASE NoOperation(t)
        BY <1>2, <3>1 DEF NoOperation, Close, Abort, AsyncTcpClients
    <3> QED
        BY <1>3, <3>1
  <2>4. ScanStep(c, Close(t), m_pystr_report_data[c], relayed[c])
      BY <1>2, <1>5, <2>2, <2>3, CloseStep, TcpScanStep DEF HandleConnectTimer
  <2> QED
      BY <2>4
<1> QED
    BY <1>4, <1>5 DEF HandleConnectTimer

(* The second half of async_start_connect. *)
LEMMA OpenSocketStep ==
  ASSUME IInv, NEW c \in Clients, Allowed(c), OpenSocket(c)
  PROVE  \E t, n, r : ScanStep(c, t, n, r)
<1>1. tcp[c] \in AsyncTcpClients /\ ScanInv(tcp[c]) /\ ~NoOperation(tcp[c])
    BY DEF IInv, ClientTypes, ClientInv, AllowInv, OpenSocket, NoOperation
<1>2. PICK opened \in BOOLEAN : tcp' = [tcp EXCEPT ![c] = AsyncConnect(@, opened)]
    BY DEF OpenSocket
<1> DEFINE t == AsyncConnect(tcp[c], opened)
<1>3. t \in AsyncTcpClients /\ ScanInv(t) /\ (IsClosed(t) <=> Closed(c))
    BY <1>1, OpenScan DEF OpenSocket, Closed
<1>4. ScanStep(c, t, m_pystr_report_data[c], relayed[c])
    BY <1>1, <1>2, <1>3, TcpScanStep DEF OpenSocket
<1> QED
    BY <1>4

(* The network and the clock.  The connect timer is not due between        *)
(* StartConnect and AsyncConnect, since it waits m_timeouts seconds.       *)
LEMMA EnvironmentStep ==
  ASSUME m_timeouts > 0, IInv, NEW c \in Clients, Allowed(c),
         ConnectionAnswers(c) \/ PeerAnswers(c) \/ IoTimerExpires(c)
           \/ ConnectTimerExpires(c) \/ SecondPasses(c)
  PROVE  \E t, n, r : ScanStep(c, t, n, r)
<1>1. tcp[c] \in AsyncTcpClients /\ ScanInv(tcp[c])
    BY DEF IInv, ClientTypes, ClientInv, AllowInv
<1>2. ASSUME NEW t \in AsyncTcpClients, ScanInv(t), IsClosed(t) <=> Closed(c),
             NoOperation(t) <=> NoOperation(tcp[c]), TcpStep(c, t)
      PROVE  ScanStep(c, t, m_pystr_report_data[c], relayed[c])
    BY <1>2, TcpScanStep DEF TcpStep
<1>3. CASE ConnectionAnswers(c)
  <2>1. PICK res \in Results : TcpStep(c, ConnectCompletes(tcp[c], res))
      BY <1>3 DEF ConnectionAnswers
  <2> DEFINE t == ConnectCompletes(tcp[c], res)
  <2>2. t \in AsyncTcpClients /\ ScanInv(t) /\ (IsClosed(t) <=> Closed(c))
      BY <1>1, <1>3 DEF ConnectionAnswers, ConnectCompletes, Results, AsyncTcpClients,
         ConnectStates, ScanInv, OneAtATime, ConnectPhase, OpenIsNormal, LiveOrClosed,
         NoOperation, IsClosed, Closed
  <2>3. ~NoOperation(t) /\ ~NoOperation(tcp[c])
      BY <1>1, <1>3 DEF ConnectionAnswers, ConnectCompletes, Results, AsyncTcpClients,
                        NoOperation
  <2> QED
      BY <1>2, <2>1, <2>2, <2>3
<1>4. CASE PeerAnswers(c)
  <2>1. ASSUME NEW res \in Results, tcp[c].rd = "pending",
               TcpStep(c, ReadCompletes(tcp[c], res))
        PROVE  ScanStep(c, ReadCompletes(tcp[c], res), m_pystr_report_data[c], relayed[c])
    <3> DEFINE t == ReadCompletes(tcp[c], res)
    <3>1. t \in AsyncTcpClients /\ ScanInv(t) /\ (IsClosed(t) <=> Closed(c))
        BY <1>1, <2>1 DEF ReadCompletes, Results, AsyncTcpClients, Operations, ScanInv,
           OneAtATime, ConnectPhase, OpenIsNormal, LiveOrClosed, NoOperation, IsClosed, Closed
    <3>2. ~NoOperation(t) /\ ~NoOperation(tcp[c])
        BY <1>1, <2>1 DEF ReadCompletes, Results, AsyncTcpClients, NoOperation
    <3> QED
        BY <1>2, <2>1, <3>1, <3>2
  <2>2. ASSUME NEW res \in Results, tcp[c].wr = "pending",
               TcpStep(c, WriteCompletes(tcp[c], res))
        PROVE  ScanStep(c, WriteCompletes(tcp[c], res), m_pystr_report_data[c], relayed[c])
    <3> DEFINE t == WriteCompletes(tcp[c], res)
    <3>1. t \in AsyncTcpClients /\ ScanInv(t) /\ (IsClosed(t) <=> Closed(c))
        BY <1>1, <2>2 DEF WriteCompletes, Results, AsyncTcpClients, Operations, ScanInv,
           OneAtATime, ConnectPhase, OpenIsNormal, LiveOrClosed, NoOperation, IsClosed, Closed
    <3>2. ~NoOperation(t) /\ ~NoOperation(tcp[c])
        BY <1>1, <2>2 DEF WriteCompletes, Results, AsyncTcpClients, NoOperation
    <3> QED
        BY <1>2, <2>2, <3>1, <3>2
  <2> QED
      BY <1>4, <2>1, <2>2 DEF PeerAnswers
<1>5. CASE IoTimerExpires(c)
  <2> DEFINE t == [tcp[c] EXCEPT !.io_timer = "fired"]
  <2>1. t \in AsyncTcpClients /\ ScanInv(t) /\ (IsClosed(t) <=> Closed(c))
      BY <1>1, <1>5 DEF IoTimerExpires, AsyncTcpClients, Timers, ScanInv, OneAtATime,
         ConnectPhase, OpenIsNormal, LiveOrClosed, NoOperation, IsClosed, Closed
  <2>2. NoOperation(t) <=> NoOperation(tcp[c])
      BY <1>1 DEF AsyncTcpClients, NoOperation
  <2> QED
      BY <1>2, <1>5, <2>1, <2>2 DEF IoTimerExpires
<1>6. CASE ConnectTimerExpires(c)
  <2> DEFINE t == [tcp[c] EXCEPT !.connect_timer = "fired"]
  <2>1. tcp[c].conn # "starting"
      BY <1>1, <1>6, TimeoutsAssumption
      DEF ConnectTimerExpires, ConnectTimerDue, ScanInv, ConnectPhase
  <2>2. t \in AsyncTcpClients /\ ScanInv(t) /\ (IsClosed(t) <=> Closed(c))
      BY <1>1, <2>1 DEF AsyncTcpClients, Timers, ScanInv, OneAtATime, ConnectPhase,
                        OpenIsNormal, LiveOrClosed, NoOperation, IsClosed, Closed
  <2>3. NoOperation(t) <=> NoOperation(tcp[c])
      BY <1>1 DEF AsyncTcpClients, NoOperation
  <2> QED
      BY <1>2, <1>6, <2>2, <2>3 DEF ConnectTimerExpires
<1>7. CASE SecondPasses(c)
  <2> DEFINE t == Tick(tcp[c])
  <2>1. tcp[c].elapsed + 1 \in 0 .. MaxElapsed /\ tcp[c].conn # "starting"
      BY <1>1, <1>7, TimeoutsAssumption DEF SecondPasses, CanTick, AsyncTcpClients
  <2>2. t \in AsyncTcpClients /\ ScanInv(t) /\ (IsClosed(t) <=> Closed(c))
      BY <1>1, <2>1 DEF Tick, AsyncTcpClients, ScanInv, OneAtATime, ConnectPhase,
                        OpenIsNormal, LiveOrClosed, NoOperation, IsClosed, Closed
  <2>3. NoOperation(t) <=> NoOperation(tcp[c])
      BY <1>1 DEF Tick, AsyncTcpClients, NoOperation
  <2> QED
      BY <1>2, <1>7, <2>2, <2>3 DEF SecondPasses
<1> QED
    BY <1>3, <1>4, <1>5, <1>6, <1>7

----------------------------------------------------------------------------
(* The steps of the clients that were not let through.                     *)

(* An oversize mail goes past spamd. *)
BypassStep(c) ==
  /\ c \in Oversize
  /\ c \notin created
  /\ created' = created \cup {c}
  /\ relayed' = [relayed EXCEPT ![c] = <<"raw">>]
  /\ UNCHANGED <<tcp, m_wait_status, spamd_wait_timer, m_pystr_report_data, m_proc_num>>

(* A client is told to wait, or its timer expires. *)
WaitStep(c) ==
  /\ c \notin Oversize
  /\ ~Allowed(c)
  /\ c \notin created => IsNeedWait
  /\ created' = created \cup {c}
  /\ \E v \in {"armed", "fired"} : spamd_wait_timer' = [spamd_wait_timer EXCEPT ![c] = v]
  /\ UNCHANGED <<tcp, m_wait_status, m_pystr_report_data, relayed, m_proc_num>>

(* A client takes a slot. *)
StartStep(c) ==
  /\ c \notin Oversize
  /\ ~Allowed(c)
  /\ ~IsNeedWait
  /\ created' = created \cup {c}
  /\ m_proc_num' = m_proc_num + 1
  /\ m_wait_status' = [m_wait_status EXCEPT ![c] = "ALLOW_SEND"]
  /\ tcp' = [tcp EXCEPT ![c] = StartConnect(@)]
  /\ spamd_wait_timer' = [spamd_wait_timer EXCEPT ![c] = "off"]
  /\ UNCHANGED <<m_pystr_report_data, relayed>>

(* Time passes for a client without a connection. *)
IdleSecond(c) ==
  /\ ~Allowed(c)
  /\ tcp[c].elapsed < MaxElapsed
  /\ tcp' = [tcp EXCEPT ![c] = Tick(@)]
  /\ UNCHANGED <<created, m_wait_status, spamd_wait_timer, m_pystr_report_data,
                 relayed, m_proc_num>>

(* auto_smart_send of a client that was not let through before. *)
LEMMA AutoSmartSendStep ==
  ASSUME IInv, NEW c \in Clients, AutoSmartSend(c), created' = created \cup {c},
         UNCHANGED m_pystr_report_data,
         ~Allowed(c), c \in Oversize => c \notin created
  PROVE  BypassStep(c) \/ WaitStep(c) \/ StartStep(c)
<1>1. c \in Oversize => relayed[c] = <<>> /\ spamd_wait_timer[c] = "off"
    BY DEF IInv, ClientInv, NewInv
<1>2. CASE c \in Oversize
  <2>1. [relayed EXCEPT ![c] = Append(@, "raw")] = [relayed EXCEPT ![c] = <<"raw">>]
      BY <1>1, <1>2 DEF IInv, ClientTypes
  <2>2. [spamd_wait_timer EXCEPT ![c] = "off"] = spamd_wait_timer
      BY <1>1, <1>2 DEF IInv, ClientTypes
  <2> QED
      BY <1>2, <2>1, <2>2 DEF AutoSmartSend, Relay, BypassStep
<1>3. CASE c \notin Oversize
    BY <1>3 DEF AutoSmartSend, WaitStep, StartStep
<1> QED
    BY <1>2, <1>3

(* Every step of a client is one of those above. *)
LEMMA ClientSteps ==
  ASSUME m_timeouts > 0, IInv, NEW c \in Clients,
         Create(c) \/ Handler(c) \/ ConnectionAnswers(c) \/ PeerAnswers(c) \/ Clock(c)
  PROVE  \/ Allowed(c) /\ (\E t, n, r : ScanStep(c, t, n, r))
         \/ BypassStep(c) \/ WaitStep(c) \/ StartStep(c) \/ IdleSecond(c)
<1>1. CASE Allowed(c)
  <2>1. c \in created /\ spamd_wait_timer[c] = "off"
      BY <1>1 DEF IInv, ClientInv, NewInv, AllowInv
  <2>2. ~Create(c) /\ ~Poll(c) /\ ~WaitTimerExpires(c)
      BY <2>1 DEF Create, Poll, WaitTimerExpires
  <2> QED
      BY <1>1, <2>2, OpenSocketStep, HandleConnectStep, HandleWriteStep, ReadStep,
         IoTimerStep, ConnectTimerStep, EnvironmentStep
      DEF Handler, Clock
<1>2. CASE ~Allowed(c)
  <2>1. /\ tcp[c].conn = "none" /\ tcp[c].rd = "none" /\ tcp[c].wr = "none"
        /\ tcp[c].io_timer = "off" /\ tcp[c].connect_timer = "off"
      BY <1>2 DEF IInv, ClientInv, WaitInv, Unstarted, NoOperation
  <2>2. c \in Oversize \/ c \notin created => spamd_wait_timer[c] = "off"
      BY DEF IInv, ClientInv, NewInv, OversizeInv
  <2>3. ~(OpenSocket(c) \/ HandleConnect(c) \/ HandleWrite(c) \/ ReadFails(c)
            \/ ReportIncomplete(c) \/ ReportBad(c) \/ ReportComplete(c)
            \/ HandleIoTimer(c) \/ HandleConnectTimer(c))
      BY <2>1 DEF OpenSocket, HandleConnect, HandleWrite, ReadFails, ReportIncomplete,
                  ReportBad, ReportComplete, HandleIoTimer, HandleConnectTimer
  <2>4. ~(ConnectionAnswers(c) \/ PeerAnswers(c) \/ IoTimerExpires(c)
            \/ ConnectTimerExpires(c))
      BY <2>1 DEF ConnectionAnswers, PeerAnswers, IoTimerExpires, ConnectTimerExpires,
                  ConnectTimerDue
  <2>5. CASE Create(c)
      BY <1>2, <2>5, AutoSmartSendStep DEF Create
  <2>6. CASE Poll(c)
    <3>1. c \in created /\ c \notin Oversize
        BY <2>2, <2>6 DEF Poll
    <3>2. created' = created \cup {c}
        BY <2>6, <3>1 DEF Poll
    <3> QED
        BY <1>2, <2>6, <3>1, <3>2, AutoSmartSendStep DEF Poll
  <2>7. CASE WaitTimerExpires(c)
    <3>1. c \in created /\ c \notin Oversize
        BY <2>2, <2>7 DEF WaitTimerExpires
    <3>2. created' = created \cup {c}
        BY <2>7, <3>1 DEF WaitTimerExpires
    <3> QED
        BY <1>2, <2>7, <3>1, <3>2 DEF WaitTimerExpires, WaitStep
  <2>8. CASE SecondPasses(c)
      BY <1>2, <2>8 DEF SecondPasses, CanTick, TcpStep, IdleSecond
  <2> QED
      BY <2>3, <2>4, <2>5, <2>6, <2>7, <2>8 DEF Handler, Clock
<1> QED
    BY <1>1, <1>2

----------------------------------------------------------------------------
(* The slots, under each kind of step. *)

LEMMA SlotsOfScanStep ==
  ASSUME IInv, NEW c \in Clients, Allowed(c), NEW t, NEW n, NEW r, ScanStep(c, t, n, r)
  PROVE  IF IsClosed(t) /\ ~Closed(c) THEN c \in slots /\ slots' = slots \ {c}
                                      ELSE slots' = slots
<1>1. /\ \A d \in Clients : Allowed(d)' <=> Allowed(d)
      /\ \A d \in Clients \ {c} : Closed(d)' <=> Closed(d)
      /\ Closed(c)' <=> IsClosed(t)
    BY DEF IInv, ClientTypes, ScanStep, Allowed, Closed, IsClosed
<1>2. Closed(c) => IsClosed(t)
    BY DEF ScanStep
<1> QED
    BY <1>1, <1>2 DEF slots

LEMMA SlotsOfStartStep ==
  ASSUME IInv, NEW c \in Clients, StartStep(c)
  PROVE  c \notin slots /\ slots' = slots \cup {c}
<1>1. ~IsClosed(StartConnect(tcp[c]))
    BY StartScan DEF IInv, ClientTypes, ClientInv, WaitInv, StartStep
<1>2. /\ \A d \in Clients \ {c} : Allowed(d)' <=> Allowed(d)
      /\ \A d \in Clients \ {c} : Closed(d)' <=> Closed(d)
      /\ Allowed(c)' /\ ~Closed(c)' /\ ~Allowed(c)
    BY <1>1 DEF IInv, ClientTypes, StartStep, Allowed, Closed, IsClosed
<1> QED
    BY <1>2 DEF slots

LEMMA SlotsOfIdleSecond ==
  ASSUME IInv, NEW c \in Clients, IdleSecond(c)
  PROVE  slots' = slots
<1>1. /\ \A d \in Clients : Allowed(d)' <=> Allowed(d)
      /\ \A d \in Clients \ {c} : Closed(d)' <=> Closed(d)
      /\ ~Allowed(c)
    BY DEF IInv, ClientTypes, IdleSecond, Allowed, Closed, IsClosed
<1> QED
    BY <1>1 DEF slots

(* A step that leaves the connections and the wait states alone. *)
LEMMA SlotsUnchanged ==
  ASSUME UNCHANGED <<tcp, m_wait_status>>
  PROVE  slots' = slots
BY DEF slots, Allowed, Closed

(* The counter follows the slots. *)
CounterInv == SlotsExact /\ Cardinality(slots) <= conf_spamd_max_session

LEMMA CounterSame ==
  ASSUME CounterInv, slots' = slots, m_proc_num' = m_proc_num
  PROVE  CounterInv'
BY DEF CounterInv, SlotsExact

LEMMA CounterOfScanStep ==
  ASSUME IInv, NEW c \in Clients, Allowed(c), NEW t, NEW n, NEW r, ScanStep(c, t, n, r)
  PROVE  CounterInv'
<1>1. CASE IsClosed(t) /\ ~Closed(c)
  <2>1. c \in slots /\ slots' = slots \ {c}
      BY <1>1, SlotsOfScanStep
  <2>2. Cardinality(slots') = Cardinality(slots) - 1
      BY <2>1, SlotsFinite, FS_RemoveElement
  <2> QED
      BY <1>1, <2>2, SlotsFinite, MaxSessionAssumption
      DEF IInv, ScanStep, CounterInv, SlotsExact
<1>2. CASE ~(IsClosed(t) /\ ~Closed(c))
    BY <1>2, SlotsOfScanStep, CounterSame DEF IInv, ScanStep, CounterInv
<1> QED
    BY <1>1, <1>2

LEMMA CounterOfStartStep ==
  ASSUME IInv, NEW c \in Clients, StartStep(c)
  PROVE  CounterInv'
<1>1. c \notin slots /\ slots' = slots \cup {c}
    BY SlotsOfStartStep
<1>2. Cardinality(slots') = Cardinality(slots) + 1
    BY <1>1, SlotsFinite, FS_AddElement
<1> QED
    BY <1>2, SlotsFinite, MaxSessionAssumption
    DEF IInv, StartStep, IsNeedWait, CounterInv, SlotsExact

----------------------------------------------------------------------------
(* A client keeps its invariant through the steps of the others, and       *)
(* through its own.                                                        *)

LEMMA OtherClient ==
  ASSUME NEW d \in Clients, ClientInv(d),
         tcp'[d] = tcp[d], m_wait_status'[d] = m_wait_status[d],
         spamd_wait_timer'[d] = spamd_wait_timer[d],
         m_pystr_report_data'[d] = m_pystr_report_data[d],
         relayed'[d] = relayed[d], d \in created' <=> d \in created
  PROVE  ClientInv(d)'
BY DEF ClientInv, NewInv, OversizeInv, WaitInv, AllowInv, Allowed

LEMMA ScanStepInv ==
  ASSUME IInv, NEW c \in Clients, Allowed(c), NEW t, NEW n, NEW r, ScanStep(c, t, n, r)
  PROVE  ClientTypes' /\ \A d \in Clients : ClientInv(d)'
<1>1. /\ c \in created /\ c \notin Oversize /\ spamd_wait_timer[c] = "off"
      /\ relayed[c] \in {<<>>, <<"scanned">>}
    BY DEF IInv, ClientInv, NewInv, OversizeInv, AllowInv
<1>2. <<>> \in Seq({"raw", "scanned"}) /\ <<"scanned">> \in Seq({"raw", "scanned"})
    OBVIOUS
<1>3. r \in {<<>>, <<"scanned">>}
    BY <1>1 DEF ScanStep
<1>4. r \in Seq({"raw", "scanned"})
    BY <1>2, <1>3
<1>5. /\ r # <<>> => r = <<"scanned">>
      /\ t \in AsyncTcpClients /\ ScanInv(t) /\ n \in 0 .. MaxReports
      /\ r # <<>> => NoOperation(t)
    BY <1>3 DEF ScanStep
<1>6. ClientTypes'
    BY <1>4, <1>5 DEF IInv, ClientTypes, ScanStep
<1>7. /\ tcp'[c] = t /\ m_pystr_report_data'[c] = n /\ relayed'[c] = r
      /\ UNCHANGED <<created, m_wait_status, spamd_wait_timer>>
    BY DEF IInv, ClientTypes, ScanStep
<1>8. ClientInv(c)'
    BY <1>1, <1>3, <1>5, <1>7
    DEF ClientInv, NewInv, OversizeInv, WaitInv, AllowInv, Allowed
<1>9. ASSUME NEW d \in Clients \ {c} PROVE ClientInv(d)'
    BY OtherClient DEF IInv, ClientTypes, ScanStep
<1> QED
    BY <1>6, <1>8, <1>9

LEMMA WaitingStepInv ==
  ASSUME IInv, NEW c \in Clients,
         BypassStep(c) \/ WaitStep(c) \/ StartStep(c) \/ IdleSecond(c)
  PROVE  ClientTypes' /\ \A d \in Clients : ClientInv(d)'
<1>1. ClientTypes /\ tcp[c] \in AsyncTcpClients
    BY DEF IInv, ClientTypes
<1>2. ASSUME NEW d \in Clients \ {c} PROVE ClientInv(d)'
  <2>1. /\ tcp'[d] = tcp[d] /\ m_wait_status'[d] = m_wait_status[d]
        /\ spamd_wait_timer'[d] = spamd_wait_timer[d]
        /\ m_pystr_report_data'[d] = m_pystr_report_data[d]
        /\ relayed'[d] = relayed[d] /\ (d \in created' <=> d \in created)
      BY <1>1 DEF ClientTypes, BypassStep, WaitStep, StartStep, IdleSecond
  <2> QED
      BY <2>1, OtherClient DEF IInv
<1>3. CASE BypassStep(c)
  <2>1. <<"raw">> \in Seq({"raw", "scanned"})
      OBVIOUS
  <2>2. ClientTypes'
      BY <1>1, <1>3, <2>1 DEF ClientTypes, BypassStep
  <2>3. /\ ~Allowed(c) /\ spamd_wait_timer[c] = "off"
        /\ Unstarted(tcp[c]) /\ m_pystr_report_data[c] = 0
      BY <1>3 DEF IInv, ClientInv, NewInv, WaitInv, BypassStep
  <2>4. relayed'[c] = <<"raw">> /\ c \in created'
      BY <1>1, <1>3 DEF ClientTypes, BypassStep
  <2>5. ClientInv(c)'
      BY <1>3, <2>3, <2>4
      DEF BypassStep, ClientInv, NewInv, OversizeInv, WaitInv, AllowInv, Allowed
  <2> QED
      BY <1>2, <2>2, <2>5
<1>4. CASE WaitStep(c)
  <2>1. PICK v \in {"armed", "fired"} :
               spamd_wait_timer' = [spamd_wait_timer EXCEPT ![c] = v]
      BY <1>4 DEF WaitStep
  <2>2. ClientTypes'
      BY <1>1, <1>4, <2>1 DEF ClientTypes, WaitStep, Timers
  <2>3. /\ ~Allowed(c) /\ c \notin Oversize
        /\ Unstarted(tcp[c]) /\ m_pystr_report_data[c] = 0 /\ relayed[c] = <<>>
      BY <1>4 DEF IInv, ClientInv, WaitInv, WaitStep
  <2>4. spamd_wait_timer'[c] = v /\ c \in created'
      BY <1>1, <1>4, <2>1 DEF ClientTypes, WaitStep
  <2>5. ClientInv(c)'
      BY <1>4, <2>3, <2>4
      DEF WaitStep, ClientInv, NewInv, OversizeInv, WaitInv, AllowInv, Allowed
  <2> QED
      BY <1>2, <2>2, <2>5
<1>5. CASE StartStep(c)
  <2>1. /\ ~Allowed(c) /\ c \notin Oversize
        /\ Unstarted(tcp[c]) /\ m_pystr_report_data[c] = 0 /\ relayed[c] = <<>>
      BY <1>5 DEF IInv, ClientInv, WaitInv, StartStep
  <2>2. /\ StartConnect(tcp[c]) \in AsyncTcpClients
        /\ ScanInv(StartConnect(tcp[c]))
      BY <1>1, <2>1, StartScan
  <2>3. ClientTypes'
      BY <1>1, <1>5, <2>2 DEF ClientTypes, StartStep, Timers
  <2>4. /\ tcp'[c] = StartConnect(tcp[c]) /\ m_wait_status'[c] = "ALLOW_SEND"
        /\ spamd_wait_timer'[c] = "off" /\ c \in created'
        /\ UNCHANGED <<m_pystr_report_data, relayed>>
      BY <1>1, <1>5 DEF ClientTypes, StartStep
  <2>5. ClientInv(c)'
      BY <2>1, <2>2, <2>4, MaxReportsAssumption
      DEF ClientInv, NewInv, OversizeInv, WaitInv, AllowInv, Allowed
  <2> QED
      BY <1>2, <2>3, <2>5
<1>6. CASE IdleSecond(c)
  <2>1. ~Allowed(c) /\ Unstarted(tcp[c])
      BY <1>6 DEF IInv, ClientInv, WaitInv, IdleSecond
  <2>2. tcp[c].elapsed + 1 \in 0 .. MaxElapsed
      BY <1>1, <1>6, TimeoutsAssumption DEF IdleSecond, AsyncTcpClients
  <2>3. Tick(tcp[c]) \in AsyncTcpClients /\ Unstarted(Tick(tcp[c]))
      BY <1>1, <2>1, <2>2 DEF Tick, AsyncTcpClients, Unstarted, NoOperation, IsClosed
  <2>4. ClientTypes'
      BY <1>1, <1>6, <2>3 DEF ClientTypes, IdleSecond
  <2>5. tcp'[c] = Tick(tcp[c])
      BY <1>1, <1>6 DEF ClientTypes, IdleSecond
  <2>6. ClientInv(c)'
      BY <1>6, <2>1, <2>3, <2>5
      DEF IInv, IdleSecond, ClientInv, NewInv, OversizeInv, WaitInv, AllowInv, Allowed
  <2> QED
      BY <1>2, <2>4, <2>6
<1> QED
    BY <1>3, <1>4, <1>5, <1>6

LEMMA WaitingStepCounter ==
  ASSUME IInv, NEW c \in Clients,
         BypassStep(c) \/ WaitStep(c) \/ StartStep(c) \/ IdleSecond(c)
  PROVE  CounterInv'
<1>1. CounterInv
    BY DEF IInv, CounterInv
<1>2. CASE BypassStep(c) \/ WaitStep(c)
    BY <1>1, <1>2, SlotsUnchanged, CounterSame DEF BypassStep, WaitStep
<1>3. CASE StartStep(c)
    BY <1>3, CounterOfStartStep
<1>4. CASE IdleSecond(c)
    BY <1>1, <1>4, SlotsOfIdleSecond, CounterSame DEF IdleSecond
<1> QED
    BY <1>2, <1>3, <1>4

(* Every step keeps the inductive invariant, provided the connect timer    *)
(* waits at least a second. *)
LEMMA StepInv ==
  ASSUME m_timeouts > 0
  PROVE  IInv /\ [Next]_vars => IInv'
<1> SUFFICES ASSUME IInv, [Next]_vars PROVE IInv'
    OBVIOUS
<1>1. CASE Next
  <2>1. PICK c \in Clients : \/ Create(c) \/ Handler(c) \/ ConnectionAnswers(c)
                             \/ PeerAnswers(c) \/ Clock(c)
      BY <1>1 DEF Next
  <2>2. CASE Allowed(c) /\ \E t, n, r : ScanStep(c, t, n, r)
      BY <2>2, ScanStepInv, CounterOfScanStep DEF IInv, CounterInv
  <2>3. CASE BypassStep(c) \/ WaitStep(c) \/ StartStep(c) \/ IdleSecond(c)
      BY <2>3, WaitingStepInv, WaitingStepCounter DEF IInv, CounterInv
  <2> QED
      BY <2>1, <2>2, <2>3, ClientSteps
<1>2. CASE UNCHANGED vars
    BY <1>2 DEF vars, IInv, ClientTypes, ClientInv, NewInv, OversizeInv, WaitInv,
                AllowInv, SlotsExact, slots, Allowed, Closed
<1> QED
    BY <1>1, <1>2

LEMMA SpecInv == ASSUME m_timeouts > 0 PROVE SafetySpec => []IInv
<1>1. IInv /\ [Next]_vars => IInv'
    BY StepInv
<1> QED
    BY <1>1, InitInv, PTL DEF SafetySpec

----------------------------------------------------------------------------

(* TypeOK: the counter never goes below zero.                              *)
THEOREM TypeCorrect == ASSUME m_timeouts > 0 PROVE SafetySpec => []TypeOK
<1>1. IInv => TypeOK
    BY SlotsFinite DEF IInv, ClientTypes, SlotsExact, TypeOK
<1> QED
    BY <1>1, SpecInv, PTL

(* SlotsExact: no handler leaks a slot of conf_spamd_limit or gives one    *)
(* back twice.                                                             *)
THEOREM SlotsAreExact == ASSUME m_timeouts > 0 PROVE SafetySpec => []SlotsExact
<1>1. IInv => SlotsExact
    BY DEF IInv
<1> QED
    BY <1>1, SpecInv, PTL

(* SpamdParallel: however many mails arrive, the sockets open towards      *)
(* spamd stay within conf_spamd_max_session.                               *)
THEOREM SpamdParallelHolds == ASSUME m_timeouts > 0 PROVE SafetySpec => []SpamdParallel
<1>1. ASSUME IInv PROVE SpamdParallel
  <2> DEFINE open == {c \in Clients : tcp[c].is_open}
  <2>1. open \subseteq slots
      BY <1>1 DEF IInv, ClientInv, WaitInv, AllowInv, Unstarted, ScanInv, OpenIsNormal,
                  slots, Closed
  <2>2. Cardinality(open) <= Cardinality(slots) /\ Cardinality(open) \in Nat
      BY <2>1, SlotsFinite, FS_Subset, FS_CardinalityType
  <2> QED
      BY <1>1, <2>2, SlotsFinite, MaxSessionAssumption DEF IInv, SpamdParallel
<1> QED
    BY <1>1, SpecInv, PTL

(* RelayedOnce: a mail is relayed once and in one form. *)
THEOREM RelayedOnceHolds == ASSUME m_timeouts > 0 PROVE SafetySpec => []RelayedOnce
<1>1. ASSUME IInv PROVE RelayedOnce
  <2> SUFFICES ASSUME NEW c \in Clients
               PROVE  relayed[c] \in {<<>>, <<IF c \in Oversize THEN "raw" ELSE "scanned">>}
      BY DEF RelayedOnce
  <2>1. CASE c \in Oversize
      BY <1>1, <2>1 DEF IInv, ClientInv, NewInv, OversizeInv
  <2>2. CASE c \notin Oversize
      BY <1>1, <2>2 DEF IInv, ClientInv, WaitInv, AllowInv
  <2> QED
      BY <2>1, <2>2
<1> QED
    BY <1>1, SpecInv, PTL

(* OneContinuation: a started client has exactly one protocol handler to   *)
(* come until it is closed, and a waiting one only its timer.              *)
THEOREM OneContinuationHolds == ASSUME m_timeouts > 0 PROVE SafetySpec => []OneContinuation
<1>1. ASSUME IInv PROVE OneContinuation
  <2> SUFFICES ASSUME NEW c \in created \ Oversize
               PROVE  IF Allowed(c)
                      THEN /\ Cardinality(Continuations(tcp[c])) <= 1
                           /\ ~Closed(c) => Continuations(tcp[c]) # {}
                           /\ spamd_wait_timer[c] = "off"
                      ELSE Continuations(tcp[c]) = {} /\ spamd_wait_timer[c] # "off"
      BY DEF OneContinuation
  <2>1. c \in Clients /\ ClientInv(c)
      BY <1>1 DEF IInv, ClientTypes
  <2>2. /\ tcp[c]["conn"] = tcp[c].conn
        /\ tcp[c]["rd"] = tcp[c].rd
        /\ tcp[c]["wr"] = tcp[c].wr
      OBVIOUS
  <2>3. CASE Allowed(c)
    <3>1. ScanInv(tcp[c]) /\ spamd_wait_timer[c] = "off"
        BY <2>1, <2>3 DEF ClientInv, AllowInv
    <3>2. \E op \in {"conn", "rd", "wr"} : Continuations(tcp[c]) \subseteq {op}
      <4>1. CASE tcp[c].conn # "none"
          BY <2>2, <3>1, <4>1 DEF Continuations, ScanInv, OneAtATime
      <4>2. CASE tcp[c].conn = "none" /\ tcp[c].rd # "none"
          BY <2>2, <3>1, <4>2 DEF Continuations, ScanInv, OneAtATime
      <4>3. CASE tcp[c].conn = "none" /\ tcp[c].rd = "none"
          BY <2>2, <4>3 DEF Continuations
      <4> QED
          BY <4>1, <4>2, <4>3
    <3>3. Cardinality(Continuations(tcp[c])) <= 1
      <4>1. PICK op \in {"conn", "rd", "wr"} : Continuations(tcp[c]) \subseteq {op}
          BY <3>2
      <4>2. Continuations(tcp[c]) = {} \/ Continuations(tcp[c]) = {op}
          BY <4>1
      <4>3. Cardinality({}) = 0 /\ Cardinality({op}) = 1
          BY FS_EmptySet, FS_Singleton
      <4> QED
          BY <4>2, <4>3
    <3>4. ~Closed(c) => Continuations(tcp[c]) # {}
        BY <2>2, <3>1 DEF Continuations, ScanInv, LiveOrClosed, NoOperation, Closed
    <3> QED
        BY <2>3, <3>1, <3>3, <3>4
  <2>4. CASE ~Allowed(c)
    <3>1. NoOperation(tcp[c]) /\ spamd_wait_timer[c] # "off"
        BY <2>1, <2>4 DEF ClientInv, WaitInv, Unstarted
    <3>2. Continuations(tcp[c]) = {}
        BY <2>2, <3>1 DEF Continuations, NoOperation
    <3> QED
        BY <2>4, <3>1, <3>2
  <2> QED
      BY <2>3, <2>4
<1> QED
    BY <1>1, SpecInv, PTL

(* NoReopen: a closed session is never brought back, though the connect    *)
(* handler sets the status to NORMAL without a test.                       *)
THEOREM NoReopenHolds == ASSUME m_timeouts > 0 PROVE SafetySpec => NoReopen
<1>1. ASSUME IInv, [Next]_vars PROVE [\A c \in Clients : Closed(c) => Closed(c)']_vars
  <2>1. ASSUME NEW c \in Clients, NEW d \in Clients, Closed(d),
               \/ Allowed(c) /\ (\E t, n, r : ScanStep(c, t, n, r))
               \/ BypassStep(c) \/ WaitStep(c) \/ StartStep(c) \/ IdleSecond(c)
        PROVE  Closed(d)'
    <3>1. CASE \E t, n, r : ScanStep(c, t, n, r)
        BY <1>1, <2>1, <3>1 DEF IInv, ClientTypes, ScanStep, Closed, IsClosed
    <3>2. CASE BypassStep(c) \/ WaitStep(c) \/ StartStep(c) \/ IdleSecond(c)
        BY <1>1, <2>1, <3>2
        DEF IInv, ClientTypes, ClientInv, WaitInv, Unstarted, BypassStep, WaitStep,
            StartStep, IdleSecond, Tick, StartConnect, AsyncTcpClients, Closed, IsClosed
    <3> QED
        BY <2>1, <3>1, <3>2
  <2> QED
      BY <1>1, <2>1, ClientSteps DEF Next
<1> QED
    BY <1>1, SpecInv, PTL DEF SafetySpec, NoReopen

----------------------------------------------------------------------------
(* SpamdClient implements ScanJob, on the inductive invariant and the      *)
(* kinds of steps above.                                                   *)

(* The phase of a job. *)
LEMMA JobPhase ==
  ASSUME IInv, NEW c \in Clients
  PROVE  /\ c \notin created => jobState[c] = "new"
         /\ c \in created /\ c \in Oversize => jobState[c] = "finished"
         /\ Allowed(c) /\ ~Closed(c) => jobState[c] = "scanning"
         /\ Allowed(c) /\ Closed(c) => jobState[c] = "finished"
         /\ c \in created /\ c \notin Oversize /\ ~Allowed(c) => jobState[c] = "waiting"
<1>1. /\ Allowed(c) => c \in created /\ c \notin Oversize
      /\ ~Allowed(c) => ~Closed(c)
    BY DEF IInv, ClientInv, NewInv, OversizeInv, WaitInv, Unstarted, Closed
<1> QED
    BY <1>1 DEF jobState

(* The copies of a job. *)
LEMMA JobCopies ==
  ASSUME NEW c \in Clients
  PROVE  /\ relayed[c] = <<>> => jobCopies[c] = {}
         /\ relayed[c] = <<"raw">> => jobCopies[c] = {"raw"}
         /\ relayed[c] = <<"scanned">> => jobCopies[c] = {"scanned"}
<1>1. jobCopies[c] = {relayed[c][i] : i \in DOMAIN relayed[c]}
    BY DEF jobCopies
<1>2. ASSUME NEW x, relayed[c] = <<x>> PROVE jobCopies[c] = {x}
    BY <1>1, <1>2
<1>3. relayed[c] = <<>> => jobCopies[c] = {}
    BY <1>1
<1> QED
    BY <1>2, <1>3

(* The jobs that scan hold the slots. *)
LEMMA ScanningSlots == ASSUME IInv PROVE Job!Scanning = slots
<1>1. ASSUME NEW c \in Clients PROVE jobState[c] = "scanning" <=> c \in slots
  <2>1. Allowed(c) => c \in created /\ c \notin Oversize
      BY DEF IInv, ClientInv, NewInv, OversizeInv
  <2> QED
      BY <2>1, JobPhase DEF slots
<1> QED
    BY <1>1 DEF Job!Scanning, slots

(* A step of one client moves that client's job alone. *)
LEMMA OneJob ==
  ASSUME NEW c \in Clients,
         \A d \in Clients \ {c} : jobState'[d] = jobState[d] /\ jobCopies'[d] = jobCopies[d]
  PROVE  /\ jobState' = [jobState EXCEPT ![c] = jobState'[c]]
         /\ jobCopies' = [jobCopies EXCEPT ![c] = jobCopies'[c]]
         /\ jobState'[c] = jobState[c] => jobState' = jobState
         /\ jobCopies'[c] = jobCopies[c] => jobCopies' = jobCopies
<1>1. /\ jobState = [d \in Clients |-> jobState[d]]
      /\ jobState' = [d \in Clients |-> jobState'[d]]
      /\ jobCopies = [d \in Clients |-> jobCopies[d]]
      /\ jobCopies' = [d \in Clients |-> jobCopies'[d]]
    BY DEF jobState, jobCopies
<1> QED
    BY <1>1

LEMMA OtherJobs ==
  ASSUME IInv, NEW c \in Clients,
         \/ \E t, n, r : ScanStep(c, t, n, r)
         \/ BypassStep(c) \/ WaitStep(c) \/ StartStep(c) \/ IdleSecond(c),
         NEW d \in Clients \ {c}
  PROVE  jobState'[d] = jobState[d] /\ jobCopies'[d] = jobCopies[d]
<1>1. /\ tcp'[d] = tcp[d] /\ m_wait_status'[d] = m_wait_status[d]
      /\ relayed'[d] = relayed[d] /\ (d \in created' <=> d \in created)
    BY DEF IInv, ClientTypes, ScanStep, BypassStep, WaitStep, StartStep, IdleSecond
<1> QED
    BY <1>1 DEF jobState, jobCopies, Allowed, Closed

----------------------------------------------------------------------------

(* A scan goes on, finishes with or without a copy, or relays late. *)
LEMMA ScanStepJob ==
  ASSUME IInv, IInv', NEW c \in Clients, Allowed(c),
         NEW t, NEW n, NEW r, ScanStep(c, t, n, r)
  PROVE  [Job!Next]_<<jobState, jobCopies>>
<1>1. /\ Allowed(c)' /\ c \in created /\ c \in created' /\ c \notin Oversize
      /\ Closed(c)' <=> IsClosed(t)
      /\ relayed'[c] = r
      /\ relayed[c] \in {<<>>, <<"scanned">>}
    BY DEF IInv, ClientTypes, ClientInv, NewInv, OversizeInv, AllowInv, ScanStep,
           Allowed, Closed, IsClosed
<1>2. /\ jobState' = [jobState EXCEPT ![c] = jobState'[c]]
      /\ jobCopies' = [jobCopies EXCEPT ![c] = jobCopies'[c]]
      /\ jobState'[c] = jobState[c] => jobState' = jobState
      /\ jobCopies'[c] = jobCopies[c] => jobCopies' = jobCopies
    BY OtherJobs, OneJob
<1>3. (jobCopies[c] = {} /\ relayed[c] = <<>>) \/ relayed[c] = <<"scanned">>
    BY <1>1, JobCopies
<1>4. /\ Closed(c) => jobState[c] = "finished"
      /\ ~Closed(c) => jobState[c] = "scanning"
    BY JobPhase
<1>5. /\ IsClosed(t) => jobState'[c] = "finished"
      /\ ~IsClosed(t) => jobState'[c] = "scanning"
    BY <1>1 DEF jobState
<1>6. r = relayed[c] => jobCopies'[c] = jobCopies[c]
    BY <1>1 DEF jobCopies
<1>7. r # relayed[c] => /\ relayed[c] = <<>> /\ jobCopies[c] = {}
                       /\ jobCopies'[c] = {"scanned"}
  <2>1. r # relayed[c] => relayed[c] = <<>> /\ r = <<"scanned">>
      BY DEF ScanStep
  <2>2. r = <<"scanned">> => jobCopies'[c] = {"scanned"}
      BY <1>1 DEF jobCopies
  <2> QED
      BY <1>3, <2>1, <2>2
<1>8. /\ Closed(c) => IsClosed(t)
      /\ r # relayed[c] => IsClosed(t)
  <2>1. ScanInv(t) /\ (NoOperation(t) \/ r = <<>>)
      BY DEF ScanStep
  <2>2. r # relayed[c] => r # <<>>
      BY DEF ScanStep
  <2> QED
      BY <2>1, <2>2 DEF ScanStep, ScanInv, LiveOrClosed
<1>9. CASE jobState'[c] = jobState[c] /\ r = relayed[c]
    BY <1>2, <1>6, <1>9
<1>10. CASE Closed(c) /\ r # relayed[c]
  <2>1. Job!RelayLate(c)
      BY <1>1, <1>2, <1>4, <1>5, <1>7, <1>8, <1>10 DEF Job!RelayLate
  <2> QED
      BY <2>1 DEF Job!Next
<1>11. CASE ~Closed(c) /\ IsClosed(t)
  <2>1. jobState' = [jobState EXCEPT ![c] = "finished"]
      BY <1>2, <1>5, <1>11
  <2>2. jobCopies' = [jobCopies EXCEPT ![c] = {"scanned"}] \/ jobCopies' = jobCopies
      BY <1>2, <1>6, <1>7
  <2>3. Job!Finish(c)
      BY <1>4, <1>11, <2>1, <2>2 DEF Job!Finish, Job!Goto
  <2> QED
      BY <2>3 DEF Job!Next
<1> QED
    BY <1>4, <1>5, <1>8, <1>9, <1>10, <1>11

(* An oversize mail goes past; a small one waits while every slot is       *)
(* taken, and starts when one is free. *)
LEMMA WaitingStepJob ==
  ASSUME IInv, IInv', NEW c \in Clients,
         BypassStep(c) \/ WaitStep(c) \/ StartStep(c) \/ IdleSecond(c)
  PROVE  [Job!Next]_<<jobState, jobCopies>>
<1>1. /\ jobState' = [jobState EXCEPT ![c] = jobState'[c]]
      /\ jobCopies' = [jobCopies EXCEPT ![c] = jobCopies'[c]]
      /\ jobState'[c] = jobState[c] => jobState' = jobState
      /\ jobCopies'[c] = jobCopies[c] => jobCopies' = jobCopies
    BY OtherJobs, OneJob
<1>2. /\ Job!Scanning = slots
      /\ Cardinality(slots) = m_proc_num
      /\ Cardinality(slots) <= conf_spamd_max_session
    BY ScanningSlots DEF IInv, SlotsExact
<1>3. CASE BypassStep(c)
  <2>1. jobState[c] = "new"
      BY <1>3, JobPhase DEF BypassStep
  <2>2. jobState'[c] = "finished"
      BY <1>3 DEF BypassStep, jobState
  <2>3. relayed'[c] = <<"raw">>
      BY <1>3 DEF BypassStep, IInv, ClientTypes
  <2>4. jobCopies'[c] = {"raw"}
    <3>1. jobCopies'[c] = {relayed'[c][i] : i \in DOMAIN relayed'[c]}
        BY DEF jobCopies
    <3> QED
        BY <2>3, <3>1
  <2>5. Job!Bypass(c)
      BY <1>1, <1>3, <2>1, <2>2, <2>4 DEF BypassStep, Job!Bypass, Job!Goto
  <2> QED
      BY <2>5 DEF Job!Next
<1>4. CASE WaitStep(c)
  <2>1. ~Allowed(c) /\ ~Allowed(c)' /\ ~Closed(c) /\ ~Closed(c)'
      BY <1>4 DEF IInv, ClientInv, WaitInv, Unstarted, WaitStep, Allowed, Closed
  <2>2. jobState'[c] = "waiting" /\ jobCopies'[c] = jobCopies[c]
      BY <1>4, <2>1 DEF WaitStep, jobState, jobCopies
  <2>3. CASE c \in created
    <3>1. jobState[c] = "waiting"
        BY <1>4, <2>1, <2>3, JobPhase DEF WaitStep
    <3> QED
        BY <1>1, <2>2, <3>1
  <2>4. CASE c \notin created
    <3>1. jobState[c] = "new"
        BY <2>4, JobPhase
    <3>2. Cardinality(Job!Scanning) = conf_spamd_max_session
        BY <1>2, <1>4, <2>4, SlotsFinite, MaxSessionAssumption DEF WaitStep, IsNeedWait
    <3>3. Job!Wait(c)
        BY <1>1, <1>4, <2>2, <3>1, <3>2
        DEF WaitStep, Job!Wait, Job!Goto, Job!Cardinality, Cardinality
    <3> QED
        BY <3>3 DEF Job!Next
  <2> QED
      BY <2>3, <2>4
<1>5. CASE StartStep(c)
  <2>1. ~Allowed(c) /\ ~Closed(c)
      BY <1>5 DEF IInv, ClientInv, WaitInv, Unstarted, StartStep, Closed
  <2>2. jobState[c] \in {"new", "waiting"}
      BY <1>5, <2>1, JobPhase DEF StartStep
  <2>3. Allowed(c)' /\ ~Closed(c)' /\ c \in created'
    <3>1. ~IsClosed(StartConnect(tcp[c]))
        BY <1>5, StartScan DEF IInv, ClientTypes, ClientInv, WaitInv, StartStep
    <3> QED
        BY <1>5, <3>1 DEF IInv, ClientTypes, StartStep, Allowed, Closed
  <2>4. jobState'[c] = "scanning" /\ jobCopies'[c] = jobCopies[c]
      BY <1>5, <2>3 DEF StartStep, jobState, jobCopies
  <2>5. Cardinality(Job!Scanning) < conf_spamd_max_session
      BY <1>2, <1>5, SlotsFinite, MaxSessionAssumption DEF StartStep, IsNeedWait
  <2>6. Job!Start(c)
      BY <1>1, <1>5, <2>2, <2>4, <2>5
      DEF StartStep, Job!Start, Job!Goto, Job!Cardinality, Cardinality
  <2> QED
      BY <2>6 DEF Job!Next
<1>6. CASE IdleSecond(c)
  <2>1. /\ Allowed(c)' <=> Allowed(c)
        /\ Closed(c)' <=> Closed(c)
        /\ UNCHANGED <<created, relayed>>
      BY <1>6 DEF IInv, ClientTypes, ClientInv, WaitInv, Unstarted, IdleSecond, Tick,
                  AsyncTcpClients, Allowed, Closed, IsClosed
  <2>2. jobState'[c] = jobState[c] /\ jobCopies'[c] = jobCopies[c]
      BY <2>1 DEF jobState, jobCopies
  <2> QED
      BY <1>1, <2>2
<1> QED
    BY <1>3, <1>4, <1>5, <1>6

(* ImplementsScanJob: each mail goes through the phases of an abstract     *)
(* scan job, waiting only while every slot is taken and scanning only with *)
(* a slot, and leaves at most one copy.                                    *)
THEOREM RefinesScanJob == ASSUME m_timeouts > 0 PROVE SafetySpec => ImplementsScanJob
<1>1. Init => Job!Init
    BY DEF Init, Job!Init, jobState, jobCopies
<1>2. ASSUME IInv, IInv', [Next]_vars PROVE [Job!Next]_<<jobState, jobCopies>>
  <2>1. CASE Next
    <3>1. PICK c \in Clients : \/ Create(c) \/ Handler(c) \/ ConnectionAnswers(c)
                               \/ PeerAnswers(c) \/ Clock(c)
        BY <2>1 DEF Next
    <3> QED
        BY <1>2, <3>1, ClientSteps, ScanStepJob, WaitingStepJob
  <2>2. CASE UNCHANGED vars
      BY <2>2 DEF vars, jobState, jobCopies, Allowed, Closed
  <2> QED
      BY <1>2, <2>1, <2>2
<1> QED
    BY <1>1, <1>2, SpecInv, PTL DEF SafetySpec, ImplementsScanJob, Job!Spec
=============================================================================

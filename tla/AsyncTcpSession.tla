-------------------------- MODULE AsyncTcpSession --------------------------
(***************************************************************************)
(* async_tcp_session (asio_async_tcp_server_template.hpp): one accepted    *)
(* connection as a record.  Operations and timers are as in                *)
(* AsyncTcpClient; there is no connect phase, and the socket is open until *)
(* close_tcp_session.                                                      *)
(***************************************************************************)
EXTENDS Naturals

CONSTANT conf_session_timeout

ASSUME SessionTimeoutAssumption == conf_session_timeout \in Nat

Operations == {"none", "pending", "ok", "error"}
Timers == {"off", "armed", "fired"}

AsyncTcpSessions ==
  [n_socket_status : {"NORMAL", "CLOSED"},
   rd              : Operations,
   wr              : Operations,
   io_timer        : Timers,
   elapsed         : 0 .. conf_session_timeout + 1]

(* The session that start_accept constructs. *)
NewSession == [n_socket_status |-> "NORMAL", rd |-> "none", wr |-> "none",
               io_timer |-> "off", elapsed |-> 0]

IsClosed(t) == t.n_socket_status = "CLOSED"

IoTimerCallAt(t) == [t EXCEPT !.io_timer = "armed"]

(* Mutant: the timer that watches the peer is not started. *)
StartWithoutTimer(t) == [t EXCEPT !.elapsed = 0]

(* start, before handle_protocol_connected. *)
Start(t) == IoTimerCallAt([t EXCEPT !.elapsed = 0])

Started(t) == IF IsClosed(t) THEN "error" ELSE "pending"
AsyncRecv(t) == [t EXCEPT !.rd = Started(t), !.elapsed = 0]
AsyncSend(t) == [t EXCEPT !.wr = Started(t), !.elapsed = 0]

Cancel(timer) == IF timer = "armed" THEN "fired" ELSE timer
Abort(op) == IF op = "pending" THEN "error" ELSE op

(* close_tcp_session, without handle_protocol_closed. *)
Close(t) ==
  IF IsClosed(t) THEN t
  ELSE [t EXCEPT !.n_socket_status = "CLOSED", !.io_timer = Cancel(@),
                 !.rd = Abort(@), !.wr = Abort(@)]

(* Mutant: handle_tcp_read does not restart the clock. *)
ReadDoneLate(t) == [t EXCEPT !.rd = "none", !.elapsed = @ + 1]

(* handle_tcp_read and handle_tcp_write up to the protocol's handler. *)
ReadDone(t) == [t EXCEPT !.rd = "none", !.elapsed = 0]
WriteDone(t) == [t EXCEPT !.wr = "none", !.elapsed = 0]
IoTimerDone(t) == [t EXCEPT !.io_timer = "off"]

(* A second passes; beyond conf_session_timeout + 1 more time makes no     *)
(* difference.                                                             *)
CanTick(t) == ~IsClosed(t) /\ t.elapsed <= conf_session_timeout
Tick(t) == [t EXCEPT !.elapsed = @ + 1]
=============================================================================

-------------------------- MODULE AsyncTcpClient --------------------------
(***************************************************************************)
(* async_tcp_client (asio_async_tcp_client_template.hpp): one outgoing     *)
(* connection as a record, and one operator per method that changes it.    *)
(*                                                                         *)
(* A started operation is "pending"; boost::asio completes it with a       *)
(* result, "ok" or "error", which stays queued until a worker thread runs  *)
(* its handler.  A timer is "armed" while it waits and "fired" while its   *)
(* handler is queued: expiry and cancel() both queue it, and the handlers  *)
(* of this class do not look at the error code that tells them apart.      *)
(***************************************************************************)
EXTENDS Naturals

CONSTANTS m_timeouts,   \* seconds without action after which a session is closed
          MaxElapsed    \* bound: seconds counted

ASSUME TimeoutsAssumption ==
  m_timeouts \in Nat /\ MaxElapsed \in Nat /\ m_timeouts < MaxElapsed

(* "starting": the connect timer is armed and async_connect is not called  *)
(* yet.                                                                    *)
ConnectStates == {"none", "starting", "pending", "ok", "error"}
Operations == {"none", "pending", "ok", "error"}
Timers == {"off", "armed", "fired"}

AsyncTcpClients ==
  [n_socket_status : {"NORMAL", "CLOSED"},
   is_open         : BOOLEAN,           \* m_socket.is_open()
   conn            : ConnectStates,     \* async_connect
   rd              : Operations,        \* async_read_some
   wr              : Operations,        \* async_write_some
   io_timer        : Timers,
   connect_timer   : Timers,
   elapsed         : 0 .. MaxElapsed]   \* m_last_action_time_sec.elapsed()

(* The constructor. *)
NewClient == [n_socket_status |-> "NORMAL", is_open |-> FALSE,
              conn |-> "none", rd |-> "none", wr |-> "none",
              io_timer |-> "off", connect_timer |-> "off", elapsed |-> 0]

IsClosed(t) == t.n_socket_status = "CLOSED"

(* async_start_connect up to the call of async_connect. *)
StartConnect(t) ==
  [t EXCEPT !.conn = "starting", !.elapsed = 0, !.connect_timer = "armed"]

(* async_connect opens the socket first; when that fails the handler is    *)
(* queued at once with an error.                                           *)
AsyncConnect(t, opened) ==
  [t EXCEPT !.is_open = opened, !.conn = IF opened THEN "pending" ELSE "error"]

(* An operation on a closed socket completes at once with an error. *)
Started(t) == IF t.is_open THEN "pending" ELSE "error"
AsyncRecv(t) == [t EXCEPT !.rd = Started(t), !.elapsed = 0]
AsyncSend(t) == [t EXCEPT !.wr = Started(t), !.elapsed = 0]

IoTimerCallAt(t) == [t EXCEPT !.io_timer = "armed"]

Cancel(timer) == IF timer = "armed" THEN "fired" ELSE timer
Abort(op) == IF op = "pending" THEN "error" ELSE op

(* close_tcp_session without handle_protocol_closed, which its callers add *)
(* when the session was not closed before.                                 *)
Close(t) ==
  IF IsClosed(t) THEN t
  ELSE [t EXCEPT !.n_socket_status = "CLOSED", !.is_open = FALSE,
                 !.conn = Abort(@), !.rd = Abort(@), !.wr = Abort(@),
                 !.io_timer = Cancel(@), !.connect_timer = Cancel(@)]

(* handle_tcp_once_connect without error, before the protocol's handlers. *)
Connected(t) == [t EXCEPT !.n_socket_status = "NORMAL", !.elapsed = 0]

(* boost::asio completes a pending operation; a timer expires.  The        *)
(* connect timer waits m_timeouts seconds from StartConnect, and elapsed   *)
(* counts from there until the connect handler runs.                       *)
ConnectCompletes(t, result) == [t EXCEPT !.conn = result]
ReadCompletes(t, result) == [t EXCEPT !.rd = result]
WriteCompletes(t, result) == [t EXCEPT !.wr = result]
ConnectTimerDue(t) ==
  /\ t.connect_timer = "armed"
  /\ t.conn # "none" => t.elapsed >= m_timeouts

(* A second passes, outside the few instructions between StartConnect and  *)
(* AsyncConnect; when every timeout is over more time makes no difference. *)
CanTick(t) == ~IsClosed(t) /\ t.conn # "starting" /\ t.elapsed < MaxElapsed
Tick(t) == [t EXCEPT !.elapsed = @ + 1]

(* The operations that will still run a handler of the protocol. *)
Continuations(t) == {op \in {"conn", "rd", "wr"} : t[op] # "none"}

(* Nothing refers to the object any more: no operation and no timer. *)
Idle(t) == Continuations(t) = {} /\ t.io_timer = "off" /\ t.connect_timer = "off"
=============================================================================

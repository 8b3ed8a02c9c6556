--------------------------- MODULE ScannerProofs ---------------------------
(***************************************************************************)
(* Proofs about Scanner, for any sessions, mails, number of slots and      *)
(* timeout.  The invariant is one formula about each session: of read,     *)
(* write and held reply it has at most one, and it has one while it is     *)
(* open; a reply is held exactly while its wait timer runs or the timer's  *)
(* handler stands between its two steps; and an open session's mail that   *)
(* waits for a slot is the one whose reply is held.                        *)
(***************************************************************************)
EXTENDS Scanner, FiniteSetTheorems, TLAPS

AtMostOne(s) == /\ tcp[s].rd # "none" => tcp[s].wr = "none" /\ ~ReplyHeld(s)
                /\ tcp[s].wr # "none" => ~ReplyHeld(s)
GoesOn(s) == s \in accepted /\ ~Closed(s) =>
               tcp[s].rd # "none" \/ tcp[s].wr # "none" \/ ReplyHeld(s)
NotYet(s) == s \notin accepted => tcp[s] = NewSession /\ ~ReplyHeld(s)

(* The test of m_b_exit and the rest are of one run of the timer's handler. *)
Timed(s) == /\ ReplyHeld(s) <=> (smtp_wait_timer[s] # "off" \/ exit_checked[s])
            /\ exit_checked[s] => smtp_wait_timer[s] = "off"
ExitKnown(s) == m_b_exit[s] <=> Closed(s)
WaitingHeld(s) ==
  \A m \in Mails : sender[m] = s /\ state[m] = "waiting" /\ ~Closed(s)
                     => spamd_client_ptr[s] = m

SessionInv(s) == /\ AtMostOne(s) /\ GoesOn(s) /\ NotYet(s)
                 /\ Timed(s) /\ ExitKnown(s) /\ WaitingHeld(s)

IInv == TypeOK /\ \A s \in Sessions : SessionInv(s)

(* What one session's step leaves alone. *)
MailsKept(q) == \A m \in Mails : sender'[m] = q /\ state'[m] = "waiting"
                                   => sender[m] = q /\ state[m] = "waiting"
Untouched(q) == /\ tcp'[q] = tcp[q]
                /\ q \in accepted' <=> q \in accepted
                /\ m_b_exit'[q] = m_b_exit[q]
                /\ smtp_wait_timer'[q] = smtp_wait_timer[q]
                /\ spamd_client_ptr'[q] = spamd_client_ptr[q]
                /\ exit_checked'[q] = exit_checked[q]
Others(s) == \A q \in Sessions \ {s} : Untouched(q) /\ MailsKept(q)

----------------------------------------------------------------------------
(* One connection. *)

(* The methods of async_tcp_session, and what they leave. *)
LEMMA ConnectionTypes ==
  ASSUME NEW t \in AsyncTcpSessions
  PROVE  /\ Start(t) \in AsyncTcpSessions /\ IoTimerCallAt(t) \in AsyncTcpSessions
         /\ AsyncRecv(t) \in AsyncTcpSessions /\ AsyncSend(t) \in AsyncTcpSessions
         /\ ReadDone(t) \in AsyncTcpSessions /\ WriteDone(t) \in AsyncTcpSessions
         /\ IoTimerDone(t) \in AsyncTcpSessions /\ Close(t) \in AsyncTcpSessions
<1>1. 0 \in 0 .. conf_session_timeout + 1
    BY SessionTimeoutAssumption
<1>2. /\ Started(t) \in Operations
      /\ Abort(t.rd) \in Operations /\ Abort(t.wr) \in Operations
      /\ Cancel(t.io_timer) \in Timers
    BY DEF Started, Abort, Cancel, Operations, Timers, AsyncTcpSessions
<1>3. AsyncRecv(t) \in AsyncTcpSessions /\ AsyncSend(t) \in AsyncTcpSessions
    BY <1>1, <1>2 DEF AsyncRecv, AsyncSend, AsyncTcpSessions
<1>4. Close(t) \in AsyncTcpSessions
    BY <1>2 DEF Close, AsyncTcpSessions
<1>5. Start(t) \in AsyncTcpSessions /\ IoTimerCallAt(t) \in AsyncTcpSessions
      /\ IoTimerDone(t) \in AsyncTcpSessions
    BY <1>1 DEF Start, IoTimerCallAt, IoTimerDone, AsyncTcpSessions, Timers
<1>6. ReadDone(t) \in AsyncTcpSessions /\ WriteDone(t) \in AsyncTcpSessions
    BY <1>1 DEF ReadDone, WriteDone, AsyncTcpSessions, Operations
<1> QED
    BY <1>3, <1>4, <1>5, <1>6

LEMMA ConnectionFields ==
  ASSUME NEW t \in AsyncTcpSessions
  PROVE  /\ AsyncRecv(t).rd \in {"pending", "error"} /\ AsyncSend(t).wr \in {"pending", "error"}
         /\ AsyncRecv(t).wr = t.wr /\ AsyncSend(t).rd = t.rd
         /\ IsClosed(AsyncRecv(t)) <=> IsClosed(t)
         /\ IsClosed(AsyncSend(t)) <=> IsClosed(t)
         /\ ReadDone(t).rd = "none" /\ ReadDone(t).wr = t.wr
         /\ IsClosed(ReadDone(t)) <=> IsClosed(t)
         /\ WriteDone(t).wr = "none" /\ WriteDone(t).rd = t.rd
         /\ IsClosed(WriteDone(t)) <=> IsClosed(t)
         /\ IsClosed(Close(t))
         /\ Close(t).rd = "none" <=> t.rd = "none"
         /\ Close(t).wr = "none" <=> t.wr = "none"
<1>1. Started(t) \in {"pending", "error"}
    BY DEF Started
<1>2. /\ AsyncRecv(t).rd \in {"pending", "error"} /\ AsyncSend(t).wr \in {"pending", "error"}
      /\ AsyncRecv(t).wr = t.wr /\ AsyncSend(t).rd = t.rd
      /\ IsClosed(AsyncRecv(t)) <=> IsClosed(t)
      /\ IsClosed(AsyncSend(t)) <=> IsClosed(t)
    BY <1>1 DEF AsyncRecv, AsyncSend, IsClosed, AsyncTcpSessions
<1>3. /\ ReadDone(t).rd = "none" /\ ReadDone(t).wr = t.wr
      /\ IsClosed(ReadDone(t)) <=> IsClosed(t)
      /\ WriteDone(t).wr = "none" /\ WriteDone(t).rd = t.rd
      /\ IsClosed(WriteDone(t)) <=> IsClosed(t)
    BY DEF ReadDone, WriteDone, IsClosed, AsyncTcpSessions
<1>4. /\ IsClosed(Close(t))
      /\ Close(t).rd = "none" <=> t.rd = "none"
      /\ Close(t).wr = "none" <=> t.wr = "none"
    BY DEF Close, IsClosed, Abort, AsyncTcpSessions
<1> QED
    BY <1>2, <1>3, <1>4

(* Timers and the clock touch nothing else. *)
LEMMA TimerFields ==
  ASSUME NEW t \in AsyncTcpSessions
  PROVE  /\ \A timer \in Timers :
              LET u == [t EXCEPT !.io_timer = timer]
              IN  u \in AsyncTcpSessions /\ u.rd = t.rd /\ u.wr = t.wr
                  /\ (IsClosed(u) <=> IsClosed(t))
         /\ CanTick(t) =>
              /\ Tick(t) \in AsyncTcpSessions /\ Tick(t).rd = t.rd /\ Tick(t).wr = t.wr
              /\ IsClosed(Tick(t)) <=> IsClosed(t)
<1>1. ASSUME NEW timer \in Timers
      PROVE  LET u == [t EXCEPT !.io_timer = timer]
             IN  u \in AsyncTcpSessions /\ u.rd = t.rd /\ u.wr = t.wr
                 /\ (IsClosed(u) <=> IsClosed(t))
    BY DEF AsyncTcpSessions, IsClosed
<1>2. ASSUME CanTick(t)
      PROVE  /\ Tick(t) \in AsyncTcpSessions /\ Tick(t).rd = t.rd /\ Tick(t).wr = t.wr
             /\ IsClosed(Tick(t)) <=> IsClosed(t)
  <2>1. t.elapsed + 1 \in 0 .. conf_session_timeout + 1
    <3>1. t.elapsed \in 0 .. conf_session_timeout + 1 /\ t.elapsed <= conf_session_timeout
        BY <1>2 DEF CanTick, AsyncTcpSessions
    <3> QED
        BY <3>1, SessionTimeoutAssumption
  <2> QED
      BY <2>1 DEF Tick, AsyncTcpSessions, IsClosed
<1> QED
    BY <1>1, <1>2

----------------------------------------------------------------------------
(* The jobs. *)

JobTypes == /\ state \in [Mails -> {"new", "waiting", "scanning", "finished"}]
            /\ copies \in [Mails -> SUBSET {"raw", "scanned"}]

(* A job's step is its own, and only a new job comes to wait. *)
LEMMA JobStep ==
  ASSUME JobTypes, NEW m \in Mails,
         Job!Bypass(m) \/ Job!Wait(m) \/ Job!Start(m) \/ Job!Finish(m) \/ Job!RelayLate(m)
  PROVE  /\ JobTypes'
         /\ \A k \in Mails \ {m} : state'[k] = state[k]
         /\ state'[m] = "waiting" => state[m] = "new"
<1>1. CASE Job!Bypass(m)
    BY <1>1 DEF Job!Bypass, Job!Goto, JobTypes
<1>2. CASE Job!Wait(m)
    BY <1>2 DEF Job!Wait, Job!Goto, JobTypes
<1>3. CASE Job!Start(m)
    BY <1>3 DEF Job!Start, Job!Goto, JobTypes
<1>4. CASE Job!Finish(m)
    BY <1>4 DEF Job!Finish, Job!Goto, JobTypes
<1>5. CASE Job!RelayLate(m)
    BY <1>5 DEF Job!RelayLate, JobTypes
<1> QED
    BY <1>1, <1>2, <1>3, <1>4, <1>5

----------------------------------------------------------------------------
(* Each step of a session. *)

(* A session's step keeps the invariant of the others. *)
LEMMA OthersKeep ==
  ASSUME \A q \in Sessions : SessionInv(q), NEW s \in Sessions, Others(s), SessionInv(s)'
  PROVE  \A q \in Sessions : SessionInv(q)'
<1> SUFFICES ASSUME NEW q \in Sessions, q # s PROVE SessionInv(q)'
    OBVIOUS
<1>1. Untouched(q) /\ MailsKept(q) /\ SessionInv(q)
    BY DEF Others
<1>2. AtMostOne(q)' /\ GoesOn(q)' /\ NotYet(q)'
    BY <1>1 DEF SessionInv, AtMostOne, GoesOn, NotYet, ReplyHeld, Closed, Untouched
<1>3. Timed(q)' /\ ExitKnown(q)' /\ WaitingHeld(q)'
    BY <1>1 DEF SessionInv, Timed, ExitKnown, WaitingHeld, ReplyHeld, Closed, Untouched,
                MailsKept
<1> QED
    BY <1>2, <1>3 DEF SessionInv

(* What an assignment to one session's connection does. *)
LEMMA Updated ==
  ASSUME TypeOK, NEW s \in Sessions, NEW t \in AsyncTcpSessions, Update(s, t)
  PROVE  /\ tcp' \in [Sessions -> AsyncTcpSessions] /\ tcp'[s] = t
         /\ \A q \in Sessions \ {s} : tcp'[q] = tcp[q]
BY DEF Update, TypeOK

(* close_tcp_session: what is queued still runs, and then finds m_b_exit. *)
LEMMA CloseKeeps ==
  ASSUME IInv, NEW s \in Sessions, NEW t \in AsyncTcpSessions,
         s \in accepted,
         IsClosed(t) <=> IsClosed(tcp[s]),
         \/ t.rd = "none" /\ t.wr = "none" /\ ~ReplyHeld(s)
         \/ t.rd = tcp[s].rd /\ t.wr = tcp[s].wr,
         CloseTcpSession(s, t),
         UNCHANGED <<accepted, quit, spamd_client_ptr, exit_checked, sender, state, copies>>
  PROVE  TypeOK' /\ Others(s) /\ SessionInv(s)'
<1>1. TypeOK /\ SessionInv(s)
    BY DEF IInv
<1>2. Update(s, Close(t)) /\ Close(t) \in AsyncTcpSessions
    BY ConnectionTypes DEF CloseTcpSession
<1>3. /\ tcp' \in [Sessions -> AsyncTcpSessions] /\ tcp'[s] = Close(t)
      /\ \A q \in Sessions \ {s} : tcp'[q] = tcp[q]
    BY <1>1, <1>2, Updated
<1>4. /\ m_b_exit' \in [Sessions -> BOOLEAN] /\ m_b_exit'[s] = TRUE
      /\ smtp_wait_timer' \in [Sessions -> Timers]
      /\ smtp_wait_timer'[s] = "off" <=> smtp_wait_timer[s] = "off"
      /\ \A q \in Sessions \ {s} : /\ m_b_exit'[q] = m_b_exit[q]
                                   /\ smtp_wait_timer'[q] = smtp_wait_timer[q]
  <2>1. CASE IsClosed(t)
      BY <1>1, <2>1 DEF CloseTcpSession, SessionInv, ExitKnown, Closed, TypeOK
  <2>2. CASE ~IsClosed(t)
    <3>1. Cancel(smtp_wait_timer[s]) \in Timers
          /\ (Cancel(smtp_wait_timer[s]) = "off" <=> smtp_wait_timer[s] = "off")
        BY <1>1 DEF Cancel, Timers, TypeOK
    <3> QED
        BY <1>1, <2>2, <3>1 DEF CloseTcpSession, TypeOK
  <2> QED
      BY <2>1, <2>2
<1>5. TypeOK'
    BY <1>1, <1>3, <1>4 DEF TypeOK
<1>6. Others(s)
    BY <1>3, <1>4 DEF Others, Untouched, MailsKept
<1>7. /\ IsClosed(tcp'[s])
      /\ tcp'[s].rd = "none" <=> t.rd = "none"
      /\ tcp'[s].wr = "none" <=> t.wr = "none"
    BY <1>3, ConnectionFields
<1>8. SessionInv(s)'
    BY <1>1, <1>4, <1>7
    DEF SessionInv, AtMostOne, GoesOn, NotYet, Timed, ExitKnown, WaitingHeld, ReplyHeld, Closed
<1> QED
    BY <1>5, <1>6, <1>8

(* A session goes on with one operation: it starts one, or nothing of its  *)
(* dialogue changes.                                                       *)
LEMMA ContinueKeeps ==
  ASSUME IInv, NEW s \in Sessions, NEW t \in AsyncTcpSessions,
         s \in accepted,
         IsClosed(t) <=> IsClosed(tcp[s]),
         \/ t.rd # "none" /\ t.wr = "none" /\ ~ReplyHeld(s)
         \/ t.wr # "none" /\ t.rd = "none" /\ ~ReplyHeld(s)
         \/ (t.rd = "none" <=> tcp[s].rd = "none") /\ (t.wr = "none" <=> tcp[s].wr = "none"),
         Continue(s, t), quit' \in SUBSET Sessions,
         UNCHANGED <<accepted, spamd_client_ptr, exit_checked, sender, state, copies>>
  PROVE  TypeOK' /\ Others(s) /\ SessionInv(s)'
<1>1. TypeOK /\ SessionInv(s)
    BY DEF IInv
<1>2. Update(s, t) /\ UNCHANGED <<m_b_exit, smtp_wait_timer>>
    BY DEF Continue
<1>3. /\ tcp' \in [Sessions -> AsyncTcpSessions] /\ tcp'[s] = t
      /\ \A q \in Sessions \ {s} : tcp'[q] = tcp[q]
    BY <1>1, <1>2, Updated
<1>4. TypeOK'
    BY <1>1, <1>2, <1>3 DEF TypeOK
<1>5. Others(s)
    BY <1>2, <1>3 DEF Others, Untouched, MailsKept
<1>6. SessionInv(s)'
    BY <1>1, <1>2, <1>3
    DEF SessionInv, AtMostOne, GoesOn, NotYet, Timed, ExitKnown, WaitingHeld, ReplyHeld, Closed
<1> QED
    BY <1>4, <1>5, <1>6

(* A session that is not accepted has nothing that a handler could take. *)
LEMMA OnlyAccepted ==
  ASSUME IInv, NEW s \in Sessions,
         \/ tcp[s].rd # "none" \/ tcp[s].wr # "none" \/ tcp[s].io_timer # "off"
         \/ smtp_wait_timer[s] # "off" \/ exit_checked[s]
  PROVE  s \in accepted
<1>1. NewSession.rd = "none" /\ NewSession.wr = "none" /\ NewSession.io_timer = "off"
    BY DEF NewSession
<1> QED
    BY <1>1 DEF IInv, SessionInv, NotYet, Timed

(* The acceptor starts a session: it greets. *)
LEMMA AcceptKeeps ==
  ASSUME IInv, NEW s \in Sessions, Accept(s)
  PROVE  TypeOK' /\ Others(s) /\ SessionInv(s)'
<1> DEFINE t == AsyncSend(Start(tcp[s]))
<1>1. TypeOK /\ SessionInv(s) /\ tcp[s] \in AsyncTcpSessions
    BY DEF IInv, TypeOK
<1>2. tcp[s] = NewSession /\ ~ReplyHeld(s) /\ ~IsClosed(tcp[s])
    BY <1>1 DEF Accept, SessionInv, NotYet, NewSession, IsClosed
<1>3. /\ Start(tcp[s]) \in AsyncTcpSessions
      /\ Start(tcp[s]).rd = "none" /\ Start(tcp[s]).wr = "none" /\ ~IsClosed(Start(tcp[s]))
  <2>1. Start(tcp[s]) \in AsyncTcpSessions
      BY <1>1, ConnectionTypes
  <2>2. /\ Start(tcp[s]).rd = tcp[s].rd /\ Start(tcp[s]).wr = tcp[s].wr
        /\ Start(tcp[s]).n_socket_status = tcp[s].n_socket_status
      BY <1>1 DEF Start, IoTimerCallAt, AsyncTcpSessions
  <2> QED
      BY <1>2, <2>1, <2>2 DEF NewSession, IsClosed
<1>4. /\ t \in AsyncTcpSessions /\ t.rd = "none" /\ t.wr # "none" /\ ~IsClosed(t)
    BY <1>3, ConnectionTypes, ConnectionFields
<1> HIDE DEF t
<1>5. /\ Update(s, t) /\ accepted' = accepted \cup {s}
      /\ UNCHANGED <<quit, m_b_exit, smtp_wait_timer, spamd_client_ptr, exit_checked, sender,
                     state, copies>>
    BY DEF Accept, t
<1>6. /\ tcp' \in [Sessions -> AsyncTcpSessions] /\ tcp'[s] = t
      /\ \A q \in Sessions \ {s} : tcp'[q] = tcp[q]
    BY <1>1, <1>4, <1>5, Updated
<1>7. TypeOK'
    BY <1>1, <1>5, <1>6 DEF TypeOK
<1>8. Others(s)
    BY <1>5, <1>6 DEF Others, Untouched, MailsKept
<1>9. SessionInv(s)'
    BY <1>1, <1>2, <1>4, <1>5, <1>6
    DEF SessionInv, AtMostOne, GoesOn, NotYet, Timed, ExitKnown, WaitingHeld, ReplyHeld, Closed
<1> QED
    BY <1>7, <1>8, <1>9

(* The read handler but for a complete mail, the write handler and the     *)
(* session's timer.                                                        *)
LEMMA HandlersKeep ==
  ASSUME IInv, NEW s \in Sessions,
         Command(s) \/ ReadFails(s) \/ HandleWrite(s) \/ HandleIoTimer(s)
  PROVE  TypeOK' /\ Others(s) /\ SessionInv(s)'
<1>1. TypeOK /\ SessionInv(s) /\ tcp[s] \in AsyncTcpSessions
    BY DEF IInv, TypeOK
<1>2. s \in accepted
    BY OnlyAccepted DEF Command, ReadFails, HandleWrite, HandleIoTimer
<1>3. CASE Command(s) \/ ReadFails(s)
  <2> DEFINE t == ReadDone(tcp[s])
  <2>1. tcp[s].rd # "none"
      BY <1>3 DEF Command, ReadFails
  <2>2. tcp[s].wr = "none" /\ ~ReplyHeld(s)
      BY <1>1, <2>1 DEF SessionInv, AtMostOne
  <2>3. /\ t \in AsyncTcpSessions /\ t.rd = "none" /\ t.wr = "none"
        /\ IsClosed(t) <=> IsClosed(tcp[s])
      BY <1>1, <2>2, ConnectionTypes, ConnectionFields
  <2>4. UNCHANGED <<accepted, spamd_client_ptr, exit_checked, sender, state, copies>>
      BY <1>3 DEF Command, ReadFails
  <2>5. CASE ReadFails(s)
    <3>1. CloseTcpSession(s, t) /\ UNCHANGED quit
        BY <2>5 DEF ReadFails
    <3> HIDE DEF t
    <3> QED
        BY <1>2, <2>2, <2>3, <2>4, <3>1, CloseKeeps
  <2>6. CASE Command(s)
    <3>1. quit' \in SUBSET Sessions
        BY <1>1, <2>6 DEF Command, TypeOK
    <3>2. Continue(s, AsyncSend(t)) \/ Continue(s, AsyncRecv(t))
        BY <2>6 DEF Command
    <3> HIDE DEF t
    <3>3. /\ AsyncSend(t) \in AsyncTcpSessions /\ AsyncRecv(t) \in AsyncTcpSessions
        BY <2>3, ConnectionTypes
    <3>4. /\ AsyncSend(t).wr # "none" /\ AsyncSend(t).rd = "none"
          /\ AsyncRecv(t).rd # "none" /\ AsyncRecv(t).wr = "none"
          /\ IsClosed(AsyncSend(t)) <=> IsClosed(tcp[s])
          /\ IsClosed(AsyncRecv(t)) <=> IsClosed(tcp[s])
        BY <2>3, ConnectionFields
    <3>5. CASE Continue(s, AsyncSend(t))
        BY <1>2, <2>2, <2>4, <3>1, <3>3, <3>4, <3>5, ContinueKeeps
    <3>6. CASE Continue(s, AsyncRecv(t))
        BY <1>2, <2>2, <2>4, <3>1, <3>3, <3>4, <3>6, ContinueKeeps
    <3> QED
        BY <3>2, <3>5, <3>6
  <2> QED
      BY <1>3, <2>5, <2>6
<1>4. CASE HandleWrite(s)
  <2> DEFINE t == WriteDone(tcp[s])
  <2>1. tcp[s].wr # "none"
      BY <1>4 DEF HandleWrite
  <2>2. tcp[s].rd = "none" /\ ~ReplyHeld(s)
      BY <1>1, <2>1 DEF SessionInv, AtMostOne
  <2>3. /\ t \in AsyncTcpSessions /\ t.rd = "none" /\ t.wr = "none"
        /\ IsClosed(t) <=> IsClosed(tcp[s])
      BY <1>1, <2>2, ConnectionTypes, ConnectionFields
  <2>4. /\ UNCHANGED <<accepted, quit, spamd_client_ptr, exit_checked, sender, state, copies>>
        /\ CloseTcpSession(s, t) \/ Continue(s, AsyncRecv(t))
      BY <1>4 DEF HandleWrite
  <2>5. quit' \in SUBSET Sessions
      BY <1>1, <2>4 DEF TypeOK
  <2> HIDE DEF t
  <2>6. CASE CloseTcpSession(s, t)
      BY <1>2, <2>2, <2>3, <2>4, <2>6, CloseKeeps
  <2>7. CASE Continue(s, AsyncRecv(t))
    <3>1. /\ AsyncRecv(t) \in AsyncTcpSessions
          /\ AsyncRecv(t).rd # "none" /\ AsyncRecv(t).wr = "none"
          /\ IsClosed(AsyncRecv(t)) <=> IsClosed(tcp[s])
        BY <2>3, ConnectionTypes, ConnectionFields
    <3> QED
        BY <1>2, <2>2, <2>4, <2>5, <2>7, <3>1, ContinueKeeps
  <2> QED
      BY <2>4, <2>6, <2>7
<1>5. CASE HandleIoTimer(s)
  <2> DEFINE t == IoTimerDone(tcp[s])
  <2>1. /\ t \in AsyncTcpSessions /\ t.rd = tcp[s].rd /\ t.wr = tcp[s].wr
        /\ IsClosed(t) <=> IsClosed(tcp[s])
    <3>1. "off" \in Timers
        BY DEF Timers
    <3> QED
        BY <1>1, <3>1, TimerFields DEF IoTimerDone
  <2>2. /\ UNCHANGED <<accepted, quit, spamd_client_ptr, exit_checked, sender, state, copies>>
        /\ Continue(s, t) \/ CloseTcpSession(s, t) \/ Continue(s, IoTimerCallAt(t))
      BY <1>5 DEF HandleIoTimer
  <2>3. quit' \in SUBSET Sessions
      BY <1>1, <2>2 DEF TypeOK
  <2> HIDE DEF t
  <2>4. CASE CloseTcpSession(s, t)
      BY <1>2, <2>1, <2>2, <2>4, CloseKeeps
  <2>5. CASE Continue(s, t)
      BY <1>2, <2>1, <2>2, <2>3, <2>5, ContinueKeeps
  <2>6. CASE Continue(s, IoTimerCallAt(t))
    <3>1. /\ IoTimerCallAt(t) \in AsyncTcpSessions
          /\ IoTimerCallAt(t).rd = t.rd /\ IoTimerCallAt(t).wr = t.wr
          /\ IsClosed(IoTimerCallAt(t)) <=> IsClosed(t)
      <4>1. "armed" \in Timers
          BY DEF Timers
      <4> QED
          BY <2>1, <4>1, TimerFields DEF IoTimerCallAt
    <3> QED
        BY <1>2, <2>1, <2>2, <2>3, <2>6, <3>1, ContinueKeeps
  <2> QED
      BY <2>2, <2>4, <2>5, <2>6
<1> QED
    BY <1>3, <1>4, <1>5

(* wait_send_reply behind the test of m_b_exit: the reply is held as long  *)
(* as its mail waits, and is sent else.                                    *)
LEMMA ReplyKeeps ==
  ASSUME IInv, NEW s \in Sessions, NEW t \in AsyncTcpSessions, NEW m \in Mails,
         s \in accepted,
         IsClosed(t) <=> IsClosed(tcp[s]),
         t.rd = "none", t.wr = "none",
         WaitSendReply(s, m, state', t),
         exit_checked' \in [Sessions -> BOOLEAN], ~exit_checked'[s],
         \A q \in Sessions \ {s} : exit_checked'[q] = exit_checked[q] /\ MailsKept(q),
         JobTypes', sender' \in [Mails -> Sessions \cup {NoSession}],
         \A k \in Mails : sender'[k] = s /\ state'[k] = "waiting" /\ ~Closed(s) => k = m,
         UNCHANGED <<accepted, quit>>
  PROVE  TypeOK' /\ Others(s) /\ SessionInv(s)'
<1>1. TypeOK /\ SessionInv(s)
    BY DEF IInv
<1>2. "armed" \in Timers /\ "off" \in Timers /\ m # NoMail
    BY MailsAssumption DEF Timers
<1>3. CASE StillWaiting(m, state') /\ Update(s, t)
           /\ smtp_wait_timer' = [smtp_wait_timer EXCEPT ![s] = "armed"]
           /\ spamd_client_ptr' = [spamd_client_ptr EXCEPT ![s] = m]
           /\ UNCHANGED m_b_exit
  <2>1. /\ tcp' \in [Sessions -> AsyncTcpSessions] /\ tcp'[s] = t
        /\ \A q \in Sessions \ {s} : tcp'[q] = tcp[q]
      BY <1>1, <1>3, Updated
  <2>2. /\ smtp_wait_timer' \in [Sessions -> Timers] /\ smtp_wait_timer'[s] = "armed"
        /\ spamd_client_ptr' \in [Sessions -> Mails \cup {NoMail}] /\ spamd_client_ptr'[s] = m
        /\ \A q \in Sessions \ {s} : /\ smtp_wait_timer'[q] = smtp_wait_timer[q]
                                     /\ spamd_client_ptr'[q] = spamd_client_ptr[q]
      BY <1>1, <1>2, <1>3 DEF TypeOK
  <2>3. TypeOK'
      BY <1>1, <1>3, <2>1, <2>2 DEF TypeOK, JobTypes
  <2>4. Others(s)
      BY <1>3, <2>1, <2>2 DEF Others, Untouched
  <2>5. SessionInv(s)'
      BY <1>1, <1>2, <1>3, <2>1, <2>2
      DEF SessionInv, AtMostOne, GoesOn, NotYet, Timed, ExitKnown, WaitingHeld, ReplyHeld, Closed
  <2> QED
      BY <2>3, <2>4, <2>5
<1>4. CASE ~StillWaiting(m, state') /\ Update(s, AsyncSend(t))
           /\ smtp_wait_timer' = [smtp_wait_timer EXCEPT ![s] = "off"]
           /\ spamd_client_ptr' = [spamd_client_ptr EXCEPT ![s] = NoMail]
           /\ UNCHANGED m_b_exit
  <2>1. /\ AsyncSend(t) \in AsyncTcpSessions /\ AsyncSend(t).wr # "none"
        /\ AsyncSend(t).rd = "none"
        /\ IsClosed(AsyncSend(t)) <=> IsClosed(tcp[s])
      BY ConnectionTypes, ConnectionFields
  <2>2. /\ tcp' \in [Sessions -> AsyncTcpSessions] /\ tcp'[s] = AsyncSend(t)
        /\ \A q \in Sessions \ {s} : tcp'[q] = tcp[q]
      BY <1>1, <1>4, <2>1, Updated
  <2>3. /\ smtp_wait_timer' \in [Sessions -> Timers] /\ smtp_wait_timer'[s] = "off"
        /\ spamd_client_ptr' \in [Sessions -> Mails \cup {NoMail}]
        /\ spamd_client_ptr'[s] = NoMail
        /\ \A q \in Sessions \ {s} : /\ smtp_wait_timer'[q] = smtp_wait_timer[q]
                                     /\ spamd_client_ptr'[q] = spamd_client_ptr[q]
      BY <1>1, <1>2, <1>4 DEF TypeOK
  <2>4. TypeOK'
      BY <1>1, <1>4, <2>2, <2>3 DEF TypeOK, JobTypes
  <2>5. Others(s)
      BY <1>4, <2>2, <2>3 DEF Others, Untouched
  <2>6. WaitingHeld(s)'
    <3>1. state'[m] # "waiting"
        BY <1>4 DEF StillWaiting
    <3>2. Closed(s)' <=> Closed(s)
        BY <2>1, <2>2 DEF Closed, IsClosed
    <3> QED
        BY <3>1, <3>2 DEF WaitingHeld
  <2>6a. /\ tcp'[s].rd = "none" /\ tcp'[s].wr # "none"
         /\ IsClosed(tcp'[s]) <=> IsClosed(tcp[s])
      BY <2>1, <2>2 DEF IsClosed
  <2>7. SessionInv(s)'
      BY <1>1, <1>2, <1>4, <2>3, <2>6, <2>6a
      DEF SessionInv, AtMostOne, GoesOn, NotYet, Timed, ExitKnown, ReplyHeld, Closed
  <2> QED
      BY <2>4, <2>5, <2>7
<1> QED
    BY <1>3, <1>4 DEF WaitSendReply

(* A mail is handed on: the session holds no reply yet, so the mail is the *)
(* only one of it that may wait.                                           *)
LEMMA MailKeeps ==
  ASSUME IInv, NEW s \in Sessions, MailReceived(s)
  PROVE  TypeOK' /\ Others(s) /\ SessionInv(s)'
<1> DEFINE t == ReadDone(tcp[s])
<1>1. TypeOK /\ SessionInv(s) /\ tcp[s] \in AsyncTcpSessions
    BY DEF IInv, TypeOK
<1>2. PICK m \in Mails :
        /\ tcp[s].rd = "ok"
        /\ Job!Bypass(m) \/ Job!Wait(m) \/ Job!Start(m)
        /\ sender' = [sender EXCEPT ![m] = s]
        /\ IF m_b_exit[s]
           THEN Continue(s, t) /\ UNCHANGED spamd_client_ptr
           ELSE WaitSendReply(s, m, state', t)
        /\ UNCHANGED <<accepted, quit, exit_checked>>
    BY DEF MailReceived
<1>3. s \in accepted
    BY <1>2, OnlyAccepted
<1>4. tcp[s].wr = "none" /\ ~ReplyHeld(s) /\ smtp_wait_timer[s] = "off" /\ ~exit_checked[s]
    BY <1>1, <1>2 DEF SessionInv, AtMostOne, Timed
<1>5. /\ t \in AsyncTcpSessions /\ t.rd = "none" /\ t.wr = "none"
      /\ IsClosed(t) <=> IsClosed(tcp[s])
    BY <1>1, <1>4, ConnectionTypes, ConnectionFields
<1>6. /\ JobTypes' /\ \A k \in Mails \ {m} : state'[k] = state[k]
  <2>1. JobTypes
      BY <1>1 DEF TypeOK, JobTypes
  <2> QED
      BY <1>2, <2>1, JobStep
<1>7. /\ sender' \in [Mails -> Sessions \cup {NoSession}] /\ sender'[m] = s
      /\ \A k \in Mails \ {m} : sender'[k] = sender[k]
    BY <1>1, <1>2 DEF TypeOK
<1>8. \A q \in Sessions \ {s} : MailsKept(q)
    BY <1>6, <1>7 DEF MailsKept
<1>9. ASSUME ~Closed(s), NEW k \in Mails, sender'[k] = s, state'[k] = "waiting"
      PROVE  k = m
  <2> SUFFICES ASSUME k # m PROVE FALSE
      OBVIOUS
  <2>1. spamd_client_ptr[s] = k
      BY <1>1, <1>6, <1>7, <1>9 DEF SessionInv, WaitingHeld
  <2> QED
      BY <1>4, <2>1, MailsAssumption DEF ReplyHeld
<1>10. CASE m_b_exit[s]
  <2>1. Closed(s)
      BY <1>1, <1>10 DEF SessionInv, ExitKnown
  <2>2. /\ Update(s, t)
        /\ UNCHANGED <<accepted, quit, m_b_exit, smtp_wait_timer, spamd_client_ptr,
                       exit_checked>>
      BY <1>2, <1>10 DEF Continue
  <2> HIDE DEF t
  <2>3. /\ tcp' \in [Sessions -> AsyncTcpSessions] /\ tcp'[s] = t
        /\ \A q \in Sessions \ {s} : tcp'[q] = tcp[q]
      BY <1>1, <1>5, <2>2, Updated
  <2>4. TypeOK'
      BY <1>1, <1>6, <1>7, <2>2, <2>3 DEF TypeOK, JobTypes
  <2>5. Others(s)
      BY <1>8, <2>2, <2>3 DEF Others, Untouched
  <2>5a. tcp'[s].rd = "none" /\ tcp'[s].wr = "none" /\ IsClosed(tcp'[s])
      BY <1>5, <2>1, <2>3 DEF Closed, IsClosed
  <2>6. SessionInv(s)'
      BY <1>1, <1>3, <1>4, <2>1, <2>2, <2>5a
      DEF SessionInv, AtMostOne, GoesOn, NotYet, Timed, ExitKnown, WaitingHeld, ReplyHeld, Closed
  <2> QED
      BY <2>4, <2>5, <2>6
<1>11. CASE ~m_b_exit[s]
  <2>1. WaitSendReply(s, m, state', t) /\ UNCHANGED <<accepted, quit, exit_checked>>
      BY <1>2, <1>11
  <2> HIDE DEF t
  <2>2. /\ exit_checked' \in [Sessions -> BOOLEAN] /\ ~exit_checked'[s]
        /\ \A q \in Sessions \ {s} : exit_checked'[q] = exit_checked[q] /\ MailsKept(q)
      BY <1>1, <1>4, <1>8, <2>1 DEF TypeOK
  <2> QED
      BY <1>3, <1>5, <1>6, <1>7, <1>9, <2>1, <2>2, ReplyKeeps
<1> QED
    BY <1>10, <1>11

(* The wait timer's handler, which runs beside the others, in two steps:   *)
(* nobody else touches what it holds between them.                         *)
LEMMA WaitKeeps ==
  ASSUME IInv, NEW s \in Sessions, CheckExit(s) \/ WaitOver(s)
  PROVE  TypeOK' /\ Others(s) /\ SessionInv(s)'
<1>1. TypeOK /\ SessionInv(s) /\ tcp[s] \in AsyncTcpSessions
    BY DEF IInv, TypeOK
<1>2. s \in accepted /\ ReplyHeld(s) /\ tcp[s].rd = "none" /\ tcp[s].wr = "none"
  <2>1. smtp_wait_timer[s] # "off" \/ exit_checked[s]
      BY DEF CheckExit, WaitOver
  <2> QED
      BY <1>1, <2>1, OnlyAccepted DEF SessionInv, Timed, AtMostOne
<1>3. CASE CheckExit(s)
  <2>1. ~exit_checked[s]
      BY <1>1, <1>3 DEF CheckExit, SessionInv, Timed
  <2>2. /\ smtp_wait_timer' \in [Sessions -> Timers] /\ smtp_wait_timer'[s] = "off"
        /\ \A q \in Sessions \ {s} : smtp_wait_timer'[q] = smtp_wait_timer[q]
    <3>1. "off" \in Timers
        BY DEF Timers
    <3> QED
        BY <1>1, <1>3, <3>1 DEF CheckExit, TypeOK
  <2>3. UNCHANGED <<accepted, tcp, quit, m_b_exit, sender, state, copies>>
      BY <1>3 DEF CheckExit
  <2>4. CASE m_b_exit[s]
    <3>1. /\ spamd_client_ptr' \in [Sessions -> Mails \cup {NoMail}]
          /\ spamd_client_ptr'[s] = NoMail /\ exit_checked' = exit_checked
          /\ \A q \in Sessions \ {s} : spamd_client_ptr'[q] = spamd_client_ptr[q]
        BY <1>1, <1>3, <2>4 DEF CheckExit, TypeOK
    <3>2. Closed(s)
        BY <1>1, <2>4 DEF SessionInv, ExitKnown
    <3>3. TypeOK'
        BY <1>1, <2>2, <2>3, <3>1 DEF TypeOK
    <3>4. Others(s)
        BY <2>2, <2>3, <3>1 DEF Others, Untouched, MailsKept
    <3>5. SessionInv(s)'
        BY <1>1, <1>2, <2>1, <2>2, <2>3, <3>1, <3>2
        DEF SessionInv, AtMostOne, GoesOn, NotYet, Timed, ExitKnown, WaitingHeld, ReplyHeld,
            Closed
    <3> QED
        BY <3>3, <3>4, <3>5
  <2>5. CASE ~m_b_exit[s]
    <3>1. /\ exit_checked' \in [Sessions -> BOOLEAN]
          /\ exit_checked'[s] /\ spamd_client_ptr' = spamd_client_ptr
          /\ \A q \in Sessions \ {s} : exit_checked'[q] = exit_checked[q]
        BY <1>1, <1>3, <2>5 DEF CheckExit, TypeOK
    <3>2. TypeOK'
        BY <1>1, <2>2, <2>3, <3>1 DEF TypeOK
    <3>3. Others(s)
        BY <2>2, <2>3, <3>1 DEF Others, Untouched, MailsKept
    <3>4. SessionInv(s)'
        BY <1>1, <1>2, <2>2, <2>3, <3>1
        DEF SessionInv, AtMostOne, GoesOn, NotYet, Timed, ExitKnown, WaitingHeld, ReplyHeld,
            Closed
    <3> QED
        BY <3>2, <3>3, <3>4
  <2> QED
      BY <2>4, <2>5
<1>4. CASE WaitOver(s)
  <2> DEFINE m == spamd_client_ptr[s]
  <2>1. m \in Mails
      BY <1>1, <1>2 DEF ReplyHeld, TypeOK
  <2>2. /\ UNCHANGED <<accepted, quit, sender, state, copies>>
        /\ exit_checked' = [exit_checked EXCEPT ![s] = FALSE]
        /\ WaitSendReply(s, m, state, tcp[s])
      BY <1>4 DEF WaitOver
  <2>3. WaitSendReply(s, m, state', tcp[s])
    <3>1. state' = state
        BY <2>2
    <3> QED
        BY <2>2, <3>1
  <2>4. /\ exit_checked' \in [Sessions -> BOOLEAN] /\ ~exit_checked'[s]
        /\ \A q \in Sessions \ {s} : exit_checked'[q] = exit_checked[q] /\ MailsKept(q)
      BY <1>1, <2>2 DEF TypeOK, MailsKept
  <2>5. JobTypes' /\ sender' \in [Mails -> Sessions \cup {NoSession}]
      BY <1>1, <2>2 DEF TypeOK, JobTypes
  <2>6. \A k \in Mails : sender'[k] = s /\ state'[k] = "waiting" /\ ~Closed(s) => k = m
      BY <1>1, <2>2 DEF SessionInv, WaitingHeld
  <2> HIDE DEF m
  <2> QED
      BY <1>1, <1>2, <2>1, <2>2, <2>3, <2>4, <2>5, <2>6, ReplyKeeps
<1> QED
    BY <1>3, <1>4

(* The peer and the clock. *)
LEMMA WorldKeeps ==
  ASSUME IInv, NEW s \in Sessions, PeerAnswers(s) \/ Clock(s)
  PROVE  TypeOK' /\ Others(s) /\ SessionInv(s)'
<1>1. TypeOK /\ SessionInv(s) /\ tcp[s] \in AsyncTcpSessions
    BY DEF IInv, TypeOK
<1>2. s \in accepted
    BY OnlyAccepted DEF PeerAnswers, Clock, IoTimerExpires, SecondPasses, WaitTimerExpires
<1>3. ASSUME NEW t \in AsyncTcpSessions, TcpStep(s, t),
             IsClosed(t) <=> IsClosed(tcp[s]),
             t.rd = "none" <=> tcp[s].rd = "none", t.wr = "none" <=> tcp[s].wr = "none"
      PROVE  TypeOK' /\ Others(s) /\ SessionInv(s)'
  <2>1. /\ Continue(s, t) /\ quit' \in SUBSET Sessions
        /\ UNCHANGED <<accepted, spamd_client_ptr, exit_checked, sender, state, copies>>
      BY <1>1, <1>3 DEF TcpStep, Continue, TypeOK
  <2> QED
      BY <1>2, <1>3, <2>1, ContinueKeeps
<1>4. CASE PeerAnswers(s)
  <2>1. PICK result \in {"ok", "error"} :
          \/ tcp[s].rd = "pending" /\ TcpStep(s, [tcp[s] EXCEPT !.rd = result])
          \/ tcp[s].wr = "pending" /\ TcpStep(s, [tcp[s] EXCEPT !.wr = result])
      BY <1>4 DEF PeerAnswers
  <2>2. CASE tcp[s].rd = "pending" /\ TcpStep(s, [tcp[s] EXCEPT !.rd = result])
    <3> DEFINE t == [tcp[s] EXCEPT !.rd = result]
    <3>1. /\ t \in AsyncTcpSessions /\ t.rd = result /\ t.wr = tcp[s].wr
          /\ t.n_socket_status = tcp[s].n_socket_status
        BY <1>1 DEF AsyncTcpSessions, Operations
    <3>2. TcpStep(s, t)
        BY <2>2
    <3> HIDE DEF t
    <3>3. IsClosed(t) <=> IsClosed(tcp[s])
        BY <3>1 DEF IsClosed
    <3>4. (t.rd = "none" <=> tcp[s].rd = "none") /\ (t.wr = "none" <=> tcp[s].wr = "none")
        BY <2>2, <3>1
    <3> QED
        BY <1>3, <3>1, <3>2, <3>3, <3>4
  <2>3. CASE tcp[s].wr = "pending" /\ TcpStep(s, [tcp[s] EXCEPT !.wr = result])
    <3> DEFINE t == [tcp[s] EXCEPT !.wr = result]
    <3>1. /\ t \in AsyncTcpSessions /\ t.wr = result /\ t.rd = tcp[s].rd
          /\ t.n_socket_status = tcp[s].n_socket_status
        BY <1>1 DEF AsyncTcpSessions, Operations
    <3>2. TcpStep(s, t)
        BY <2>3
    <3> HIDE DEF t
    <3>3. IsClosed(t) <=> IsClosed(tcp[s])
        BY <3>1 DEF IsClosed
    <3>4. (t.rd = "none" <=> tcp[s].rd = "none") /\ (t.wr = "none" <=> tcp[s].wr = "none")
        BY <2>3, <3>1
    <3> QED
        BY <1>3, <3>1, <3>2, <3>3, <3>4
  <2> QED
      BY <2>1, <2>2, <2>3
<1>5. CASE IoTimerExpires(s)
  <2> DEFINE t == [tcp[s] EXCEPT !.io_timer = "fired"]
  <2>1. t \in AsyncTcpSessions /\ t.rd = tcp[s].rd /\ t.wr = tcp[s].wr
        /\ (IsClosed(t) <=> IsClosed(tcp[s]))
    <3>1. "fired" \in Timers
        BY DEF Timers
    <3> QED
        BY <1>1, <3>1, TimerFields
  <2>2. TcpStep(s, t)
      BY <1>5 DEF IoTimerExpires
  <2> HIDE DEF t
  <2> QED
      BY <1>3, <2>1, <2>2
<1>6. CASE SecondPasses(s)
  <2>1. CanTick(tcp[s]) /\ TcpStep(s, Tick(tcp[s]))
      BY <1>6 DEF SecondPasses
  <2>2. /\ Tick(tcp[s]) \in AsyncTcpSessions
        /\ Tick(tcp[s]).rd = tcp[s].rd /\ Tick(tcp[s]).wr = tcp[s].wr
        /\ IsClosed(Tick(tcp[s])) <=> IsClosed(tcp[s])
      BY <1>1, <2>1, TimerFields
  <2> QED
      BY <1>3, <2>1, <2>2
<1>7. CASE WaitTimerExpires(s)
  <2>1. /\ smtp_wait_timer[s] = "armed"
        /\ smtp_wait_timer' \in [Sessions -> Timers] /\ smtp_wait_timer'[s] = "fired"
        /\ \A q \in Sessions \ {s} : smtp_wait_timer'[q] = smtp_wait_timer[q]
        /\ UNCHANGED <<accepted, tcp, quit, m_b_exit, spamd_client_ptr, exit_checked,
                       sender, state, copies>>
      BY <1>1, <1>7 DEF WaitTimerExpires, TypeOK, Timers
  <2>2. TypeOK'
      BY <1>1, <2>1 DEF TypeOK
  <2>3. Others(s)
      BY <2>1 DEF Others, Untouched, MailsKept
  <2>4. SessionInv(s)'
      BY <1>1, <2>1
      DEF SessionInv, AtMostOne, GoesOn, NotYet, Timed, ExitKnown, WaitingHeld, ReplyHeld, Closed
  <2> QED
      BY <2>2, <2>3, <2>4
<1> QED
    BY <1>4, <1>5, <1>6, <1>7 DEF Clock

----------------------------------------------------------------------------
(* The invariant and the theorems. *)

(* A client that goes on by itself never comes to wait again. *)
LEMMA ClientKeeps ==
  ASSUME IInv, NEW m \in Mails, ClientStep(m)
  PROVE  IInv'
<1>1. TypeOK /\ JobTypes /\ \A s \in Sessions : SessionInv(s)
    BY DEF IInv, TypeOK, JobTypes
<1>2. /\ Job!Start(m) \/ Job!Finish(m) \/ Job!RelayLate(m)
      /\ state[m] # "new"
      /\ UNCHANGED sessionVars
  <2>1. state[m] = "new" => ~Job!Finish(m) /\ ~Job!RelayLate(m)
      BY DEF Job!Finish, Job!RelayLate, Job!Goto
  <2> QED
      BY <2>1 DEF ClientStep
<1>3. /\ JobTypes' /\ \A k \in Mails : state'[k] = "waiting" => state[k] = "waiting"
  <2>1. /\ JobTypes'
        /\ \A k \in Mails \ {m} : state'[k] = state[k]
        /\ state'[m] = "waiting" => state[m] = "new"
      BY <1>1, <1>2, JobStep
  <2> QED
      BY <1>2, <2>1
<1>4. TypeOK'
    BY <1>1, <1>2, <1>3 DEF TypeOK, JobTypes, sessionVars
<1>5. ASSUME NEW s \in Sessions
      PROVE  SessionInv(s)'
  <2>1. SessionInv(s)
      BY <1>1
  <2>2. UNCHANGED <<accepted, tcp, quit, m_b_exit, smtp_wait_timer, spamd_client_ptr,
                    exit_checked, sender>>
      BY <1>2 DEF sessionVars
  <2> QED
      BY <1>3, <2>1, <2>2
      DEF SessionInv, AtMostOne, GoesOn, NotYet, Timed, ExitKnown, WaitingHeld, ReplyHeld, Closed
<1> QED
    BY <1>4, <1>5 DEF IInv

(* At first nothing is accepted. *)
LEMMA IInit == Init => IInv
<1> SUFFICES ASSUME Init PROVE IInv
    OBVIOUS
<1>1. NewSession \in AsyncTcpSessions
  <2>1. 0 \in 0 .. conf_session_timeout + 1
      BY SessionTimeoutAssumption
  <2> QED
      BY <2>1 DEF NewSession, AsyncTcpSessions, Operations, Timers
<1>2. TypeOK
    BY <1>1 DEF Init, Job!Init, TypeOK, Timers
<1>3. ASSUME NEW s \in Sessions PROVE SessionInv(s)
    BY <1>3 DEF Init, Job!Init, SessionInv, AtMostOne, GoesOn, NotYet, Timed, ExitKnown,
                WaitingHeld, ReplyHeld, Closed, IsClosed, NewSession
<1> QED
    BY <1>2, <1>3 DEF IInv

(* Every step keeps the invariant: a session's step is its own. *)
LEMMA IStep == IInv /\ [Next]_vars => IInv'
<1> SUFFICES ASSUME IInv, [Next]_vars PROVE IInv'
    OBVIOUS
<1>1. ASSUME NEW s \in Sessions,
             Accept(s) \/ Handler(s) \/ PeerAnswers(s) \/ Clock(s)
      PROVE  IInv'
  <2>1. TypeOK' /\ Others(s) /\ SessionInv(s)'
      BY <1>1, AcceptKeeps, HandlersKeep, MailKeeps, WaitKeeps, WorldKeeps DEF Handler
  <2> QED
      BY <2>1, OthersKeep DEF IInv
<1>2. ASSUME NEW m \in Mails, ClientStep(m)
      PROVE  IInv'
    BY <1>2, ClientKeeps
<1>3. CASE UNCHANGED vars
    BY <1>3 DEF vars, sessionVars, IInv, TypeOK, SessionInv, AtMostOne, GoesOn, NotYet, Timed,
                ExitKnown, WaitingHeld, ReplyHeld, Closed
<1> QED
    BY <1>1, <1>2, <1>3 DEF Next

(* The sessions keep their types, and elapsed its bound. *)
THEOREM TypeCorrect == Spec => []TypeOK
<1>1. IInv => TypeOK
    BY DEF IInv
<1> QED
    BY <1>1, IInit, IStep, PTL DEF Spec, SafetySpec

(* An open session reads, writes or holds a reply back, and never two of   *)
(* these, although the wait timer's handler takes another mutex than the   *)
(* read, write and session timer handlers do.                              *)
THEOREM DialogueIsOne == Spec => []OneDialogue
<1>1. ASSUME IInv PROVE OneDialogue
  <2> SUFFICES ASSUME NEW s \in accepted
               PROVE  /\ Cardinality(Dialogue(s)) <= 1
                      /\ ~Closed(s) => Dialogue(s) # {}
                      /\ ReplyHeld(s) <=> (smtp_wait_timer[s] # "off" \/ exit_checked[s])
      BY DEF OneDialogue
  <2>1. SessionInv(s)
      BY <1>1 DEF IInv, TypeOK
  <2>2. Dialogue(s) = {x \in {"read"} : tcp[s].rd # "none"} \cup
                      {x \in {"write"} : tcp[s].wr # "none"} \cup
                      {x \in {"reply"} : ReplyHeld(s)}
      BY DEF Dialogue
  <2>3. Cardinality(Dialogue(s)) <= 1
    <3>1. Dialogue(s) = {} \/ \E x : Dialogue(s) = {x}
        BY <2>1, <2>2 DEF SessionInv, AtMostOne
    <3>2. Cardinality({}) = 0 /\ \A x : Cardinality({x}) = 1
        BY FS_EmptySet, FS_Singleton
    <3>3. CASE Dialogue(s) = {}
        BY <3>2, <3>3
    <3>4. CASE \E x : Dialogue(s) = {x}
      <4>1. PICK x : Dialogue(s) = {x}
          BY <3>4
      <4>2. Cardinality(Dialogue(s)) = 1
          BY <3>2, <4>1
      <4> QED
          BY <4>2
    <3> QED
        BY <3>1, <3>3, <3>4
  <2>4. ~Closed(s) => Dialogue(s) # {}
      BY <2>1, <2>2 DEF SessionInv, GoesOn
  <2> QED
      BY <2>1, <2>3, <2>4 DEF SessionInv, Timed
<1> QED
    BY <1>1, IInit, IStep, PTL DEF Spec, SafetySpec

(* Back pressure: while a mail of an open session waits for a slot the     *)
(* session holds its reply and neither reads nor writes.                   *)
THEOREM BackPressure == Spec => []PeerHeldBack
<1>1. ASSUME IInv PROVE PeerHeldBack
  <2> SUFFICES ASSUME NEW m \in Mails, NEW s \in Sessions,
                      sender[m] = s, state[m] = "waiting", ~Closed(s)
               PROVE  spamd_client_ptr[s] = m /\ Dialogue(s) = {"reply"}
      BY DEF PeerHeldBack
  <2>1. SessionInv(s)
      BY <1>1 DEF IInv
  <2>2. spamd_client_ptr[s] = m /\ ReplyHeld(s)
      BY <2>1, MailsAssumption DEF SessionInv, WaitingHeld, ReplyHeld
  <2>3. tcp[s].rd = "none" /\ tcp[s].wr = "none"
      BY <2>1, <2>2 DEF SessionInv, AtMostOne
  <2> QED
      BY <2>2, <2>3 DEF Dialogue
<1> QED
    BY <1>1, IInit, IStep, PTL DEF Spec, SafetySpec
=============================================================================

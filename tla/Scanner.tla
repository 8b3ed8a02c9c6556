------------------------------ MODULE Scanner ------------------------------
(***************************************************************************)
(* smtp_scanner_server_session (async_smtp_scanner.cpp) with the mails it  *)
(* hands on.  A session reads commands and data, filters a complete mail,  *)
(* hands it to an async_spamd_client and holds its reply back, and with it *)
(* the peer, until that client has started.  The clients are the abstract  *)
(* jobs of ScanJob, which SpamdClient implements; what the commands do to  *)
(* the mail is the subject of SmtpServerProtocol.                          *)
(*                                                                         *)
(* Handlers of one session exclude each other through m_io_mutex, except   *)
(* the wait timer's, which only takes m_user_mutex: it is two steps, the   *)
(* test of m_b_exit and what follows, and a close may come between.        *)
(***************************************************************************)
EXTENDS AsyncTcpSession, FiniteSets

CONSTANTS Sessions,
          Mails,                   \* the mails that will be received
          Oversize,                \* those too large to scan
          conf_spamd_max_session,
          NoMail

ASSUME MailsAssumption == Oversize \subseteq Mails /\ NoMail \notin Mails

VARIABLES
  accepted,          \* the sessions that the acceptor has started
  tcp,               \* the async_tcp_session part of each
  quit,              \* those whose protocol has seen QUIT
  m_b_exit,
  smtp_wait_timer,
  spamd_client_ptr,  \* the mail a pending wait_send_reply is bound to
  exit_checked,      \* wait_send_reply has found m_b_exit false
  sender,            \* the session each mail came from
  state, copies      \* of the jobs

sessionVars == <<accepted, tcp, quit, m_b_exit, smtp_wait_timer,
                 spamd_client_ptr, exit_checked, sender>>
vars == <<sessionVars, state, copies>>

Job == INSTANCE ScanJob WITH Jobs <- Mails, Large <- Oversize,
                             Max <- conf_spamd_max_session

NoSession == "none"

Init == /\ accepted = {}
        /\ tcp = [s \in Sessions |-> NewSession]
        /\ quit = {}
        /\ m_b_exit = [s \in Sessions |-> FALSE]
        /\ smtp_wait_timer = [s \in Sessions |-> "off"]
        /\ spamd_client_ptr = [s \in Sessions |-> NoMail]
        /\ exit_checked = [s \in Sessions |-> FALSE]
        /\ sender = [m \in Mails |-> NoSession]
        /\ Job!Init

----------------------------------------------------------------------------

Update(s, t) == tcp' = [tcp EXCEPT ![s] = t]

(* handle_accept: start and handle_protocol_connected, which greets. *)
Accept(s) == /\ s \notin accepted
             /\ accepted' = accepted \cup {s}
             /\ Update(s, AsyncSend(Start(tcp[s])))
             /\ UNCHANGED <<quit, m_b_exit, smtp_wait_timer, spamd_client_ptr,
                            exit_checked, sender, state, copies>>

(* Mutant: m_b_exit is not set. *)
CloseWithoutExit(s, t) == /\ Update(s, Close(t))
                          /\ UNCHANGED <<m_b_exit, smtp_wait_timer>>

(* close_tcp_session with handle_protocol_closed. *)
CloseTcpSession(s, t) ==
  /\ Update(s, Close(t))
  /\ IF IsClosed(t) THEN UNCHANGED <<m_b_exit, smtp_wait_timer>>
     ELSE /\ m_b_exit' = [m_b_exit EXCEPT ![s] = TRUE]
          /\ smtp_wait_timer' = [smtp_wait_timer EXCEPT ![s] = Cancel(@)]

Continue(s, t) == Update(s, t) /\ UNCHANGED <<m_b_exit, smtp_wait_timer>>

(* async_spamd_client::get_start_status: a client that was let through     *)
(* once stays so, and an oversize one never is.                            *)
StillWaiting(m, jobs) == m \in Oversize \/ jobs[m] = "waiting"

(* Mutant: the reply is never held back. *)
WaitSendReplyAtOnce(s, m, jobs, t) ==
  /\ Update(s, AsyncSend(t))
  /\ spamd_client_ptr' = [spamd_client_ptr EXCEPT ![s] = NoMail]
  /\ smtp_wait_timer' = [smtp_wait_timer EXCEPT ![s] = "off"]
  /\ UNCHANGED m_b_exit

(* Mutant: the session reads the next command while the reply waits. *)
WaitSendReplyReadsOn(s, m, jobs, t) ==
  \/ /\ StillWaiting(m, jobs)
     /\ smtp_wait_timer' = [smtp_wait_timer EXCEPT ![s] = "armed"]
     /\ spamd_client_ptr' = [spamd_client_ptr EXCEPT ![s] = m]
     /\ Update(s, AsyncRecv(t))
     /\ UNCHANGED m_b_exit
  \/ /\ ~StillWaiting(m, jobs)
     /\ Update(s, AsyncSend(t))
     /\ smtp_wait_timer' = [smtp_wait_timer EXCEPT ![s] = "off"]
     /\ spamd_client_ptr' = [spamd_client_ptr EXCEPT ![s] = NoMail]
     /\ UNCHANGED m_b_exit

(* wait_send_reply behind the test of m_b_exit, with the jobs as they are  *)
(* then: wait WAIT_SEND_CHECK_TIME_MS more, or send the reply.             *)
WaitSendReply(s, m, jobs, t) ==
  \/ /\ StillWaiting(m, jobs)
     /\ smtp_wait_timer' = [smtp_wait_timer EXCEPT ![s] = "armed"]
     /\ spamd_client_ptr' = [spamd_client_ptr EXCEPT ![s] = m]
     /\ Update(s, t)
     /\ UNCHANGED m_b_exit
  \/ /\ ~StillWaiting(m, jobs)
     /\ Update(s, AsyncSend(t))
     /\ smtp_wait_timer' = [smtp_wait_timer EXCEPT ![s] = "off"]
     /\ spamd_client_ptr' = [spamd_client_ptr EXCEPT ![s] = NoMail]
     /\ UNCHANGED m_b_exit

----------------------------------------------------------------------------
(* handle_tcp_read and handle_protocol_read. *)

(* A command, a mail whose length is wrong or one that a filter discards:  *)
(* the protocol's reply is sent.  Part of a mail: there is none, read on.  *)
Command(s) ==
  /\ tcp[s].rd = "ok"
  /\ \/ Continue(s, AsyncSend(ReadDone(tcp[s]))) /\ quit' \in {quit, quit \cup {s}}
     \/ Continue(s, AsyncRecv(ReadDone(tcp[s]))) /\ UNCHANGED quit
  /\ UNCHANGED <<accepted, spamd_client_ptr, exit_checked, sender, state, copies>>

(* A complete mail that passes the filters: construct its client, run      *)
(* auto_smart_send, and wait_send_reply.  The session may have been closed *)
(* while this handler was queued.                                          *)
MailReceived(s) ==
  \E m \in Mails :
    /\ tcp[s].rd = "ok"
    /\ state[m] = "new"
    /\ Job!Bypass(m) \/ Job!Wait(m) \/ Job!Start(m)
    /\ sender' = [sender EXCEPT ![m] = s]
    /\ IF m_b_exit[s]
       THEN Continue(s, ReadDone(tcp[s])) /\ UNCHANGED spamd_client_ptr
       ELSE WaitSendReply(s, m, state', ReadDone(tcp[s]))
    /\ UNCHANGED <<accepted, quit, exit_checked>>

ReadFails(s) == /\ tcp[s].rd = "error"
                /\ CloseTcpSession(s, ReadDone(tcp[s]))
                /\ UNCHANGED <<accepted, quit, spamd_client_ptr, exit_checked,
                               sender, state, copies>>

(* Mutant: QUIT does not close the session. *)
HandleWriteIgnoresQuit(s) ==
  /\ \/ /\ tcp[s].wr = "error"
        /\ CloseTcpSession(s, WriteDone(tcp[s]))
     \/ /\ tcp[s].wr = "ok"
        /\ Continue(s, AsyncRecv(WriteDone(tcp[s])))
  /\ UNCHANGED <<accepted, quit, spamd_client_ptr, exit_checked, sender, state,
                 copies>>

(* handle_tcp_write and handle_protocol_write. *)
HandleWrite(s) ==
  /\ \/ /\ tcp[s].wr = "error" \/ (tcp[s].wr = "ok" /\ s \in quit)
        /\ CloseTcpSession(s, WriteDone(tcp[s]))
     \/ /\ tcp[s].wr = "ok"
        /\ s \notin quit
        /\ Continue(s, AsyncRecv(WriteDone(tcp[s])))
  /\ UNCHANGED <<accepted, quit, spamd_client_ptr, exit_checked, sender, state,
                 copies>>

(* handle_io_timer and handle_protocol_timer. *)
HandleIoTimer(s) ==
  LET t == IoTimerDone(tcp[s])
  IN /\ tcp[s].io_timer = "fired"
     /\ IF IsClosed(t) THEN Continue(s, t)
        ELSE IF t.elapsed > conf_session_timeout THEN CloseTcpSession(s, t)
        ELSE Continue(s, IoTimerCallAt(t))
     /\ UNCHANGED <<accepted, quit, spamd_client_ptr, exit_checked, sender, state,
                    copies>>

(* wait_send_reply as the wait timer's handler: first the test of m_b_exit. *)
CheckExit(s) ==
  /\ smtp_wait_timer[s] = "fired"
  /\ smtp_wait_timer' = [smtp_wait_timer EXCEPT ![s] = "off"]
  /\ IF m_b_exit[s]
     THEN /\ spamd_client_ptr' = [spamd_client_ptr EXCEPT ![s] = NoMail]
          /\ UNCHANGED exit_checked
     ELSE /\ exit_checked' = [exit_checked EXCEPT ![s] = TRUE]
          /\ UNCHANGED spamd_client_ptr
  /\ UNCHANGED <<accepted, tcp, quit, m_b_exit, sender, state, copies>>

(* Then the rest. *)
WaitOver(s) == /\ exit_checked[s]
               /\ exit_checked' = [exit_checked EXCEPT ![s] = FALSE]
               /\ UNCHANGED <<accepted, quit, sender, state, copies>>
               /\ WaitSendReply(s, spamd_client_ptr[s], state, tcp[s])

Handler(s) == \/ Command(s) \/ MailReceived(s) \/ ReadFails(s) \/ HandleWrite(s)
              \/ HandleIoTimer(s) \/ CheckExit(s) \/ WaitOver(s)

----------------------------------------------------------------------------
(* The peer, the clock and the clients. *)

TcpStep(s, t) == /\ Update(s, t)
                 /\ UNCHANGED <<accepted, quit, m_b_exit, smtp_wait_timer,
                                spamd_client_ptr, exit_checked, sender, state, copies>>

PeerAnswers(s) ==
  \E result \in {"ok", "error"} :
    \/ tcp[s].rd = "pending" /\ TcpStep(s, [tcp[s] EXCEPT !.rd = result])
    \/ tcp[s].wr = "pending" /\ TcpStep(s, [tcp[s] EXCEPT !.wr = result])

IoTimerExpires(s) == /\ tcp[s].io_timer = "armed"
                     /\ TcpStep(s, [tcp[s] EXCEPT !.io_timer = "fired"])
SecondPasses(s) == /\ s \in accepted
                   /\ CanTick(tcp[s])
                   /\ TcpStep(s, Tick(tcp[s]))
WaitTimerExpires(s) ==
  /\ smtp_wait_timer[s] = "armed"
  /\ smtp_wait_timer' = [smtp_wait_timer EXCEPT ![s] = "fired"]
  /\ UNCHANGED <<accepted, tcp, quit, m_b_exit, spamd_client_ptr, exit_checked,
                 sender, state, copies>>

Clock(s) == IoTimerExpires(s) \/ SecondPasses(s) \/ WaitTimerExpires(s)

(* A client goes on by itself once it was created. *)
ClientStep(m) ==
  /\ \/ state[m] = "waiting" /\ Job!Start(m)
     \/ Job!Finish(m)
     \/ Job!RelayLate(m)
  /\ UNCHANGED sessionVars

Next == \/ \E s \in Sessions : Accept(s) \/ Handler(s) \/ PeerAnswers(s) \/ Clock(s)
        \/ \E m \in Mails : ClientStep(m)

----------------------------------------------------------------------------
(* Fairness: queued handlers run and time passes.  Nothing is assumed of   *)
(* the peer, which may stall at any point, nor of the clients.             *)
Fairness ==
  \A s \in Sessions :
    /\ WF_vars(Command(s) \/ MailReceived(s) \/ ReadFails(s))
    /\ WF_vars(HandleWrite(s))
    /\ WF_vars(HandleIoTimer(s))
    /\ WF_vars(CheckExit(s))
    /\ WF_vars(WaitOver(s))
    /\ WF_vars(IoTimerExpires(s))
    /\ WF_vars(SecondPasses(s))
    /\ WF_vars(WaitTimerExpires(s))

SafetySpec == Init /\ [][Next]_vars
Spec == SafetySpec /\ Fairness

----------------------------------------------------------------------------

TypeOK == /\ accepted \in SUBSET Sessions
          /\ tcp \in [Sessions -> AsyncTcpSessions]
          /\ quit \in SUBSET Sessions
          /\ m_b_exit \in [Sessions -> BOOLEAN]
          /\ smtp_wait_timer \in [Sessions -> Timers]
          /\ spamd_client_ptr \in [Sessions -> Mails \cup {NoMail}]
          /\ exit_checked \in [Sessions -> BOOLEAN]
          /\ sender \in [Mails -> Sessions \cup {NoSession}]
          /\ state \in [Mails -> {"new", "waiting", "scanning", "finished"}]
          /\ copies \in [Mails -> SUBSET {"raw", "scanned"}]

Closed(s) == IsClosed(tcp[s])
ReplyHeld(s) == spamd_client_ptr[s] # NoMail

(* What will go on with the session's dialogue. *)
Dialogue(s) == {x \in {"read", "write", "reply"} :
                  CASE x = "read"  -> tcp[s].rd # "none"
                    [] x = "write" -> tcp[s].wr # "none"
                    [] x = "reply" -> ReplyHeld(s)}

(* An open session reads, writes or holds a reply back, and never two of   *)
(* these: the peer is always served, and answered once, in the order of    *)
(* its commands.  This holds although the wait timer's handler runs        *)
(* outside the lock of the others.                                         *)
OneDialogue ==
  \A s \in accepted :
    /\ Cardinality(Dialogue(s)) <= 1
    /\ ~Closed(s) => Dialogue(s) # {}
    /\ ReplyHeld(s) <=> (smtp_wait_timer[s] # "off" \/ exit_checked[s])

(* Back pressure: while a mail of an open session waits for a slot, the    *)
(* session neither reads nor writes, so the peer cannot hand in another.   *)
PeerHeldBack ==
  \A m \in Mails, s \in Sessions :
    sender[m] = s /\ state[m] = "waiting" /\ ~Closed(s)
      => spamd_client_ptr[s] = m /\ Dialogue(s) = {"reply"}

(* A peer that stalls does not keep a session: a pending operation and a   *)
(* reply held back end, by the session's timer if by nothing else.         *)
NothingStalls ==
  \A s \in Sessions :
    /\ tcp[s].rd = "pending" ~> tcp[s].rd # "pending"
    /\ tcp[s].wr = "pending" ~> tcp[s].wr # "pending"
    /\ \A m \in Mails : spamd_client_ptr[s] = m ~> spamd_client_ptr[s] # m

(* QUIT ends the session even when its answer cannot be delivered. *)
QuitCloses == \A s \in Sessions : s \in quit ~> Closed(s)

(* After a close nothing refers to the session for long: what was queued   *)
(* runs out, and no timer is armed again and again.                        *)
ClosedQuiets ==
  \A s \in Sessions :
    Closed(s) ~> /\ Dialogue(s) = {}
                 /\ tcp[s].io_timer = "off"
                 /\ smtp_wait_timer[s] = "off"

(* "wait until spamd starts", then "send the reply": the peer that handed  *)
(* in an oversize mail is answered too.                                    *)
OversizeAnswered ==
  \A s \in Sessions : spamd_client_ptr[s] \in Oversize ~> tcp[s].wr # "none"
=============================================================================

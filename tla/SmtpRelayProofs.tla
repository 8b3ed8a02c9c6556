--------------------------- MODULE SmtpRelayProofs ---------------------------
(***************************************************************************)
(* Proofs about SmtpRelay, for any timeouts and any number of recipients.  *)
(* The client judges each read alone, so a reply that TCP cuts may count   *)
(* as two and put the client ahead of its server.  It can never be ahead   *)
(* of the text: the server sends one 354, and while it is on its way the   *)
(* server waits for the text and sends nothing else.                       *)
(***************************************************************************)
EXTENDS SmtpRelay, FiniteSetTheorems, SequenceTheorems, TLAPS

----------------------------------------------------------------------------
(* One connection. *)

(* No handler of the protocol is to come. *)
NoOperation(t) == t.conn = "none" /\ t.rd = "none" /\ t.wr = "none"

(* The connect, write and read handlers follow each other until the        *)
(* session is closed.                                                      *)
OneAtATime(t) ==
  /\ t.conn # "none" => t.rd = "none" /\ t.wr = "none"
  /\ t.rd # "none" => t.wr = "none"
  /\ NoOperation(t) => IsClosed(t)

(* What a read returned is kept for its handler only. *)
BufferRead == data_buffer # <<>> => tcp.rd = "ok"

(* What is written is a command. *)
WritesCommand == tcp.wr # "none" => pstr \in Commands

ConnInv == TypeOK /\ OneAtATime(tcp) /\ BufferRead /\ WritesCommand

----------------------------------------------------------------------------

(* Closing changes no operation but a pending one, which then fails. *)
LEMMA CloseProperties ==
  ASSUME NEW t \in AsyncTcpClients
  PROVE  /\ Close(t) \in AsyncTcpClients
         /\ IsClosed(Close(t))
         /\ Close(t).conn = "none" <=> t.conn = "none"
         /\ Close(t).rd = "none" <=> t.rd = "none"
         /\ Close(t).wr = "none" <=> t.wr = "none"
         /\ t.rd = "ok" => Close(t).rd = "ok"
         /\ Close(t).wr = "pending" => t.wr = "pending"
         /\ ~IsClosed(t) => ~Close(t).is_open
<1>1. CASE IsClosed(t)
    BY <1>1 DEF Close
<1>2. CASE ~IsClosed(t)
  <2> DEFINE u == Close(t)
  <2>1. /\ Abort(t.conn) \in ConnectStates
        /\ Abort(t.rd) \in Operations /\ Abort(t.wr) \in Operations
        /\ Cancel(t.io_timer) \in Timers /\ Cancel(t.connect_timer) \in Timers
      BY DEF AsyncTcpClients, Abort, Cancel, ConnectStates, Operations, Timers
  <2>2. u \in AsyncTcpClients
      BY <1>2, <2>1 DEF Close, AsyncTcpClients
  <2>3. /\ u.n_socket_status = "CLOSED" /\ u.is_open = FALSE
        /\ u.conn = Abort(t.conn) /\ u.rd = Abort(t.rd) /\ u.wr = Abort(t.wr)
      BY <1>2 DEF Close, AsyncTcpClients
  <2> QED
      BY <2>2, <2>3 DEF IsClosed, Abort
<1> QED
    BY <1>1, <1>2

(* Reading or writing on: one operation, which fails on a closed socket. *)
LEMMA GoOnProperties ==
  ASSUME NEW t \in AsyncTcpClients
  PROVE  LET r == AsyncRecv(t)
             s == AsyncSend(t)
         IN  /\ r \in AsyncTcpClients /\ s \in AsyncTcpClients
             /\ r.rd \in {"pending", "error"} /\ s.wr \in {"pending", "error"}
             /\ t.is_open => r.rd = "pending" /\ s.wr = "pending"
             /\ r.elapsed = 0 /\ s.elapsed = 0
             /\ r.conn = t.conn /\ r.wr = t.wr /\ r.is_open = t.is_open
             /\ r.n_socket_status = t.n_socket_status
             /\ r.connect_timer = t.connect_timer
             /\ s.conn = t.conn /\ s.rd = t.rd /\ s.is_open = t.is_open
             /\ s.n_socket_status = t.n_socket_status
             /\ s.connect_timer = t.connect_timer
<1>1. 0 \in 0 .. MaxElapsed /\ Started(t) \in {"pending", "error"}
    BY TimeoutsAssumption DEF Started
<1>2. AsyncRecv(t) \in AsyncTcpClients /\ AsyncSend(t) \in AsyncTcpClients
    BY <1>1 DEF AsyncRecv, AsyncSend, AsyncTcpClients, Operations
<1> QED
    BY <1>1, <1>2 DEF AsyncRecv, AsyncSend, AsyncTcpClients, Started

(* The connection once an operation has completed and its handler runs. *)
LEMMA DoneProperties ==
  ASSUME NEW t \in AsyncTcpClients
  PROVE  /\ [t EXCEPT !.conn = "none"] \in AsyncTcpClients
         /\ [t EXCEPT !.rd = "none", !.elapsed = 0] \in AsyncTcpClients
         /\ [t EXCEPT !.wr = "none", !.elapsed = 0] \in AsyncTcpClients
         /\ [t EXCEPT !.io_timer = "off"] \in AsyncTcpClients
         /\ [t EXCEPT !.connect_timer = "off"] \in AsyncTcpClients
         /\ IoTimerCallAt(t) \in AsyncTcpClients
         /\ Connected(t) \in AsyncTcpClients
<1>1. 0 \in 0 .. MaxElapsed
    BY TimeoutsAssumption
<1> QED
    BY <1>1 DEF AsyncTcpClients, IoTimerCallAt, Connected, ConnectStates, Operations, Timers

(* The tables of the dialogue. *)
LEMMA Tables ==
  ASSUME n_send_setp \in Steps \ {"QUIT"}
  PROVE  /\ NextStep \in Steps
         /\ n_send_setp # "WAIT_QUIT" => NextCommand \in Commands
BY DEF Steps, NextStep, NextCommand, Commands

(* A chunk that is a command line is not empty. *)
LEMMA CommandLineNotEmpty ==
  ASSUME NEW chunk \in Seq(Tokens), IsCommandLine(chunk)
  PROVE  chunk # <<>> /\ Head(chunk) \in Tokens
<1>1. chunk # <<>>
  <2> SUFFICES ASSUME chunk = <<>> PROVE FALSE
      OBVIOUS
  <2>1. Len(Reverse(chunk)) = 0 /\ Len(Reverse(<<NewLine>>)) = 1
      BY DEF Reverse
  <2> QED
      BY <2>1 DEF IsCommandLine, IsSuffix, IsPrefix
<1> QED
    BY <1>1, HeadTailProperties

(* A reply that is accepted leads to the next step. *)
LEMMA AcceptedStep ==
  ASSUME TypeOK, NEW step \in Steps, Accepted(step)
  PROVE  /\ n_send_setp = step /\ step # "QUIT"
         /\ n_send_setp' = NextStep /\ n_send_setp' \in Steps
         /\ step # "WAIT_QUIT" => NextCommand \in Commands
<1>1. StatusCode(data_buffer) \in Tokens
    BY CommandLineNotEmpty DEF TypeOK, Accepted, StatusCode
<1>2. "none" \notin Tokens
    BY DEF Tokens, Space, Dash, NewLine
<1>3. n_send_setp # "QUIT"
    BY <1>1, <1>2 DEF Accepted, Expected
<1> QED
    BY <1>3, Tables DEF TypeOK, Accepted

----------------------------------------------------------------------------
(* Each step keeps the types and leaves one operation. *)

(* The connect handler, and the call that precedes it. *)
LEMMA ConnectConn ==
  ASSUME ConnInv, OpenSocket \/ HandleConnect
  PROVE  ConnInv'
<1> USE DEF ConnInv, TypeOK
<1>1. CASE OpenSocket
  <2>1. PICK opened \in BOOLEAN : tcp' = AsyncConnect(tcp, opened)
      BY <1>1 DEF OpenSocket
  <2>2. tcp' \in AsyncTcpClients /\ OneAtATime(tcp')
      BY <1>1, <2>1 DEF OpenSocket, AsyncConnect, AsyncTcpClients, ConnectStates,
                        OneAtATime, NoOperation
  <2>3. tcp'.rd = tcp.rd /\ tcp'.wr = tcp.wr
      BY <2>1 DEF AsyncConnect, AsyncTcpClients
  <2> QED
      BY <1>1, <2>2, <2>3 DEF OpenSocket, clientVars, serverVars, BufferRead, WritesCommand
<1>2. CASE HandleConnect
  <2> DEFINE t == [tcp EXCEPT !.conn = "none"]
             u == IoTimerCallAt(Connected(t))
  <2>1. /\ t \in AsyncTcpClients /\ u \in AsyncTcpClients
        /\ t.conn = "none" /\ t.rd = "none" /\ t.wr = "none"
        /\ u.conn = "none" /\ u.rd = "none" /\ u.wr = "none"
        /\ data_buffer = <<>>
    <3>1. tcp.rd = "none" /\ tcp.wr = "none"
        BY <1>2 DEF HandleConnect, OneAtATime
    <3>2. t \in AsyncTcpClients /\ t.conn = "none" /\ t.rd = "none" /\ t.wr = "none"
        BY <3>1, DoneProperties DEF AsyncTcpClients
    <3>3. u \in AsyncTcpClients
        BY <3>2, DoneProperties
    <3> QED
        BY <3>1, <3>2, <3>3 DEF BufferRead, IoTimerCallAt, Connected, AsyncTcpClients
  <2>2. tcp' \in {Close(t), AsyncRecv(u)}
      BY <1>2 DEF HandleConnect, Continue
  <2>3. /\ tcp' \in AsyncTcpClients /\ OneAtATime(tcp') /\ tcp'.wr = "none"
    <3>1. CASE tcp' = Close(t)
        BY <2>1, <3>1, CloseProperties DEF OneAtATime
    <3>2. CASE tcp' = AsyncRecv(u)
        BY <2>1, <3>2, GoOnProperties DEF OneAtATime, NoOperation
    <3> QED
        BY <2>2, <3>1, <3>2
  <2> QED
      BY <1>2, <2>1, <2>3 DEF HandleConnect, clientVars, serverVars, BufferRead, WritesCommand
<1> QED
    BY <1>1, <1>2

(* The read handler: it closes the session, reads on or writes. *)
LEMMA ReadConn ==
  ASSUME ConnInv, HandleRead
  PROVE  /\ ConnInv'
         /\ UNCHANGED serverVars /\ data_buffer' = <<>> /\ tcp'.conn = tcp.conn
<1> USE DEF ConnInv, TypeOK
<1>1. /\ ReadDone \in AsyncTcpClients
      /\ ReadDone.conn = "none" /\ ReadDone.rd = "none" /\ ReadDone.wr = "none"
      /\ ReadDone.n_socket_status = tcp.n_socket_status
      /\ tcp.conn = "none"
  <2>1. tcp.rd # "none"
      BY DEF HandleRead, ReadFails, ReadsOn, Refused, NoRecipient, Quits, SendsNext,
             Accepted, HasRead
  <2>2. tcp.conn = "none" /\ tcp.wr = "none"
      BY <2>1 DEF OneAtATime
  <2> QED
      BY <2>2, DoneProperties DEF ReadDone, AsyncTcpClients
<1>2. /\ UNCHANGED serverVars /\ data_buffer' = <<>>
  <2>1. CASE ReadFails
    <3>1. tcp.rd # "ok"
        BY <2>1 DEF ReadFails
    <3> QED
        BY <2>1, <3>1 DEF ReadFails, BufferRead
  <2>2. CASE ~ReadFails
      BY <2>2 DEF HandleRead, ReadsOn, Refused, NoRecipient, Quits, SendsNext,
                  Accepted, HasRead
  <2> QED
      BY <2>1, <2>2
<1>3. /\ <<>> \in Seq(Tokens)
      /\ smooth' = smooth /\ rcpt_to' = rcpt_to
      /\ n_session_status' \in {"NORMAL", "ERROR"}
      /\ n_send_setp' \in Steps /\ pstr' \in Commands \cup {"none"}
  <2>1. CASE ReadFails \/ ReadsOn
      BY <2>1 DEF ReadFails, ReadsOn, HasRead, clientVars
  <2>2. CASE Refused
      BY <2>2 DEF Refused, HasRead
  <2>3. CASE NoRecipient
      BY <2>3, AcceptedStep DEF NoRecipient, Accepted, HasRead, Steps
  <2>4. CASE Quits
      BY <2>4, AcceptedStep DEF Quits, Accepted, HasRead, Steps
  <2>5. CASE SendsNext
    <3>1. PICK step \in Steps \ {"WAIT_QUIT"} :
            Accepted(step) /\ pstr' = NextCommand
        BY <2>5 DEF SendsNext
    <3> QED
        BY <2>5, <3>1, AcceptedStep DEF SendsNext, Accepted, HasRead
  <2> QED
      BY <2>1, <2>2, <2>3, <2>4, <2>5 DEF HandleRead
<1>4. /\ tcp' \in AsyncTcpClients /\ OneAtATime(tcp') /\ tcp'.conn = "none"
      /\ tcp'.wr # "none" => pstr' \in Commands
  <2>1. CASE tcp' = Close(ReadDone)
      BY <1>1, <2>1, CloseProperties DEF OneAtATime
  <2>2. CASE tcp' = AsyncRecv(ReadDone)
      BY <1>1, <2>2, GoOnProperties DEF OneAtATime, NoOperation
  <2>3. CASE SendsNext
    <3>1. PICK step \in Steps \ {"WAIT_QUIT"} :
            Accepted(step) /\ pstr' = NextCommand /\ tcp' = AsyncSend(ReadDone)
        BY <2>3 DEF SendsNext, Continue
    <3> QED
        BY <1>1, <3>1, GoOnProperties, AcceptedStep DEF OneAtATime, NoOperation
  <2> QED
      BY <2>1, <2>2, <2>3 DEF HandleRead, ReadFails, ReadsOn, Refused, NoRecipient,
                              Quits, Continue
<1> QED
    BY <1>1, <1>2, <1>3, <1>4 DEF serverVars, BufferRead, WritesCommand

(* The write handler and the two timers. *)
LEMMA OtherHandlersConn ==
  ASSUME ConnInv, HandleWrite \/ HandleIoTimer \/ HandleConnectTimer
  PROVE  ConnInv'
<1> USE DEF ConnInv, TypeOK
<1>1. /\ UNCHANGED <<clientVars, serverVars, data_buffer, smooth>>
    BY DEF HandleWrite, HandleIoTimer, HandleConnectTimer
<1>2. CASE HandleWrite
  <2> DEFINE t == [tcp EXCEPT !.wr = "none", !.elapsed = 0]
  <2>1. /\ t \in AsyncTcpClients /\ t.conn = "none" /\ t.rd = "none" /\ t.wr = "none"
        /\ data_buffer = <<>>
    <3>1. tcp.conn = "none" /\ tcp.rd = "none"
        BY <1>2 DEF HandleWrite, OneAtATime
    <3> QED
        BY <3>1, DoneProperties DEF AsyncTcpClients, BufferRead
  <2>2. tcp' \in {Close(t), AsyncRecv(t)}
      BY <1>2 DEF HandleWrite, Continue
  <2>3. tcp' \in AsyncTcpClients /\ OneAtATime(tcp') /\ tcp'.wr = "none"
    <3>1. CASE tcp' = Close(t)
        BY <2>1, <3>1, CloseProperties DEF OneAtATime
    <3>2. CASE tcp' = AsyncRecv(t)
        BY <2>1, <3>2, GoOnProperties DEF OneAtATime, NoOperation
    <3> QED
        BY <2>2, <3>1, <3>2
  <2> QED
      BY <1>1, <2>1, <2>3 DEF clientVars, serverVars, BufferRead, WritesCommand
<1>3. ASSUME NEW t \in AsyncTcpClients,
             t.conn = tcp.conn, t.rd = tcp.rd, t.wr = tcp.wr,
             t.n_socket_status = tcp.n_socket_status,
             tcp' \in {t, Close(t), IoTimerCallAt(t)}
      PROVE  ConnInv'
  <2>1. /\ tcp' \in AsyncTcpClients
        /\ tcp'.conn = "none" <=> tcp.conn = "none"
        /\ tcp'.rd = "none" <=> tcp.rd = "none"
        /\ tcp'.wr = "none" <=> tcp.wr = "none"
        /\ tcp.rd = "ok" => tcp'.rd = "ok"
        /\ IsClosed(tcp) => IsClosed(tcp')
    <3>1. CASE tcp' = t
        BY <1>3, <3>1 DEF IsClosed
    <3>2. CASE tcp' = Close(t)
        BY <1>3, <3>2, CloseProperties
    <3>3. CASE tcp' = IoTimerCallAt(t)
        BY <1>3, <3>3, DoneProperties DEF IoTimerCallAt, AsyncTcpClients, IsClosed
    <3> QED
        BY <1>3, <3>1, <3>2, <3>3
  <2>2. OneAtATime(tcp')
      BY <2>1 DEF OneAtATime, NoOperation
  <2> QED
      BY <1>1, <2>1, <2>2 DEF clientVars, serverVars, BufferRead, WritesCommand
<1>4. CASE HandleIoTimer
  <2> DEFINE t == [tcp EXCEPT !.io_timer = "off"]
  <2>1. /\ t \in AsyncTcpClients
        /\ t.conn = tcp.conn /\ t.rd = tcp.rd /\ t.wr = tcp.wr
        /\ t.n_socket_status = tcp.n_socket_status
      BY DoneProperties DEF AsyncTcpClients
  <2>2. tcp' \in {t, Close(t), IoTimerCallAt(t)}
      BY <1>4 DEF HandleIoTimer, Continue
  <2> QED
      BY <1>3, <2>1, <2>2
<1>5. CASE HandleConnectTimer
  <2> DEFINE t == [tcp EXCEPT !.connect_timer = "off"]
  <2>1. /\ t \in AsyncTcpClients
        /\ t.conn = tcp.conn /\ t.rd = tcp.rd /\ t.wr = tcp.wr
        /\ t.n_socket_status = tcp.n_socket_status
      BY DoneProperties DEF AsyncTcpClients
  <2>2. tcp' \in {t, Close(t), IoTimerCallAt(t)}
      BY <1>5 DEF HandleConnectTimer, Continue
  <2> QED
      BY <1>3, <2>1, <2>2
<1> QED
    BY <1>2, <1>4, <1>5

(* The replies of the server are tokens. *)
LEMMA ReplyTokens ==
  ASSUME NEW code \in {"220", "250", "354", "221", "550"}
  PROVE  Line(code) \in Seq(Tokens) /\ Lines(code) \in Seq(Tokens)
<1>1. /\ Space \in Tokens /\ Dash \in Tokens /\ NewLine \in Tokens
      /\ "t" \in Tokens /\ code \in Tokens
    BY DEF Tokens
<1>2. Line(code) \in Seq(Tokens)
      /\ <<code, Dash, "t", Space, "t", NewLine>> \in Seq(Tokens)
    BY <1>1 DEF Line
<1> QED
    BY <1>2, ConcatProperties DEF Lines

(* What an answer of the server changes. *)
LEMMA AnswerTypes ==
  ASSUME replies \in Seq(Tokens), server \in DOMAIN Follows \cup {"bye", "refused"},
         NEW what \in DOMAIN Follows, Accept(what) \/ Refuse(what)
  PROVE  /\ replies' \in Seq(Tokens)
         /\ server' \in DOMAIN Follows \cup {"bye", "refused"}
         /\ smooth' \in {smooth, FALSE}
<1>1. /\ DOMAIN Follows = {"greeting", "ehlo", "mail", "rcpt", "data", "text", "quit"}
      /\ Follows[what] \in DOMAIN Follows \cup {"bye"}
      /\ Positive[what] \in {"220", "250", "354", "221"}
    BY DEF Follows, Positive
<1>2. CASE Accept(what)
  <2>1. replies' \in {replies \o Line(Positive[what]), replies \o Lines(Positive[what])}
      BY <1>2 DEF Accept
  <2>2. replies' \in Seq(Tokens)
    <3> DEFINE code == Positive[what]
    <3>1. code \in {"220", "250", "354", "221", "550"}
        BY <1>1
    <3>2. replies' \in {replies \o Line(code), replies \o Lines(code)}
        BY <2>1
    <3> HIDE DEF code
    <3>3. replies \o Line(code) \in Seq(Tokens) /\ replies \o Lines(code) \in Seq(Tokens)
        BY <3>1, ReplyTokens, ConcatProperties
    <3> QED
        BY <3>2, <3>3
  <2>3. server' = Follows[what] /\ smooth' = smooth
      BY <1>2 DEF Accept
  <2> QED
      BY <1>1, <2>2, <2>3
<1>3. CASE Refuse(what)
  <2>1. replies' \in Seq(Tokens)
      BY <1>3, ReplyTokens, ConcatProperties DEF Refuse
  <2>2. server' \in {"refused", "mail", server} /\ smooth' = FALSE
      BY <1>3 DEF Refuse
  <2> QED
      BY <1>1, <2>1, <2>2
<1> QED
    BY <1>2, <1>3

(* The server changes nothing of the client. *)
LEMMA ServerConn ==
  ASSUME ConnInv, ServerGreets \/ ServerAnswers
  PROVE  ConnInv'
<1> USE DEF ConnInv, TypeOK
<1>1. "greeting" \in DOMAIN Follows /\ Commands \subseteq DOMAIN Follows
    BY DEF Follows, Commands
<1>2. /\ UNCHANGED <<tcp, clientVars, data_buffer>>
      /\ inbox' \in Seq(Commands \cup {"part"})
    BY HeadTailProperties DEF ServerGreets, ServerAnswers
<1>3. \E what \in DOMAIN Follows : Accept(what) \/ Refuse(what)
    BY <1>1 DEF ServerGreets, ServerAnswers
<1>4. /\ replies' \in Seq(Tokens)
      /\ server' \in DOMAIN Follows \cup {"bye", "refused"}
      /\ smooth' \in BOOLEAN
    BY <1>3, AnswerTypes
<1> QED
    BY <1>2, <1>4 DEF clientVars, BufferRead, WritesCommand

(* What a read returns and what stays on its way make up the replies. *)
LEMMA ReadSplits ==
  ASSUME replies \in Seq(Tokens), NEW n \in 1 .. Len(replies)
  PROVE  /\ SubSeq(replies, 1, n) \in Seq(Tokens)
         /\ SubSeq(replies, 1, n) # <<>>
         /\ SubSeq(replies, n + 1, Len(replies)) \in Seq(Tokens)
         /\ SubSeq(replies, 1, n) \o SubSeq(replies, n + 1, Len(replies)) = replies
<1>1. Len(replies) \in Nat /\ \A i \in 1 .. Len(replies) : replies[i] \in Tokens
    BY LenProperties, ElementOfSeq
<1>2. SubSeq(replies, 1, n) \in Seq(Tokens) /\ Len(SubSeq(replies, 1, n)) = n
  <2>1. \A i \in 1 .. n : replies[i] \in Tokens
      BY <1>1
  <2>2. /\ SubSeq(replies, 1, n) \in Seq(Tokens)
        /\ Len(SubSeq(replies, 1, n)) = IF 1 <= n THEN n - 1 + 1 ELSE 0
      BY <1>1, <2>1, SubSeqProperties
  <2> QED
      BY <1>1, <2>2
<1>3. SubSeq(replies, n + 1, Len(replies)) \in Seq(Tokens)
  <2> DEFINE m == n + 1
  <2>1. m \in Int /\ \A i \in m .. Len(replies) : replies[i] \in Tokens
      BY <1>1
  <2> HIDE DEF m
  <2>2. SubSeq(replies, m, Len(replies)) \in Seq(Tokens)
      BY <1>1, <2>1, SubSeqProperties
  <2> QED
      BY <2>2 DEF m
<1>4. SubSeq(replies, 1, n) \o SubSeq(replies, n + 1, Len(replies)) = replies
  <2>1. /\ 1 \in 1 .. Len(replies) + 1 /\ n \in 1 - 1 .. Len(replies)
        /\ Len(replies) \in n .. Len(replies)
      BY <1>1
  <2>2. SubSeq(replies, 1, n) \o SubSeq(replies, n + 1, Len(replies))
          = SubSeq(replies, 1, Len(replies))
      BY <2>1, ConcatAdjacentSubSeq
  <2> QED
      BY <2>2, SubSeqFull
<1>5. SubSeq(replies, 1, n) # <<>>
    BY <1>1, <1>2, EmptySeq
<1> QED
    BY <1>2, <1>3, <1>4, <1>5

(* The network completes the operation that is pending. *)
LEMMA NetworkConn ==
  ASSUME ConnInv, Network
  PROVE  ConnInv'
<1> USE DEF ConnInv, TypeOK
<1>1. /\ tcp' \in AsyncTcpClients
      /\ tcp'.n_socket_status = tcp.n_socket_status
      /\ tcp'.conn = "none" <=> tcp.conn = "none"
      /\ tcp'.rd = "none" <=> tcp.rd = "none"
      /\ tcp'.wr = "none" <=> tcp.wr = "none"
      /\ tcp.rd = "ok" => tcp'.rd = "ok"
      /\ UNCHANGED clientVars
  <2>1. CASE ConnectionAnswers
      BY <2>1 DEF ConnectionAnswers, ConnectCompletes, AsyncTcpClients, ConnectStates
  <2>2. CASE ReadReturns \/ ReadBreaks
    <3>1. tcp.rd = "pending" /\ tcp' \in {ReadCompletes(tcp, "ok"), ReadCompletes(tcp, "error")}
        BY <2>2 DEF ReadReturns, ReadBreaks
    <3> QED
        BY <2>2, <3>1 DEF ReadReturns, ReadBreaks, ReadCompletes, AsyncTcpClients, Operations
  <2>3. CASE WriteTakes \/ WriteBreaks
    <3>1. tcp.wr = "pending" /\ tcp' \in {WriteCompletes(tcp, "ok"), WriteCompletes(tcp, "error")}
        BY <2>3 DEF WriteTakes, WriteBreaks
    <3> QED
        BY <2>3, <3>1 DEF WriteTakes, WriteBreaks, WriteCompletes, AsyncTcpClients, Operations
  <2> QED
      BY <2>1, <2>2, <2>3 DEF Network
<1>2. OneAtATime(tcp')
    BY <1>1 DEF OneAtATime, NoOperation, IsClosed
<1>3. /\ data_buffer' \in Seq(Tokens) /\ replies' \in Seq(Tokens)
      /\ inbox' \in Seq(Commands \cup {"part"})
      /\ server' = server
      /\ smooth' \in BOOLEAN
      /\ BufferRead'
  <2>1. CASE ReadReturns
    <3>1. tcp'.rd = "ok"
        BY <2>1 DEF ReadReturns, ReadCompletes, AsyncTcpClients
    <3> QED
        BY <2>1, <3>1, ReadSplits DEF ReadReturns, BufferRead
  <2>2. CASE WriteTakes
    <3>1. tcp.wr # "none" /\ pstr \in Commands
        BY <2>2 DEF WriteTakes, WritesCommand
    <3> QED
        BY <1>1, <2>2, <3>1, AppendProperties DEF WriteTakes, BufferRead
  <2>3. CASE ConnectionAnswers \/ ReadBreaks \/ WriteBreaks
    <3>1. tcp.rd = "pending" => data_buffer = <<>>
        BY DEF BufferRead
    <3> QED
        BY <1>1, <2>3, <3>1 DEF ConnectionAnswers, ReadBreaks, WriteBreaks, serverVars, BufferRead
  <2> QED
      BY <2>1, <2>2, <2>3 DEF Network
<1> QED
    BY <1>1, <1>2, <1>3 DEF clientVars, WritesCommand

(* The clock changes the timers and the time only. *)
LEMMA ClockConn ==
  ASSUME ConnInv, Clock
  PROVE  ConnInv'
<1> USE DEF ConnInv, TypeOK
<1>1. /\ tcp' \in AsyncTcpClients
      /\ tcp'.conn = tcp.conn /\ tcp'.rd = tcp.rd /\ tcp'.wr = tcp.wr
      /\ tcp'.n_socket_status = tcp.n_socket_status
  <2>1. CASE IoTimerExpires
      BY <2>1 DEF IoTimerExpires, AsyncTcpClients, Timers
  <2>2. CASE ConnectTimerExpires
      BY <2>2 DEF ConnectTimerExpires, AsyncTcpClients, Timers
  <2>3. CASE SecondPasses
    <3>1. tcp.elapsed + 1 \in 0 .. MaxElapsed
        BY <2>3, TimeoutsAssumption DEF SecondPasses, CanTick, AsyncTcpClients
    <3> QED
        BY <2>3, <3>1 DEF SecondPasses, Tick, AsyncTcpClients
  <2> QED
      BY <2>1, <2>2, <2>3 DEF Clock
<1>2. UNCHANGED <<clientVars, serverVars, data_buffer>> /\ smooth' \in BOOLEAN
    BY DEF Clock, IoTimerExpires, ConnectTimerExpires, SecondPasses
<1> QED
    BY <1>1, <1>2 DEF clientVars, serverVars, OneAtATime, NoOperation, IsClosed,
                     BufferRead, WritesCommand

(* The session begins by connecting. *)
LEMMA ConnInit == Init => ConnInv
<1> SUFFICES ASSUME Init PROVE ConnInv
    OBVIOUS
<1>1. 0 \in 0 .. MaxElapsed
    BY TimeoutsAssumption
<1>2. /\ tcp \in AsyncTcpClients /\ tcp.conn = "starting"
      /\ tcp.rd = "none" /\ tcp.wr = "none"
    BY <1>1 DEF Init, StartConnect, NewClient, AsyncTcpClients, ConnectStates, Operations, Timers
<1>3. "greeting" \in DOMAIN Follows
    BY DEF Follows
<1>4. <<>> \in Seq(Tokens) /\ <<>> \in Seq(Commands \cup {"part"})
    BY EmptySeq
<1> QED
    BY <1>2, <1>3, <1>4 DEF Init, ConnInv, TypeOK, OneAtATime, NoOperation, BufferRead,
                           WritesCommand, Steps

(* Every step keeps the types and one operation. *)
LEMMA ConnStep == ConnInv /\ [Next]_vars => ConnInv'
<1>1. ASSUME ConnInv, UNCHANGED vars PROVE ConnInv'
    BY <1>1 DEF ConnInv, TypeOK, OneAtATime, NoOperation, IsClosed, BufferRead,
                WritesCommand, vars
<1> QED
    BY <1>1, ConnectConn, ReadConn, OtherHandlersConn, ServerConn, NetworkConn, ClockConn
    DEF Next, Handler

(* The members of the session and the state of its server keep their types. *)
THEOREM TypeCorrect == Spec => []TypeOK
<1>1. ConnInv => TypeOK
    BY DEF ConnInv
<1> QED
    BY <1>1, ConnInit, ConnStep, PTL DEF Spec

(* Until it is closed a session has exactly one handler to come, and never *)
(* two: no write is started beside a read, and none is left out.           *)
THEOREM OneHandler == Spec => []OneContinuation
<1>1. ConnInv => OneContinuation
  <2> SUFFICES ASSUME ConnInv PROVE OneContinuation
      OBVIOUS
  <2>1. tcp["conn"] = tcp.conn /\ tcp["rd"] = tcp.rd /\ tcp["wr"] = tcp.wr
      BY DEF ConnInv, TypeOK, AsyncTcpClients
  <2>2. \E op \in {"conn", "rd", "wr"} : Continuations(tcp) \subseteq {op}
      BY <2>1 DEF ConnInv, OneAtATime, NoOperation, Continuations
  <2>3. Cardinality(Continuations(tcp)) <= 1
    <3>1. PICK op \in {"conn", "rd", "wr"} : Continuations(tcp) \subseteq {op}
        BY <2>2
    <3>2. IsFiniteSet({op}) /\ Cardinality({op}) = 1
        BY FS_Singleton
    <3> QED
        BY <3>1, <3>2, FS_Subset
  <2>4. ~IsClosed(tcp) => Continuations(tcp) # {}
      BY <2>1 DEF ConnInv, OneAtATime, NoOperation, Continuations
  <2> QED
      BY <2>3, <2>4 DEF OneContinuation
<1> QED
    BY <1>1, ConnInit, ConnStep, PTL DEF Spec

----------------------------------------------------------------------------
(* The dialogue.                                                           *)

(* The commands in the order they are sent, how many of them the client    *)
(* has sent and how many of them the server has taken.                     *)
Number == [ehlo |-> 1, mail |-> 2, rcpt |-> 3, data |-> 4, text |-> 5, quit |-> 6]
Sent == [EHLO |-> 0, MAILFROM |-> 1, RCPTTO |-> 2, DATA |-> 3, DATAEND |-> 4,
         WAIT_DATA_END |-> 5, WAIT_QUIT |-> 6, QUIT |-> 6]
Taken == [greeting |-> 0, refused |-> 0, ehlo |-> 0, mail |-> 1, rcpt |-> 2,
          data |-> 3, text |-> 4, quit |-> 5, bye |-> 6]

(* What the server has not read yet. *)
Out == ToSet(inbox) \cup {c \in {pstr} : tcp.wr = "pending"}

(* What the client has not judged yet. *)
flow == data_buffer \o replies

Has(s, x) == \E i \in 1 .. Len(s) : s[i] = x

TextSent == n_send_setp \in {"WAIT_DATA_END", "WAIT_QUIT", "QUIT"}

(* A command on its way was sent and is not taken; each is there once. *)
InOrder == /\ \A c \in Out \ {"part"} : /\ Number[c] <= Sent[n_send_setp]
                                        /\ Number[c] > Taken[server]
           /\ Taken[server] <= Sent[n_send_setp]
Once == /\ \A i, j \in 1 .. Len(inbox) :
             inbox[i] = inbox[j] /\ inbox[i] # "part" => i = j
        /\ tcp.wr = "pending" => ~Has(inbox, pstr)

(* Once the text was sent, the server reads no other command but QUIT. *)
AfterText == TextSent => /\ Out \subseteq {"text", "quit", "part"}
                         /\ server \in {"text", "quit", "bye", "mail"}
TextOut == "text" \in Out => server = "text"

(* While 354 is on its way the server waits for the text, and 354 is the   *)
(* last reply of interest.                                                 *)
LastWord(s) == \A i, j \in 1 .. Len(s) :
                 s[i] = "354" /\ i < j => s[j] \notin {"250", "354"}
GoAhead == /\ Has(flow, "354") => server = "text" /\ ~TextSent
           /\ LastWord(flow)

(* The 250 that the client waits for after the text is the server's answer *)
(* to the text.                                                            *)
TextTaken == n_send_setp = "WAIT_DATA_END" /\ Has(flow, "250") => server = "quit"

DialogueInv == /\ InOrder /\ Once /\ AfterText /\ TextOut
               /\ GoAhead /\ TextTaken /\ QuitOnlyWhenTaken

----------------------------------------------------------------------------

(* What is still on its way is a part of what was. *)
LEMMA FlowRest ==
  ASSUME NEW a \in Seq(Tokens), NEW b \in Seq(Tokens), LastWord(a \o b)
  PROVE  /\ LastWord(b)
         /\ \A x : Has(b, x) => Has(a \o b, x)
         /\ a # <<>> => Has(a \o b, Head(a))
         /\ a # <<>> /\ Head(a) = "354" => ~Has(b, "250") /\ ~Has(b, "354")
<1> DEFINE n == Len(a)
           m == Len(b)
<1>1. /\ n \in Nat /\ m \in Nat /\ Len(a \o b) = n + m
      /\ \A i \in 1 .. n + m : (a \o b)[i] = IF i <= n THEN a[i] ELSE b[i - n]
    BY LenProperties, ConcatProperties
<1>2. \A i \in 1 .. m : n + i \in 1 .. n + m /\ (a \o b)[n + i] = b[i]
  <2> SUFFICES ASSUME NEW i \in 1 .. m
               PROVE  n + i \in 1 .. n + m /\ (a \o b)[n + i] = b[i]
      OBVIOUS
  <2>1. n + i \in 1 .. n + m /\ ~(n + i <= n) /\ n + i - n = i
      BY <1>1
  <2> QED
      BY <1>1, <2>1
<1>3. LastWord(b)
  <2> SUFFICES ASSUME NEW i \in 1 .. m, NEW j \in 1 .. m, b[i] = "354", i < j
               PROVE  b[j] \notin {"250", "354"}
      BY DEF LastWord
  <2>1. n + i < n + j
      BY <1>1
  <2> QED
      BY <1>1, <1>2, <2>1 DEF LastWord
<1>4. \A x : Has(b, x) => Has(a \o b, x)
    BY <1>1, <1>2 DEF Has
<1>5. a # <<>> => 1 \in 1 .. n /\ 1 \in 1 .. n + m /\ (a \o b)[1] = Head(a)
  <2> SUFFICES ASSUME a # <<>>
               PROVE  1 \in 1 .. n /\ 1 \in 1 .. n + m /\ (a \o b)[1] = Head(a)
      OBVIOUS
  <2>1. n > 0
      BY <1>1, EmptySeq
  <2> QED
      BY <1>1, <2>1
<1>6. a # <<>> => Has(a \o b, Head(a))
    BY <1>1, <1>5 DEF Has
<1>7. ASSUME a # <<>>, Head(a) = "354", NEW i \in 1 .. m
      PROVE  b[i] \notin {"250", "354"}
  <2>1. 1 < n + i
      BY <1>1, <1>5, <1>7
  <2> QED
      BY <1>1, <1>2, <1>5, <1>7, <2>1 DEF LastWord
<1> QED
    BY <1>3, <1>4, <1>6, <1>7 DEF Has

(* What an answer adds to what is on its way. *)
LEMMA FlowGrows ==
  ASSUME NEW s \in Seq(Tokens), NEW code \in {"220", "250", "354", "221", "550"},
         NEW reply \in {Line(code), Lines(code)}
  PROVE  /\ \A x \in {"250", "354"} : Has(s \o reply, x) => Has(s, x) \/ x = code
         /\ ~Has(s, "354") /\ (code = "354" => reply = Line(code)) => LastWord(s \o reply)
<1> DEFINE n == Len(s)
           k == Len(reply)
<1>1. /\ n \in Nat /\ k \in Nat /\ reply \in Seq(Tokens) /\ Len(s \o reply) = n + k
      /\ \A i \in 1 .. n + k : (s \o reply)[i] = IF i <= n THEN s[i] ELSE reply[i - n]
    BY LenProperties, ReplyTokens, ConcatProperties
<1>2. /\ \A i \in 1 .. k : reply[i] \in {code, Space, Dash, "t", NewLine}
      /\ reply = Line(code) => \A i \in 2 .. k : reply[i] \in {Space, "t", NewLine}
  <2>1. /\ Len(Line(code)) = 4
        /\ Line(code)[1] = code /\ Line(code)[2] = Space
        /\ Line(code)[3] = "t" /\ Line(code)[4] = NewLine
      BY DEF Line
  <2>2. CASE reply = Line(code)
    <3>1. \A i \in 1 .. 4 : i = 1 \/ i = 2 \/ i = 3 \/ i = 4
        OBVIOUS
    <3>2. \A i \in 2 .. 4 : i = 2 \/ i = 3 \/ i = 4
        OBVIOUS
    <3> QED
        BY <2>1, <2>2, <3>1, <3>2
  <2>3. CASE reply = Lines(code) /\ reply # Line(code)
    <3> DEFINE first == <<code, Dash, "t", Space, "t", NewLine>>
    <3>1. /\ first \in Seq({code, Space, Dash, "t", NewLine})
          /\ Line(code) \in Seq({code, Space, Dash, "t", NewLine})
        BY DEF Line
    <3> HIDE DEF first
    <3>2. first \o Line(code) \in Seq({code, Space, Dash, "t", NewLine})
        BY <3>1, ConcatProperties
    <3>3. reply = first \o Line(code)
        BY <2>3 DEF Lines, first
    <3> QED
        BY <2>3, <3>2, <3>3, ElementOfSeq
  <2> QED
      BY <2>2, <2>3
<1>3. \A x \in {"250", "354"} : x \notin {Space, Dash, "t", NewLine}
    BY DEF Space, Dash, NewLine
<1>4. \A i \in 1 .. n + k : i <= n \/ (i - n \in 1 .. k /\ (s \o reply)[i] = reply[i - n])
    BY <1>1
<1> HIDE DEF n, k
<1>5. ASSUME NEW x \in {"250", "354"}, Has(s \o reply, x), x # code
      PROVE  Has(s, x)
  <2>1. PICK i \in 1 .. n + k : (s \o reply)[i] = x
      BY <1>1, <1>5 DEF Has
  <2>2. i <= n
      BY <1>2, <1>3, <1>4, <1>5, <2>1
  <2>3. i \in 1 .. n /\ s[i] = x
      BY <1>1, <2>1, <2>2
  <2> QED
      BY <2>3 DEF Has, n
<1>6. ASSUME ~Has(s, "354"), code = "354" => reply = Line(code),
             NEW i \in 1 .. n + k, NEW j \in 1 .. n + k,
             (s \o reply)[i] = "354", i < j
      PROVE  (s \o reply)[j] \notin {"250", "354"}
  <2>1. ~(i <= n)
    <3> SUFFICES ASSUME i <= n PROVE FALSE
        OBVIOUS
    <3>1. i \in 1 .. n /\ s[i] = "354"
        BY <1>1, <1>6
    <3> QED
        BY <1>6, <3>1 DEF Has, n
  <2>2. reply[i - n] = "354" /\ i - n \in 1 .. k
      BY <1>4, <1>6, <2>1
  <2>3. code = "354" /\ reply = Line(code)
      BY <1>2, <1>3, <1>6, <2>2
  <2>4. j - n \in 2 .. k /\ ~(j <= n) /\ j - n \in 1 .. k
      BY <1>1, <1>6, <2>1
  <2>5. (s \o reply)[j] \in {Space, "t", NewLine}
      BY <1>2, <1>4, <2>3, <2>4
  <2> QED
      BY <1>3, <2>5
<1>7. ASSUME ~Has(s, "354"), code = "354" => reply = Line(code)
      PROVE  LastWord(s \o reply)
    BY <1>1, <1>6, <1>7 DEF LastWord
<1> QED
    BY <1>5, <1>7

----------------------------------------------------------------------------

(* A step that neither sends nor answers and judges no reply. *)
LEMMA QuietStep ==
  ASSUME DialogueInv,
         UNCHANGED <<n_send_setp, inbox, server>>,
         tcp'.wr = "pending" => tcp.wr = "pending" /\ pstr' = pstr,
         flow' = flow
  PROVE  DialogueInv'
<1>1. Out' \subseteq Out
    BY DEF Out
<1>2. InOrder' /\ AfterText' /\ TextOut'
    BY <1>1 DEF DialogueInv, InOrder, AfterText, TextOut, TextSent
<1>3. Once'
    BY DEF DialogueInv, Once, Has
<1>4. GoAhead' /\ TextTaken' /\ QuitOnlyWhenTaken'
    BY DEF DialogueInv, GoAhead, TextTaken, QuitOnlyWhenTaken, TextSent
<1> QED
    BY <1>2, <1>3, <1>4 DEF DialogueInv

(* A reply is judged and no command follows: the step stays, or leaves out *)
(* a command that the client does not send.                                *)
LEMMA JudgeStep ==
  ASSUME ConnInv, DialogueInv,
         UNCHANGED <<inbox, server, replies>>, data_buffer' = <<>>,
         tcp'.wr = "none",
         \/ n_send_setp' = n_send_setp
         \/ n_send_setp = "RCPTTO" /\ n_send_setp' = "DATA"
         \/ n_send_setp = "WAIT_QUIT" /\ n_send_setp' = "QUIT"
  PROVE  DialogueInv'
<1>1. Out' \subseteq Out
    BY DEF Out
<1>2. flow' = replies /\ data_buffer \in Seq(Tokens) /\ replies \in Seq(Tokens)
    BY ConcatEmptySeq DEF flow, ConnInv, TypeOK
<1>3. LastWord(flow') /\ \A x : Has(flow', x) => Has(flow, x)
    BY <1>2, FlowRest DEF DialogueInv, GoAhead, flow
<1>4. /\ Sent[n_send_setp] \in Int /\ Sent[n_send_setp'] \in Int
      /\ Sent[n_send_setp] <= Sent[n_send_setp']
  <2>1. \A step \in Steps : Sent[step] \in Int
      BY DEF Sent, Steps
  <2>2. Sent["RCPTTO"] = 2 /\ Sent["DATA"] = 3 /\ Sent["WAIT_QUIT"] = 6 /\ Sent["QUIT"] = 6
      BY DEF Sent
  <2> QED
      BY <2>1, <2>2 DEF ConnInv, TypeOK
<1>5. InOrder'
  <2>1. \A c \in Commands : Number[c] \in Int
      BY DEF Number, Commands
  <2>2. Taken[server] \in Int
      BY DEF ConnInv, TypeOK, Taken, Follows
  <2>3. Out \ {"part"} \subseteq Commands
      BY DEF ConnInv, TypeOK, Out, ToSet, WritesCommand
  <2> QED
      BY <1>1, <1>4, <2>1, <2>2, <2>3 DEF DialogueInv, InOrder
<1>6. Once'
    BY DEF DialogueInv, Once, Has
<1>7. AfterText' /\ TextOut' /\ QuitOnlyWhenTaken'
    BY <1>1 DEF DialogueInv, AfterText, TextOut, TextSent, QuitOnlyWhenTaken
<1>8. GoAhead' /\ TextTaken'
    BY <1>3 DEF DialogueInv, GoAhead, TextTaken, TextSent
<1> QED
    BY <1>5, <1>6, <1>7, <1>8 DEF DialogueInv

(* A reply is accepted and the next command written. *)
LEMMA SendStep ==
  ASSUME ConnInv, DialogueInv, SendsNext
  PROVE  DialogueInv'
<1>1. PICK step \in Steps \ {"WAIT_QUIT"} :
        /\ Accepted(step)
        /\ pstr' = NextCommand
        /\ tcp' = AsyncSend(ReadDone)
    BY DEF SendsNext, Continue
<1>2. /\ n_send_setp = step /\ n_send_setp' = NextStep
      /\ step \in Steps \ {"WAIT_QUIT", "QUIT"}
    BY <1>1, AcceptedStep DEF ConnInv
<1>3. /\ UNCHANGED <<inbox, server, replies>> /\ data_buffer' = <<>>
      /\ data_buffer # <<>> /\ Expected(Head(data_buffer))
      /\ tcp.wr # "pending"
  <2>1. tcp.rd # "none"
      BY <1>1 DEF Accepted, HasRead
  <2> QED
      BY <1>1, <2>1, CommandLineNotEmpty DEF ConnInv, TypeOK, OneAtATime, Accepted, HasRead,
                                            serverVars, StatusCode
<1>4. flow' = replies /\ data_buffer \in Seq(Tokens) /\ replies \in Seq(Tokens)
    BY <1>3, ConcatEmptySeq DEF flow, ConnInv, TypeOK
<1>5. /\ LastWord(flow') /\ \A x : Has(flow', x) => Has(flow, x)
      /\ Has(flow, Head(data_buffer))
      /\ Head(data_buffer) = "354" => ~Has(flow', "250") /\ ~Has(flow', "354")
    BY <1>3, <1>4, FlowRest DEF DialogueInv, GoAhead, flow
<1>6. /\ Number[pstr'] = Sent[n_send_setp'] /\ Sent[n_send_setp'] = Sent[n_send_setp] + 1
      /\ Sent[n_send_setp] \in Nat
      /\ pstr' \in Commands
      /\ pstr' = "text" <=> n_send_setp = "DATAEND"
      /\ n_send_setp' = "WAIT_DATA_END" <=> n_send_setp = "DATAEND"
      /\ n_send_setp' = "WAIT_QUIT" <=> n_send_setp = "WAIT_DATA_END"
      /\ n_send_setp' # "QUIT"
      /\ pstr' = "quit" <=> n_send_setp = "WAIT_DATA_END"
    BY <1>1, <1>2 DEF Steps, NextStep, NextCommand, Number, Sent, Commands
<1>7. /\ n_send_setp = "DATAEND" => Head(data_buffer) = "354"
      /\ n_send_setp = "WAIT_DATA_END" => Head(data_buffer) = "250"
    BY <1>3 DEF Expected
<1>8. /\ n_send_setp = "DATAEND" => server = "text"
      /\ n_send_setp = "WAIT_DATA_END" => server = "quit"
    BY <1>5, <1>7 DEF DialogueInv, GoAhead, TextTaken
<1>9. /\ Out' \subseteq Out \cup {pstr'}
      /\ Out = ToSet(inbox) /\ Out \ {"part"} \subseteq Commands
    BY <1>3 DEF Out, ToSet, ConnInv, TypeOK
<1>10. /\ \A c \in Commands : Number[c] \in Nat
       /\ Taken[server] \in Nat
    BY DEF Number, Commands, ConnInv, TypeOK, Taken, Follows
<1>11. InOrder'
  <2>1. ASSUME NEW c \in Out' \ {"part"}
        PROVE  Number[c] <= Sent[n_send_setp'] /\ Number[c] > Taken[server']
    <3>1. CASE c \in Out
        BY <1>3, <1>6, <1>9, <1>10, <3>1, <2>1 DEF DialogueInv, InOrder
    <3>2. CASE c = pstr'
        BY <1>3, <1>6, <1>10, <3>2 DEF DialogueInv, InOrder
    <3> QED
        BY <1>9, <2>1, <3>1, <3>2
  <2>2. Taken[server'] <= Sent[n_send_setp']
      BY <1>3, <1>6, <1>10 DEF DialogueInv, InOrder
  <2> QED
      BY <2>1, <2>2 DEF InOrder
<1>12. Once'
  <2>1. ~Has(inbox, pstr')
    <3> SUFFICES ASSUME Has(inbox, pstr') PROVE FALSE
        OBVIOUS
    <3>1. pstr' \in Out \ {"part"}
        BY <1>6, <1>9 DEF Has, ToSet, Commands, ConnInv, TypeOK
    <3>2. Number[pstr'] <= Sent[n_send_setp]
        BY <3>1 DEF DialogueInv, InOrder
    <3> QED
        BY <1>6, <3>2
  <2> QED
      BY <1>3, <2>1 DEF DialogueInv, Once, Has
<1>13. AfterText'
  <2> SUFFICES ASSUME TextSent'
               PROVE  /\ Out' \subseteq {"text", "quit", "part"}
                      /\ server' \in {"text", "quit", "bye", "mail"}
      BY DEF AfterText
  <2>1. n_send_setp \in {"DATAEND", "WAIT_DATA_END"}
      BY <1>6 DEF TextSent
  <2>2. pstr' \in {"text", "quit"} /\ server' \in {"text", "quit"}
      BY <1>3, <1>6, <1>8, <2>1
  <2>3. Out \subseteq {"text", "quit", "part"}
    <3>1. CASE n_send_setp = "DATAEND"
      <4>1. \A c \in Out \ {"part"} : Number[c] <= 4 /\ Number[c] > 4 /\ Number[c] \in Nat
          BY <1>8, <1>9, <1>10, <3>1 DEF DialogueInv, InOrder, Sent, Taken
      <4> QED
          BY <4>1
    <3>2. CASE n_send_setp = "WAIT_DATA_END"
        BY <3>2 DEF DialogueInv, AfterText, TextSent
    <3> QED
        BY <2>1, <3>1, <3>2
  <2> QED
      BY <1>9, <2>2, <2>3
<1>14. TextOut'
    BY <1>3, <1>6, <1>8, <1>9 DEF DialogueInv, TextOut
<1>15. GoAhead'
  <2>1. Has(flow', "354") => server' = "text" /\ ~TextSent'
    <3> SUFFICES ASSUME Has(flow', "354") PROVE server' = "text" /\ ~TextSent'
        OBVIOUS
    <3>1. Has(flow, "354") /\ n_send_setp # "DATAEND"
        BY <1>5, <1>7
    <3>2. server = "text" /\ ~TextSent
        BY <3>1 DEF DialogueInv, GoAhead
    <3> QED
        BY <1>2, <1>3, <1>6, <3>1, <3>2 DEF TextSent
  <2> QED
      BY <1>5, <2>1 DEF GoAhead
<1>16. TextTaken'
    BY <1>5, <1>6, <1>7 DEF TextTaken
<1>17. QuitOnlyWhenTaken'
    BY <1>3, <1>6, <1>8 DEF QuitOnlyWhenTaken
<1> QED
    BY <1>11, <1>12, <1>13, <1>14, <1>15, <1>16, <1>17 DEF DialogueInv

(* A write takes the command, or a part of it that is none. *)
LEMMA TakesStep ==
  ASSUME ConnInv, DialogueInv, WriteTakes
  PROVE  DialogueInv'
<1>1. PICK taken \in {pstr, "part"} : inbox' = Append(inbox, taken)
    BY DEF WriteTakes
<1>2. /\ tcp.wr = "pending" /\ tcp'.wr = "ok"
      /\ UNCHANGED <<n_send_setp, pstr, server, data_buffer, replies>>
    BY DEF WriteTakes, WriteCompletes, clientVars, ConnInv, TypeOK, AsyncTcpClients
<1>3. /\ pstr \in Commands /\ pstr # "part" /\ pstr \in Out
      /\ ~Has(inbox, pstr)
    BY <1>2 DEF ConnInv, WritesCommand, Commands, Out, DialogueInv, Once
<1>4. /\ Len(inbox) \in Nat /\ Len(inbox') = Len(inbox) + 1
      /\ \A i \in 1 .. Len(inbox) : inbox'[i] = inbox[i]
      /\ inbox'[Len(inbox) + 1] = taken
      /\ DOMAIN inbox = 1 .. Len(inbox) /\ DOMAIN inbox' = 1 .. Len(inbox) + 1
  <2>1. inbox \in Seq(Commands \cup {"part"}) /\ taken \in Commands \cup {"part"}
      BY <1>3 DEF ConnInv, TypeOK
  <2> QED
      BY <1>1, <2>1, AppendProperties, LenProperties
<1>5. \A i \in 1 .. Len(inbox') : i \in 1 .. Len(inbox) \/ i = Len(inbox) + 1
    BY <1>4
<1>6. Out' \subseteq Out \cup {"part"}
  <2>1. ToSet(inbox') \subseteq ToSet(inbox) \cup {taken}
      BY <1>4, <1>5 DEF ToSet
  <2> QED
      BY <1>2, <1>3, <2>1 DEF Out
<1>7. InOrder' /\ AfterText' /\ TextOut'
    BY <1>2, <1>6 DEF DialogueInv, InOrder, AfterText, TextOut, TextSent
<1>8. Once'
  <2>1. ASSUME NEW i \in 1 .. Len(inbox'), NEW j \in 1 .. Len(inbox'),
               inbox'[i] = inbox'[j], inbox'[i] # "part"
        PROVE  i = j
    <3>1. CASE i \in 1 .. Len(inbox) /\ j \in 1 .. Len(inbox)
        BY <1>4, <2>1, <3>1 DEF DialogueInv, Once
    <3>2. CASE i = Len(inbox) + 1 /\ j = Len(inbox) + 1
        BY <3>2
    <3>3. CASE i \in 1 .. Len(inbox) /\ j = Len(inbox) + 1
        BY <1>3, <1>4, <2>1, <3>3 DEF Has
    <3>4. CASE j \in 1 .. Len(inbox) /\ i = Len(inbox) + 1
        BY <1>3, <1>4, <2>1, <3>4 DEF Has
    <3> QED
        BY <1>5, <3>1, <3>2, <3>3, <3>4
  <2> QED
      BY <1>2, <2>1 DEF Once
<1>9. GoAhead' /\ TextTaken' /\ QuitOnlyWhenTaken'
    BY <1>2 DEF DialogueInv, GoAhead, TextTaken, QuitOnlyWhenTaken, TextSent, flow
<1> QED
    BY <1>7, <1>8, <1>9 DEF DialogueInv

(* The greeting is no answer to a command. *)
LEMMA GreetStep ==
  ASSUME ConnInv, DialogueInv, ServerGreets
  PROVE  DialogueInv'
<1>1. /\ server = "greeting" /\ server' \in {"ehlo", "refused"}
      /\ UNCHANGED <<tcp, n_send_setp, pstr, data_buffer, inbox>>
    BY DEF ServerGreets, Accept, Refuse, Follows, clientVars
<1>2. \E code \in {"220", "550"} : \E reply \in {Line(code), Lines(code)} :
        replies' = replies \o reply
    BY DEF ServerGreets, Accept, Refuse, Positive
<1>3. PICK code \in {"220", "550"} : \E reply \in {Line(code), Lines(code)} :
        replies' = replies \o reply
    BY <1>2
<1>3a. PICK reply \in {Line(code), Lines(code)} : replies' = replies \o reply
    BY <1>3
<1>4. flow' = flow \o reply /\ flow \in Seq(Tokens)
  <2>1. /\ data_buffer \in Seq(Tokens) /\ replies \in Seq(Tokens) /\ reply \in Seq(Tokens)
      BY ReplyTokens DEF ConnInv, TypeOK
  <2>2. \A a, b, c \in Seq(Tokens) : (a \o b) \o c = a \o (b \o c)
      BY ConcatAssociative
  <2> QED
      BY <1>1, <1>3a, <2>1, <2>2, ConcatProperties DEF flow
<1>5. ~Has(flow, "354") /\ ~TextSent
    BY <1>1 DEF DialogueInv, GoAhead, AfterText
<1>6. ~Has(flow', "354") /\ LastWord(flow')
    BY <1>4, <1>5, FlowGrows
<1>7. /\ Out' = Out /\ Taken[server] = 0 /\ Taken[server'] = 0
    BY <1>1 DEF Out, Taken
<1>8. "text" \notin Out
    BY <1>1 DEF DialogueInv, TextOut
<1> QED
    BY <1>1, <1>5, <1>6, <1>7, <1>8
    DEF DialogueInv, InOrder, Once, AfterText, TextOut, TextSent, GoAhead, TextTaken,
        QuitOnlyWhenTaken, Has

(* The server answers the next command in its inbox. *)
LEMMA AnswerStep ==
  ASSUME ConnInv, DialogueInv, ServerAnswers
  PROVE  DialogueInv'
<1> DEFINE what == Head(inbox)
<1>1. /\ inbox # <<>> /\ what \in Commands /\ inbox' = Tail(inbox)
      /\ Accept(what) \/ Refuse(what)
      /\ UNCHANGED <<tcp, n_send_setp, pstr, data_buffer>>
    BY DEF ServerAnswers, clientVars
<1>2. /\ Len(inbox) \in Nat \ {0} /\ Len(inbox') = Len(inbox) - 1
      /\ \A i \in 1 .. Len(inbox') : inbox'[i] = inbox[i + 1]
      /\ inbox[1] = what
      /\ DOMAIN inbox = 1 .. Len(inbox) /\ DOMAIN inbox' = 1 .. Len(inbox')
  <2>1. inbox \in Seq(Commands \cup {"part"})
      BY DEF ConnInv, TypeOK
  <2> QED
      BY <1>1, <2>1, HeadTailProperties, EmptySeq, LenProperties
<1>3. \A i \in 1 .. Len(inbox') : i + 1 \in 1 .. Len(inbox) /\ i + 1 # 1
    BY <1>2
<1>4. what # "part" /\ what \in Out
    BY <1>1, <1>2 DEF Commands, Out, ToSet
<1>5. Out' \subseteq Out \ {what}
  <2>1. \A i \in 1 .. Len(inbox') : inbox'[i] \in ToSet(inbox) /\ inbox'[i] # what
    <3> TAKE i \in 1 .. Len(inbox')
    <3>1. i + 1 \in 1 .. Len(inbox) /\ i + 1 # 1 /\ inbox'[i] = inbox[i + 1]
        BY <1>2, <1>3
    <3>2. inbox'[i] # what
      <4>1. 1 \in 1 .. Len(inbox)
          BY <1>2
      <4> QED
          BY <1>2, <1>4, <3>1, <4>1, Zenon DEF DialogueInv, Once
    <3> QED
        BY <1>2, <3>1, <3>2, Zenon DEF ToSet
  <2>2. tcp.wr = "pending" => pstr # what
      BY <1>2 DEF DialogueInv, Once, Has
  <2> QED
      BY <1>1, <1>2, <2>1, <2>2 DEF Out, ToSet
<1>6. Once'
  <2>1. ASSUME NEW i \in 1 .. Len(inbox'), NEW j \in 1 .. Len(inbox'),
               inbox'[i] = inbox'[j], inbox'[i] # "part"
        PROVE  i = j
    <3>1. i + 1 = j + 1
        BY <1>2, <1>3, <2>1 DEF DialogueInv, Once
    <3> QED
        BY <3>1
  <2>2. tcp'.wr = "pending" => ~Has(inbox', pstr')
      BY <1>1, <1>2, <1>3 DEF DialogueInv, Once, Has
  <2> QED
      BY <2>1, <2>2 DEF Once
<1> HIDE DEF what
<1>7. /\ Number[what] <= Sent[n_send_setp] /\ Number[what] > Taken[server]
      /\ server = "text" => what = "text"
    BY <1>1, <1>4 DEF DialogueInv, InOrder, Accept, Refuse
<1>8. ~Has(flow, "354")
  <2> SUFFICES ASSUME server = "text", ~TextSent PROVE FALSE
      BY DEF DialogueInv, GoAhead
  <2>1. n_send_setp \in {"EHLO", "MAILFROM", "RCPTTO", "DATA", "DATAEND"}
      BY DEF TextSent, ConnInv, TypeOK, Steps
  <2>2. Sent[n_send_setp] <= 4 /\ Sent[n_send_setp] \in Nat
      BY <2>1 DEF Sent
  <2>3. Number[what] = 5
      BY <1>7 DEF Number
  <2> QED
      BY <1>7, <2>2, <2>3
<1>9. ASSUME NEW code \in {"220", "250", "354", "221", "550"},
             NEW reply \in {Line(code), Lines(code)},
             code = "354" => reply = Line(code),
             replies' = replies \o reply
      PROVE  /\ LastWord(flow')
             /\ \A x \in {"250", "354"} : Has(flow', x) => Has(flow, x) \/ x = code
  <2>1. /\ data_buffer \in Seq(Tokens) /\ replies \in Seq(Tokens) /\ reply \in Seq(Tokens)
      BY ReplyTokens DEF ConnInv, TypeOK
  <2>2. \A a, b, c \in Seq(Tokens) : (a \o b) \o c = a \o (b \o c)
      BY ConcatAssociative
  <2>3. flow' = flow \o reply /\ flow \in Seq(Tokens)
      BY <1>1, <1>9, <2>1, <2>2, ConcatProperties DEF flow
  <2> QED
      BY <1>8, <1>9, <2>3, FlowGrows
<1>10. CASE Accept(what)
  <2>1. /\ server = what /\ server' = Follows[what]
        /\ Positive[what] \in {"220", "250", "354", "221", "550"}
        /\ Positive[what] = "354" <=> what = "data"
        /\ \/ replies' = replies \o Line(Positive[what])
           \/ what = "ehlo" /\ replies' = replies \o Lines(Positive[what])
      BY <1>1, <1>10 DEF Accept, Positive, Commands
  <2>2. /\ LastWord(flow')
        /\ \A x \in {"250", "354"} : Has(flow', x) => Has(flow, x) \/ x = Positive[what]
    <3>1. CASE replies' = replies \o Line(Positive[what])
        BY <1>9, <2>1, <3>1
    <3>2. CASE what = "ehlo" /\ replies' = replies \o Lines(Positive[what])
        BY <1>9, <2>1, <3>2
    <3> QED
        BY <2>1, <3>1, <3>2
  <2>3. /\ Taken[server'] = Number[what] /\ Taken[server] = Number[what] - 1
        /\ Number[what] \in Nat
        /\ \A c \in Commands : Number[c] \in Nat /\ (Number[c] = Number[what] => c = what)
      BY <1>1, <2>1 DEF Taken, Number, Follows, Commands
  <2>4. Out \ {"part"} \subseteq Commands
      BY DEF ConnInv, TypeOK, Out, ToSet, WritesCommand
  <2>5. InOrder'
    <3>1. ASSUME NEW c \in Out' \ {"part"}
          PROVE  Number[c] <= Sent[n_send_setp'] /\ Number[c] > Taken[server']
      <4>1. /\ c \in Commands /\ c # what
            /\ Number[c] <= Sent[n_send_setp] /\ Number[c] > Taken[server]
          BY <1>5, <2>4 DEF DialogueInv, InOrder
      <4>2. Number[c] # Number[what] /\ Number[c] \in Nat
          BY <2>3, <4>1
      <4> QED
          BY <1>1, <2>3, <4>1, <4>2
    <3> QED
        BY <1>1, <1>7, <2>3, <3>1 DEF InOrder
  <2>6. AfterText'
    <3> SUFFICES ASSUME TextSent' PROVE /\ Out' \subseteq {"text", "quit", "part"}
                                        /\ server' \in {"text", "quit", "bye", "mail"}
        BY DEF AfterText
    <3>1. Out \subseteq {"text", "quit", "part"}
        BY <1>1 DEF DialogueInv, AfterText, TextSent
    <3>2. what \in {"text", "quit"}
        BY <1>4, <3>1
    <3> QED
        BY <1>5, <2>1, <3>1, <3>2 DEF Follows
  <2>7. TextOut'
      BY <1>5, <2>1 DEF DialogueInv, TextOut
  <2>8. GoAhead'
    <3>1. ASSUME Has(flow', "354") PROVE server' = "text" /\ ~TextSent'
      <4>1. what = "data"
          BY <1>8, <2>1, <2>2, <3>1
      <4>2. ~TextSent
          BY <1>4, <4>1 DEF DialogueInv, AfterText
      <4> QED
          BY <1>1, <2>1, <4>1, <4>2 DEF Follows, TextSent
    <3> QED
        BY <2>2, <3>1 DEF GoAhead
  <2>9. TextTaken'
    <3> SUFFICES ASSUME n_send_setp = "WAIT_DATA_END" PROVE server' = "quit"
        BY <1>1 DEF TextTaken
    <3>1. what \in {"text", "quit"}
        BY <1>4 DEF DialogueInv, AfterText, TextSent
    <3>2. what # "quit"
        BY <1>7 DEF Number, Sent
    <3> QED
        BY <2>1, <3>1, <3>2 DEF Follows
  <2>10. QuitOnlyWhenTaken'
    <3> SUFFICES ASSUME n_send_setp \in {"WAIT_QUIT", "QUIT"}
                 PROVE  server' \in {"quit", "bye"}
        BY <1>1 DEF QuitOnlyWhenTaken
    <3>1. server \in {"quit", "bye"}
        BY DEF DialogueInv, QuitOnlyWhenTaken
    <3> QED
        BY <1>1, <2>1, <3>1 DEF Commands, Follows
  <2> QED
      BY <1>6, <2>5, <2>6, <2>7, <2>8, <2>9, <2>10 DEF DialogueInv
<1>11. CASE Refuse(what)
  <2>1. /\ what # "greeting"
        /\ replies' = replies \o Line("550")
        /\ server = "text" => server' = "mail"
        /\ server # "text" => server' = server
      BY <1>1, <1>11 DEF Refuse, Commands
  <2>2. /\ LastWord(flow')
        /\ \A x \in {"250", "354"} : Has(flow', x) => Has(flow, x)
      BY <1>9, <2>1
  <2>3. Taken[server'] <= Taken[server] /\ Taken[server] \in Nat /\ Taken[server'] \in Nat
      BY <2>1 DEF ConnInv, TypeOK, Taken, Follows
  <2>4. Out \ {"part"} \subseteq Commands /\ \A c \in Commands : Number[c] \in Nat
      BY DEF ConnInv, TypeOK, Out, ToSet, WritesCommand, Number, Commands
  <2>5. InOrder'
    <3>1. Sent[n_send_setp] \in Nat
        BY DEF ConnInv, TypeOK, Sent, Steps
    <3>2. Taken[server'] <= Sent[n_send_setp']
        BY <1>1, <2>3, <3>1 DEF DialogueInv, InOrder
    <3>3. ASSUME NEW c \in Out' \ {"part"}
          PROVE  Number[c] <= Sent[n_send_setp'] /\ Number[c] > Taken[server']
      <4>1. c \in Out \ {"part"} /\ Number[c] \in Nat
          BY <1>5, <2>4
      <4> QED
          BY <1>1, <2>3, <4>1 DEF DialogueInv, InOrder
    <3> QED
        BY <3>2, <3>3 DEF InOrder
  <2>6. AfterText' /\ TextOut'
    <3>1. AfterText'
        BY <1>1, <1>5, <2>1 DEF DialogueInv, AfterText, TextSent
    <3>2. TextOut'
        BY <1>5, <1>7, <2>1 DEF DialogueInv, TextOut
    <3> QED
        BY <3>1, <3>2
  <2>7. GoAhead'
      BY <1>8, <2>2 DEF GoAhead
  <2>8. TextTaken'
    <3> SUFFICES ASSUME n_send_setp = "WAIT_DATA_END", Has(flow, "250") PROVE FALSE
        BY <1>1, <2>2 DEF TextTaken
    <3>1. server = "quit"
        BY DEF DialogueInv, TextTaken
    <3>2. what \in {"text", "quit"} /\ what # "text"
        BY <1>4, <3>1 DEF DialogueInv, AfterText, TextSent, TextOut
    <3> QED
        BY <1>7, <3>2 DEF Number, Sent
  <2>9. QuitOnlyWhenTaken'
      BY <1>1, <2>1 DEF DialogueInv, QuitOnlyWhenTaken
  <2> QED
      BY <1>6, <2>5, <2>6, <2>7, <2>8, <2>9 DEF DialogueInv
<1> QED
    BY <1>1, <1>10, <1>11

(* The read handler. *)
LEMMA ReadStep ==
  ASSUME ConnInv, DialogueInv, HandleRead
  PROVE  DialogueInv'
<1>1. CASE SendsNext
    BY <1>1, SendStep
<1>2. CASE ~SendsNext
  <2>1. /\ UNCHANGED <<inbox, server, replies>> /\ data_buffer' = <<>>
      BY ReadConn DEF serverVars
  <2>2. /\ ReadDone \in AsyncTcpClients /\ ReadDone.wr = "none"
    <3>1. tcp.rd # "none"
        BY DEF HandleRead, ReadFails, ReadsOn, Refused, NoRecipient, Quits, SendsNext,
               Accepted, HasRead
    <3>2. tcp.wr = "none" /\ tcp \in AsyncTcpClients
        BY <3>1 DEF ConnInv, TypeOK, OneAtATime
    <3> QED
        BY <3>2, DoneProperties DEF ReadDone, AsyncTcpClients
  <2>3. tcp'.wr = "none"
    <3>1. tcp' \in {Close(ReadDone), AsyncRecv(ReadDone)}
        BY <1>2 DEF HandleRead, ReadFails, ReadsOn, Refused, NoRecipient, Quits, Continue
    <3> QED
        BY <2>2, <3>1, CloseProperties, GoOnProperties
  <2>4. \/ n_send_setp' = n_send_setp
        \/ n_send_setp = "RCPTTO" /\ n_send_setp' = "DATA"
        \/ n_send_setp = "WAIT_QUIT" /\ n_send_setp' = "QUIT"
      BY <1>2 DEF HandleRead, ReadFails, ReadsOn, Refused, NoRecipient, Quits, Accepted,
                  NextStep, clientVars
  <2> QED
      BY <2>1, <2>3, <2>4, JudgeStep
<1> QED
    BY <1>1, <1>2

(* The handlers and the events that leave the dialogue alone. *)
LEMMA SilentStep ==
  ASSUME ConnInv, DialogueInv,
         \/ OpenSocket \/ HandleConnect \/ HandleWrite \/ HandleIoTimer \/ HandleConnectTimer
         \/ ConnectionAnswers \/ ReadReturns \/ ReadBreaks \/ WriteBreaks \/ Clock
         \/ UNCHANGED vars
  PROVE  DialogueInv'
<1>1. tcp \in AsyncTcpClients
    BY DEF ConnInv, TypeOK
<1>2. UNCHANGED <<n_send_setp, pstr, inbox, server>>
    BY DEF OpenSocket, HandleConnect, HandleWrite, HandleIoTimer, HandleConnectTimer,
           ConnectionAnswers, ReadReturns, ReadBreaks, WriteBreaks, Clock, IoTimerExpires,
           ConnectTimerExpires, SecondPasses, clientVars, serverVars, vars
<1>3. flow' = flow
  <2>1. CASE ReadReturns
    <3>1. data_buffer = <<>>
        BY <2>1 DEF ReadReturns, ConnInv, BufferRead
    <3>2. <<>> \o replies = replies /\ replies \in Seq(Tokens)
        BY ConcatEmptySeq DEF ConnInv, TypeOK
    <3> QED
        BY <2>1, <3>1, <3>2, ReadSplits DEF ReadReturns, flow
  <2>2. CASE ~ReadReturns
      BY <2>2 DEF OpenSocket, HandleConnect, HandleWrite, HandleIoTimer, HandleConnectTimer,
           ConnectionAnswers, ReadBreaks, WriteBreaks, Clock, IoTimerExpires,
           ConnectTimerExpires, SecondPasses, serverVars, vars, flow
  <2> QED
      BY <2>1, <2>2
<1>4. tcp'.wr = "pending" => tcp.wr = "pending"
  <2>1. CASE OpenSocket
      BY <1>1, <2>1 DEF OpenSocket, AsyncConnect, AsyncTcpClients
  <2>2. CASE HandleConnect
    <3> DEFINE t == [tcp EXCEPT !.conn = "none"]
               u == IoTimerCallAt(Connected(t))
    <3>1. t \in AsyncTcpClients /\ u \in AsyncTcpClients /\ t.wr = tcp.wr
        BY <1>1, DoneProperties DEF AsyncTcpClients
    <3>2. u.wr = tcp.wr
        BY <3>1 DEF IoTimerCallAt, Connected, AsyncTcpClients
    <3>3. tcp' \in {Close(t), AsyncRecv(u)}
        BY <2>2 DEF HandleConnect, Continue
    <3> HIDE DEF t, u
    <3>4. Close(t).wr = "pending" => tcp.wr = "pending"
        BY <3>1, CloseProperties
    <3>5. AsyncRecv(u).wr = tcp.wr
        BY <3>1, <3>2, GoOnProperties
    <3> QED
        BY <3>3, <3>4, <3>5
  <2>3. CASE HandleWrite
    <3> DEFINE t == [tcp EXCEPT !.wr = "none", !.elapsed = 0]
    <3>1. t \in AsyncTcpClients /\ t.wr = "none"
        BY <1>1, DoneProperties DEF AsyncTcpClients
    <3>2. tcp' \in {Close(t), AsyncRecv(t)}
        BY <2>3 DEF HandleWrite, Continue
    <3> HIDE DEF t
    <3>3. Close(t).wr # "pending" /\ AsyncRecv(t).wr = "none"
        BY <3>1, CloseProperties, GoOnProperties
    <3> QED
        BY <3>2, <3>3
  <2>4. CASE HandleIoTimer \/ HandleConnectTimer
    <3>1. ASSUME NEW t \in AsyncTcpClients, t.wr = tcp.wr,
                 tcp' \in {t, Close(t), IoTimerCallAt(t)}
          PROVE  tcp'.wr = "pending" => tcp.wr = "pending"
        BY <3>1, CloseProperties DEF IoTimerCallAt, AsyncTcpClients
    <3>2. /\ [tcp EXCEPT !.io_timer = "off"].wr = tcp.wr
          /\ [tcp EXCEPT !.connect_timer = "off"].wr = tcp.wr
        BY <1>1 DEF AsyncTcpClients
    <3>3. CASE HandleIoTimer
      <4> DEFINE t == [tcp EXCEPT !.io_timer = "off"]
      <4>1. tcp' \in {t, Close(t), IoTimerCallAt(t)}
          BY <3>3 DEF HandleIoTimer, Continue
      <4> QED
          BY <1>1, <3>1, <3>2, <4>1, DoneProperties
    <3>4. CASE HandleConnectTimer
      <4> DEFINE t == [tcp EXCEPT !.connect_timer = "off"]
      <4>1. tcp' \in {t, Close(t), IoTimerCallAt(t)}
          BY <3>4 DEF HandleConnectTimer, Continue
      <4> QED
          BY <1>1, <3>1, <3>2, <4>1, DoneProperties
    <3> QED
        BY <2>4, <3>3, <3>4
  <2>5. CASE ConnectionAnswers \/ ReadReturns \/ ReadBreaks
      BY <1>1, <2>5 DEF ConnectionAnswers, ReadReturns, ReadBreaks, ConnectCompletes,
                        ReadCompletes, AsyncTcpClients
  <2>6. CASE WriteBreaks
      BY <1>1, <2>6 DEF WriteBreaks, WriteCompletes, AsyncTcpClients
  <2>7. CASE Clock
      BY <1>1, <2>7 DEF Clock, IoTimerExpires, ConnectTimerExpires, SecondPasses, Tick,
                        AsyncTcpClients
  <2>8. CASE UNCHANGED vars
      BY <2>8 DEF vars
  <2> QED
      BY <2>1, <2>2, <2>3, <2>4, <2>5, <2>6, <2>7, <2>8
<1> QED
    BY <1>2, <1>3, <1>4, QuietStep

(* Nothing is sent or answered at first. *)
LEMMA DialogueInit == Init => DialogueInv
<1> SUFFICES ASSUME Init PROVE DialogueInv
    OBVIOUS
<1>1. /\ tcp.wr = "none" /\ n_send_setp = "EHLO" /\ server = "greeting"
      /\ inbox = <<>> /\ data_buffer = <<>> /\ replies = <<>>
    BY DEF Init, StartConnect, NewClient
<1>2. Out = {} /\ flow = <<>>
  <2>1. ToSet(inbox) = {}
      BY <1>1 DEF ToSet
  <2> QED
      BY <1>1, <2>1, ConcatEmptySeq, EmptySeq DEF Out, flow
<1>3. Taken[server] = 0 /\ Sent[n_send_setp] = 0
    BY <1>1 DEF Taken, Sent
<1> QED
    BY <1>1, <1>2, <1>3
    DEF DialogueInv, InOrder, Once, AfterText, TextOut, TextSent, GoAhead, LastWord, Has,
        TextTaken, QuitOnlyWhenTaken

(* Every step keeps what client and server know of each other. *)
LEMMA DialogueStep == ConnInv /\ DialogueInv /\ [Next]_vars => DialogueInv'
BY SilentStep, ReadStep, GreetStep, AnswerStep, TakesStep DEF Next, Handler, Network

(* The text of a mail is on its way only while the server reads a text,    *)
(* though the client judges each read alone and may be one reply ahead of  *)
(* its server: it sends the text for a 354 only, which the server sends    *)
(* once and then waits.                                                    *)
THEOREM TextRead == Spec => []TextReadAsText
<1>1. DialogueInv => TextReadAsText
    BY DEF DialogueInv, TextOut, TextReadAsText, Out
<1> QED
    BY <1>1, ConnInit, ConnStep, DialogueInit, DialogueStep, PTL DEF Spec

(* send_cmd_quit follows a 250, and the only 250 on its way then is the    *)
(* answer to the text: a client that quits has given its mail.             *)
THEOREM QuitAfterMail == Spec => []QuitOnlyWhenTaken
<1>1. DialogueInv => QuitOnlyWhenTaken
    BY DEF DialogueInv
<1> QED
    BY <1>1, ConnInit, ConnStep, DialogueInit, DialogueStep, PTL DEF Spec

----------------------------------------------------------------------------
(* A dialogue in which nothing is refused, cut, lost or late.              *)

(* The command whose answer a step waits for. *)
Asked == [EHLO |-> "greeting", MAILFROM |-> "ehlo", RCPTTO |-> "mail", DATA |-> "rcpt",
          DATAEND |-> "data", WAIT_DATA_END |-> "text", WAIT_QUIT |-> "quit"]

ReplyTo(c) == {Line(Positive[c])} \cup
              (IF c \in {"greeting", "ehlo"} THEN {Lines(Positive[c])} ELSE {})

(* The server has the command and answers, or its answer is on its way. *)
Owes(c) == \/ server = c /\ replies = <<>> /\ inbox = (IF c = "greeting" THEN <<>> ELSE <<c>>)
           \/ server = Follows[c] /\ replies \in ReplyTo(c) /\ inbox = <<>>

Connecting == /\ tcp.conn # "none" /\ tcp.rd = "none" /\ tcp.wr = "none"
              /\ tcp.connect_timer = "armed" /\ tcp.io_timer = "off"
              /\ n_send_setp = "EHLO" /\ Owes("greeting") /\ data_buffer = <<>>
              /\ tcp.conn \in {"pending", "ok"} => tcp.is_open
Reading(c) == tcp.rd = "pending" /\ tcp.wr = "none" /\ data_buffer = <<>> /\ Owes(c)
HasReply(c) == /\ tcp.rd = "ok" /\ tcp.wr = "none" /\ data_buffer \in ReplyTo(c)
               /\ replies = <<>> /\ inbox = <<>> /\ server = Follows[c]
Writing(c) == /\ tcp.wr = "pending" /\ tcp.rd = "none" /\ pstr = c /\ data_buffer = <<>>
              /\ replies = <<>> /\ inbox = <<>> /\ server = c
Written(c) == tcp.wr = "ok" /\ tcp.rd = "none" /\ data_buffer = <<>> /\ Owes(c)
Talking(c) == /\ tcp.is_open /\ tcp.conn = "none" /\ n_send_setp # "QUIT"
              /\ c = Asked[n_send_setp]
              /\ Reading(c) \/ HasReply(c) \/ Writing(c) \/ Written(c)

(* Nobody is late. *)
InTime == ~IsClosed(tcp) /\ tcp.elapsed = 0

Delivered == /\ IsClosed(tcp) /\ ~tcp.is_open /\ NoOperation(tcp)
             /\ n_send_setp = "QUIT" /\ server = "bye" /\ inbox = <<>>

SmoothInv ==
  smooth /\ rcpt_to > 0 =>
    Delivered \/ (InTime /\ (Connecting \/ \E c \in DOMAIN Positive : Talking(c)))

(* One token and two tokens of a reply. *)
LEMMA ShortSubSeq ==
  ASSUME NEW s \in Seq(Tokens), NEW i \in 1 .. Len(s)
  PROVE  /\ SubSeq(s, i, i) = <<s[i]>>
         /\ i < Len(s) => SubSeq(s, i, i + 1) = <<s[i], s[i + 1]>>
<1>1. Len(s) \in Nat /\ i \in Int /\ \A k \in 1 .. Len(s) : s[k] \in Tokens
    BY LenProperties, ElementOfSeq
<1>2. SubSeq(s, i, i) = <<s[i]>>
  <2>1. \A k \in i .. i : s[k] \in Tokens
      BY <1>1
  <2>2. /\ SubSeq(s, i, i) \in Seq(Tokens)
        /\ Len(SubSeq(s, i, i)) = IF i <= i THEN i - i + 1 ELSE 0
        /\ \A k \in 1 .. i - i + 1 : SubSeq(s, i, i)[k] = s[i + k - 1]
      BY <1>1, <2>1, SubSeqProperties
  <2>3. /\ i - i + 1 = 1 /\ i + 1 - 1 = i /\ i <= i
      BY <1>1
  <2>4. Len(SubSeq(s, i, i)) = 1 /\ SubSeq(s, i, i)[1] = s[i]
      BY <2>2, <2>3
  <2>5. <<s[i]>> \in Seq(Tokens) /\ Len(<<s[i]>>) = 1 /\ <<s[i]>>[1] = s[i]
      BY <1>1
  <2>6. \A k \in 1 .. 1 : k = 1
      OBVIOUS
  <2>7. \A k \in 1 .. Len(SubSeq(s, i, i)) : SubSeq(s, i, i)[k] = <<s[i]>>[k]
      BY <2>4, <2>5, <2>6
  <2> QED
      BY <2>2, <2>4, <2>5, <2>7, SeqEqual
<1>3. ASSUME i < Len(s)
      PROVE  SubSeq(s, i, i + 1) = <<s[i], s[i + 1]>>
  <2> DEFINE j == i + 1
  <2>1. /\ j \in Int /\ j \in 1 .. Len(s) /\ i <= j /\ j - i + 1 = 2 /\ i + 1 - 1 = i /\ i + 2 - 1 = j
        /\ \A k \in i .. j : k \in 1 .. Len(s)
      BY <1>1, <1>3
  <2> HIDE DEF j
  <2>2. \A k \in i .. j : s[k] \in Tokens
      BY <1>1, <2>1
  <2>3. /\ SubSeq(s, i, j) \in Seq(Tokens)
        /\ Len(SubSeq(s, i, j)) = IF i <= j THEN j - i + 1 ELSE 0
        /\ \A k \in 1 .. j - i + 1 : SubSeq(s, i, j)[k] = s[i + k - 1]
      BY <1>1, <2>1, <2>2, SubSeqProperties
  <2>4. /\ Len(SubSeq(s, i, j)) = 2
        /\ SubSeq(s, i, j)[1] = s[i] /\ SubSeq(s, i, j)[2] = s[j]
      BY <2>1, <2>3
  <2>5. /\ <<s[i], s[j]>> \in Seq(Tokens) /\ Len(<<s[i], s[j]>>) = 2
        /\ <<s[i], s[j]>>[1] = s[i] /\ <<s[i], s[j]>>[2] = s[j]
      BY <1>1, <2>1
  <2>6. \A k \in 1 .. 2 : k = 1 \/ k = 2
      OBVIOUS
  <2>7. SubSeq(s, i, j) = <<s[i], s[j]>>
      BY <2>3, <2>4, <2>5, <2>6, SeqEqual
  <2> QED
      BY <2>7 DEF j
<1> QED
    BY <1>2, <1>3

(* What stands where in a reply of one line and in one of two. *)
LEMMA ReplyTokensAt ==
  ASSUME NEW code \in {"220", "250", "354", "221", "550"}
  PROVE  LET r == Line(code)
             s == Lines(code)
         IN  /\ Len(r) = 4 /\ r[1] = code /\ r[2] = Space /\ r[4] = NewLine
             /\ Len(s) = 10 /\ s[1] = code /\ s[2] = Dash /\ s[4] = Space
             /\ s[7] = code /\ s[8] = Space /\ s[10] = NewLine
<1> DEFINE S == {code, Space, Dash, "t", NewLine}
           first == <<code, Dash, "t", Space, "t", NewLine>>
           r == Line(code)
<1>1. /\ r \in Seq(S) /\ Len(r) = 4
      /\ r[1] = code /\ r[2] = Space /\ r[4] = NewLine
    BY DEF Line
<1>2. /\ first \in Seq(S) /\ Len(first) = 6
      /\ first[1] = code /\ first[2] = Dash /\ first[4] = Space
    OBVIOUS
<1>3. Lines(code) = first \o r
    BY DEF Lines
<1> HIDE DEF S, first, r
<1>4. /\ Len(first \o r) = Len(first) + Len(r)
      /\ \A i \in 1 .. Len(first) + Len(r) :
           (first \o r)[i] = IF i <= Len(first) THEN first[i] ELSE r[i - Len(first)]
    BY <1>1, <1>2, ConcatProperties
<1>5. /\ Len(first \o r) = 10
      /\ \A i \in 1 .. 10 : (first \o r)[i] = IF i <= 6 THEN first[i] ELSE r[i - 6]
  <2>1. Len(first) = 6 /\ Len(r) = 4 /\ 6 + 4 = 10
      BY <1>1, <1>2
  <2> QED
      BY <1>4, <2>1, Zenon
<1>6. /\ (first \o r)[1] = code /\ (first \o r)[2] = Dash /\ (first \o r)[4] = Space
      /\ (first \o r)[7] = r[1] /\ (first \o r)[8] = r[2] /\ (first \o r)[10] = r[4]
    BY <1>2, <1>5
<1>7. /\ Len(Lines(code)) = 10
      /\ Lines(code)[1] = code /\ Lines(code)[2] = Dash /\ Lines(code)[4] = Space
      /\ Lines(code)[7] = code /\ Lines(code)[8] = Space /\ Lines(code)[10] = NewLine
    BY <1>1, <1>3, <1>5, <1>6
<1> QED
    BY <1>1, <1>7 DEF r

(* Every answer that the client waits for is a command line with the       *)
(* status that it expects, in one line or in several.                      *)
LEMMA RepliesAreRead ==
  ASSUME NEW c \in DOMAIN Positive, NEW reply \in ReplyTo(c)
  PROVE  /\ reply \in Seq(Tokens) /\ reply # <<>>
         /\ IsCommandLine(reply) /\ Head(reply) = Positive[c]
<1> DEFINE code == Positive[c]
           n == Len(reply)
<1>1. /\ code \in {"220", "250", "354", "221", "550"}
      /\ c = "greeting" => code = "220"
      /\ c = "ehlo" => code = "250"
    BY DEF Positive
<1>2. reply = Line(code) \/ (reply = Lines(code) /\ code \in {"220", "250"})
    BY <1>1 DEF ReplyTo
<1>3. reply \in Seq(Tokens)
    BY <1>1, <1>2, ReplyTokens
<1>4. /\ reply = Line(code) => /\ n = 4 /\ reply[1] = code /\ reply[2] = Space
                               /\ reply[n] = NewLine
      /\ reply = Lines(code) => /\ n = 10 /\ reply[1] = code /\ reply[2] = Dash
                                /\ reply[4] = Space /\ reply[7] = code
                                /\ reply[8] = Space /\ reply[n] = NewLine
    BY <1>1, ReplyTokensAt
<1> HIDE DEF code
<1>5. /\ n \in {4, 10} /\ reply[1] = code /\ reply[n] = NewLine
      /\ n = 4 => reply[2] = Space
      /\ n = 10 => reply[2] = Dash /\ reply[4] = Space /\ reply[7] = code /\ reply[8] = Space
    BY <1>2, <1>4
<1>5a. reply # <<>> /\ Head(reply) = code
  <2>1. n # 0
      BY <1>5
  <2>2. reply # <<>>
      BY <2>1
  <2> QED
      BY <1>3, <1>5, <2>2, HeadTailProperties
<1>6. IsSuffix(<<NewLine>>, reply)
  <2>1. /\ Reverse(<<NewLine>>) \in Seq(Tokens) /\ Len(Reverse(<<NewLine>>)) = 1
        /\ Reverse(<<NewLine>>)[1] = NewLine
      BY DEF Reverse, Tokens
  <2>2. \A i \in 1 .. n : n - i + 1 \in 1 .. n
      BY <1>5
  <2>3. \A i \in 1 .. n : reply[n - i + 1] \in Tokens
      BY <1>3, <2>2, ElementOfSeq
  <2>4. Reverse(reply) \in Seq(Tokens) /\ Len(Reverse(reply)) = n
        /\ Reverse(reply)[1] = reply[n]
      BY <1>5, <2>3 DEF Reverse
  <2>5. SubSeq(Reverse(<<NewLine>>), 1, 1) = <<NewLine>>
      BY <2>1, ShortSubSeq
  <2>6. SubSeq(Reverse(reply), 1, 1) = <<NewLine>>
      BY <1>5, <2>4, ShortSubSeq
  <2>7. 1 <= n
      BY <1>5
  <2> QED
      BY <2>1, <2>4, <2>5, <2>6, <2>7 DEF IsSuffix, IsPrefix
<1>7. IsPrefix(<<"250", Dash>>, reply) => code = "250" /\ n = 10
  <2> SUFFICES ASSUME IsPrefix(<<"250", Dash>>, reply) PROVE code = "250" /\ n = 10
      OBVIOUS
  <2>1. SubSeq(<<"250", Dash>>, 1, 2) = SubSeq(reply, 1, 2)
      BY DEF IsPrefix
  <2>1a. /\ <<"250", Dash>> \in Seq(Tokens) /\ Len(<<"250", Dash>>) = 2
         /\ <<"250", Dash>>[1] = "250" /\ <<"250", Dash>>[2] = Dash
      BY DEF Tokens
  <2>2. /\ SubSeq(<<"250", Dash>>, 1, 1 + 1) = <<"250", Dash>>
        /\ SubSeq(reply, 1, 1 + 1) = <<reply[1], reply[1 + 1]>>
    <3>1. /\ 1 \in 1 .. Len(<<"250", Dash>>) /\ 1 < Len(<<"250", Dash>>)
          /\ 1 \in 1 .. Len(reply) /\ 1 < Len(reply)
        BY <1>5, <2>1a
    <3>2. SubSeq(<<"250", Dash>>, 1, 1 + 1) = << <<"250", Dash>>[1], <<"250", Dash>>[1 + 1]>>
        BY <2>1a, <3>1, ShortSubSeq
    <3>3. SubSeq(reply, 1, 1 + 1) = <<reply[1], reply[1 + 1]>>
        BY <1>3, <3>1, ShortSubSeq
    <3> QED
        BY <2>1a, <3>2, <3>3
  <2>2a. <<"250", Dash>> = <<reply[1], reply[2]>>
      BY <2>1, <2>2
  <2>3. code = "250" /\ reply[2] = Dash
      BY <1>5, <2>2a
  <2> QED
      BY <1>5, <2>3 DEF Dash, Space
<1>8. n = 10 /\ code = "250" => SubSeq(reply, 7, 7 + 1) = <<"250", Space>>
  <2> SUFFICES ASSUME n = 10, code = "250"
               PROVE  SubSeq(reply, 7, 7 + 1) = <<"250", Space>>
      OBVIOUS
  <2>1. 7 \in 1 .. Len(reply) /\ 7 < Len(reply) /\ 7 + 1 = 8
      OBVIOUS
  <2> QED
      BY <1>3, <1>5, <2>1, ShortSubSeq
<1>9. Contains(reply, Space)
  <2>1. /\ n = 4 => 2 \in 1 .. n /\ reply[2] = Space
        /\ n = 10 => 4 \in 1 .. n /\ reply[4] = Space
      BY <1>5
  <2> QED
      BY <1>5, <2>1 DEF Contains
<1>10. IsCommandLine(reply)
  <2>1. CASE IsPrefix(<<"250", Dash>>, reply)
    <3>1. SubSeq(reply, 7, 7 + 1) = <<"250", Space>>
        BY <1>7, <1>8, <2>1
    <3>2. 7 \in 1 .. n - 1
      <4>1. n = 10
          BY <1>7, <2>1
      <4> HIDE DEF n
      <4> QED
          BY <4>1
    <3> QED
        BY <1>6, <2>1, <3>1, <3>2 DEF IsCommandLine
  <2>2. CASE ~IsPrefix(<<"250", Dash>>, reply)
      BY <1>6, <1>9, <2>2 DEF IsCommandLine
  <2> QED
      BY <2>1, <2>2
<1> QED
    BY <1>3, <1>5a, <1>10 DEF code

(* The tables of the client agree with the server's: a step expects what   *)
(* its command is answered with and sends what the server reads next.      *)
LEMMA TablesAgree ==
  ASSUME n_send_setp \in Steps \ {"QUIT"}
  PROVE  LET c == Asked[n_send_setp]
         IN  /\ c \in DOMAIN Positive
             /\ Expected(Positive[c])
             /\ n_send_setp = "WAIT_QUIT" => Follows[c] = "bye" /\ NextStep = "QUIT"
             /\ n_send_setp # "WAIT_QUIT" =>
                  /\ NextStep \in Steps \ {"QUIT"}
                  /\ NextCommand = Follows[c] /\ Asked[NextStep] = Follows[c]
                  /\ Follows[c] \in Commands
BY DEF Steps, Asked, Positive, Expected, Follows, NextStep, NextCommand, Commands

(* The server answers what it owes. *)
LEMMA OwesStep ==
  ASSUME NEW c \in DOMAIN Positive, Owes(c), smooth', ServerGreets \/ ServerAnswers
  PROVE  Owes(c)'
<1>1. /\ DOMAIN Positive = {"greeting"} \cup Commands
      /\ "greeting" \notin Commands
      /\ Follows[c] # "greeting"
    BY DEF Positive, Commands, Follows
<1>2. \A what : Refuse(what) => smooth' = FALSE
    BY DEF Refuse
<1>3. server = c /\ replies = <<>> /\ Accept(c) /\ inbox' = <<>>
  <2>1. CASE ServerGreets
    <3>1. server = "greeting" /\ Accept("greeting") /\ inbox' = inbox
        BY <1>2, <2>1 DEF ServerGreets
    <3>2. c = "greeting"
        BY <1>1, <3>1 DEF Owes
    <3> QED
        BY <1>1, <3>1, <3>2 DEF Owes
  <2>2. CASE ServerAnswers
    <3>1. inbox # <<>> /\ Head(inbox) \in Commands /\ inbox' = Tail(inbox)
          /\ Accept(Head(inbox))
        BY <1>2, <2>2 DEF ServerAnswers
    <3>2. server = c /\ inbox = <<c>> /\ replies = <<>>
        BY <3>1 DEF Owes
    <3> QED
        BY <3>1, <3>2
  <2> QED
      BY <2>1, <2>2
<1>4. /\ server' = Follows[c]
      /\ \/ replies' = replies \o Line(Positive[c])
         \/ c \in {"greeting", "ehlo"} /\ replies' = replies \o Lines(Positive[c])
    BY <1>3 DEF Accept
<1>5. Line(Positive[c]) \in Seq(Tokens) /\ Lines(Positive[c]) \in Seq(Tokens)
  <2>1. Positive[c] \in {"220", "250", "354", "221", "550"}
      BY DEF Positive
  <2> QED
      BY <2>1, ReplyTokens
<1>6. replies' \in ReplyTo(c)
    BY <1>3, <1>4, <1>5, ConcatEmptySeq DEF ReplyTo
<1> QED
    BY <1>3, <1>4, <1>6 DEF Owes

(* A step that changes nothing of the dialogue but the timers. *)
LEMMA TalkingStays ==
  ASSUME NEW c \in DOMAIN Positive, InTime, Talking(c),
         \A field \in {"n_socket_status", "is_open", "conn", "rd", "wr", "elapsed"} :
           tcp'[field] = tcp[field],
         UNCHANGED <<clientVars, serverVars, data_buffer>>
  PROVE  InTime' /\ Talking(c)'
<1>1. /\ tcp'.n_socket_status = tcp.n_socket_status /\ tcp'.is_open = tcp.is_open
      /\ tcp'.conn = tcp.conn /\ tcp'.rd = tcp.rd /\ tcp'.wr = tcp.wr
      /\ tcp'.elapsed = tcp.elapsed
    OBVIOUS
<1>2. UNCHANGED <<n_send_setp, pstr, data_buffer, replies, inbox, server>>
    BY DEF clientVars, serverVars
<1> QED
    BY <1>1, <1>2 DEF InTime, IsClosed, Talking, Reading, HasReply, Writing, Written, Owes

(* Once the mail is delivered only timers are left. *)
LEMMA DeliveredStep ==
  ASSUME ConnInv, Delivered, Next
  PROVE  Delivered'
<1>1. tcp \in AsyncTcpClients
    BY DEF ConnInv, TypeOK
<1>2. UNCHANGED <<n_send_setp, server, inbox>>
    BY DEF Delivered, NoOperation, Next, Handler, Network, Clock, OpenSocket, HandleConnect,
           HandleRead, ReadFails, ReadsOn, Refused, NoRecipient, Quits, SendsNext, Accepted,
           HasRead, HandleWrite, HandleIoTimer, HandleConnectTimer, ServerGreets,
           ServerAnswers, ConnectionAnswers, ReadReturns, ReadBreaks, WriteTakes, WriteBreaks,
           IoTimerExpires, ConnectTimerExpires, SecondPasses, clientVars, serverVars
<1>3. \/ tcp' = tcp
      \/ \E timer \in Timers : \/ tcp' = [tcp EXCEPT !.io_timer = timer]
                               \/ tcp' = [tcp EXCEPT !.connect_timer = timer]
  <2>1. CASE HandleIoTimer
    <3>1. tcp' = [tcp EXCEPT !.io_timer = "off"]
        BY <1>1, <2>1 DEF HandleIoTimer, Continue, Delivered, IsClosed, AsyncTcpClients
    <3> QED
        BY <3>1 DEF Timers
  <2>2. CASE HandleConnectTimer
    <3>1. tcp' = [tcp EXCEPT !.connect_timer = "off"]
        BY <1>1, <2>2 DEF HandleConnectTimer, Continue, Close, Delivered, IsClosed,
                          AsyncTcpClients
    <3> QED
        BY <3>1 DEF Timers
  <2>3. CASE Clock
      BY <2>3 DEF Clock, IoTimerExpires, ConnectTimerExpires, SecondPasses, CanTick, Delivered,
                  Timers
  <2>4. CASE ~Clock /\ ~HandleIoTimer /\ ~HandleConnectTimer
      BY <2>4 DEF Delivered, NoOperation, Next, Handler, Network, OpenSocket, HandleConnect,
           HandleRead, ReadFails, ReadsOn, Refused, NoRecipient, Quits, SendsNext, Accepted,
           HasRead, HandleWrite, ServerGreets,
           ServerAnswers, ConnectionAnswers, ReadReturns, ReadBreaks, WriteTakes, WriteBreaks
  <2> QED
      BY <2>1, <2>2, <2>3, <2>4
<1>4. /\ tcp'.n_socket_status = tcp.n_socket_status /\ tcp'.is_open = tcp.is_open
      /\ tcp'.conn = tcp.conn /\ tcp'.rd = tcp.rd /\ tcp'.wr = tcp.wr
    BY <1>1, <1>3 DEF AsyncTcpClients
<1> QED
    BY <1>2, <1>4 DEF Delivered, IsClosed, NoOperation

(* While the client connects, only the server's greeting may arrive; the   *)
(* connect timer is not due.                                               *)
LEMMA ConnectingStep ==
  ASSUME m_timeouts # 0, ConnInv, InTime, Connecting, Next, smooth'
  PROVE  InTime' /\ (Connecting' \/ Talking("greeting")')
<1>1. tcp \in AsyncTcpClients /\ m_timeouts \in Nat
    BY TimeoutsAssumption DEF ConnInv, TypeOK
<1>2. "greeting" \in DOMAIN Positive
    BY DEF Positive
<1>3. CASE OpenSocket
  <2>1. PICK opened \in BOOLEAN : tcp' = AsyncConnect(tcp, opened)
      BY <1>3 DEF OpenSocket
  <2>2. /\ tcp'.conn = IF opened THEN "pending" ELSE "error"
        /\ tcp'.is_open = opened
        /\ tcp'.n_socket_status = tcp.n_socket_status /\ tcp'.elapsed = tcp.elapsed
        /\ tcp'.rd = tcp.rd /\ tcp'.wr = tcp.wr
        /\ tcp'.io_timer = tcp.io_timer /\ tcp'.connect_timer = tcp.connect_timer
      BY <1>1, <2>1 DEF AsyncConnect, AsyncTcpClients
  <2>3. UNCHANGED <<n_send_setp, data_buffer, replies, inbox, server>>
      BY <1>3 DEF OpenSocket, clientVars, serverVars
  <2>4. tcp'.conn # "none" /\ (tcp'.conn \in {"pending", "ok"} => tcp'.is_open)
      BY <2>2
  <2> QED
      BY <2>2, <2>3, <2>4 DEF InTime, IsClosed, Connecting, Owes
<1>4. CASE HandleConnect
  <2>1. tcp.conn = "ok" /\ tcp.is_open
      BY <1>4 DEF HandleConnect, Connecting
  <2> DEFINE t == [tcp EXCEPT !.conn = "none"]
             u == IoTimerCallAt(Connected(t))
  <2>2. tcp' = AsyncRecv(u)
      BY <1>4, <2>1 DEF HandleConnect, Continue
  <2>3. /\ u \in AsyncTcpClients /\ u.conn = "none" /\ u.is_open /\ u.wr = tcp.wr
        /\ u.n_socket_status = "NORMAL"
    <3>1. t \in AsyncTcpClients /\ Connected(t) \in AsyncTcpClients /\ u \in AsyncTcpClients
        BY <1>1, DoneProperties
    <3>2. t.conn = "none" /\ t.is_open /\ t.wr = tcp.wr
        BY <1>1, <2>1 DEF AsyncTcpClients
    <3> HIDE DEF t
    <3>3. /\ Connected(t).conn = "none" /\ Connected(t).is_open /\ Connected(t).wr = tcp.wr
          /\ Connected(t).n_socket_status = "NORMAL"
        BY <3>1, <3>2 DEF Connected, AsyncTcpClients
    <3> QED
        BY <3>1, <3>3 DEF IoTimerCallAt, AsyncTcpClients
  <2> HIDE DEF u
  <2>4. /\ tcp'.rd = "pending" /\ tcp'.wr = tcp.wr /\ tcp'.conn = "none" /\ tcp'.is_open
        /\ tcp'.n_socket_status = "NORMAL" /\ tcp'.elapsed = 0
      BY <2>2, <2>3, GoOnProperties
  <2>5. UNCHANGED <<n_send_setp, data_buffer, replies, inbox, server>>
      BY <1>4 DEF HandleConnect, clientVars, serverVars
  <2>6. Owes("greeting")'
      BY <2>5 DEF Connecting, Owes
  <2> QED
      BY <2>4, <2>5, <2>6 DEF InTime, IsClosed, Connecting, Talking, Reading, Asked
<1>5. CASE ConnectionAnswers
  <2>1. PICK r \in {"ok", "error"} : tcp' = ConnectCompletes(tcp, r)
      BY <1>5 DEF ConnectionAnswers
  <2>2. /\ tcp'.conn = r /\ tcp'.is_open = tcp.is_open
        /\ tcp'.n_socket_status = tcp.n_socket_status /\ tcp'.elapsed = tcp.elapsed
        /\ tcp'.rd = tcp.rd /\ tcp'.wr = tcp.wr
        /\ tcp'.io_timer = tcp.io_timer /\ tcp'.connect_timer = tcp.connect_timer
      BY <1>1, <2>1 DEF ConnectCompletes, AsyncTcpClients
  <2>3. tcp.is_open /\ UNCHANGED <<n_send_setp, data_buffer, replies, inbox, server>>
      BY <1>5 DEF ConnectionAnswers, Connecting, clientVars, serverVars
  <2>4. Owes("greeting")'
      BY <2>3 DEF Connecting, Owes
  <2> QED
      BY <2>2, <2>3, <2>4 DEF InTime, IsClosed, Connecting
<1>6. CASE ServerGreets \/ ServerAnswers
  <2>1. Owes("greeting")'
      BY <1>2, <1>6, OwesStep DEF Connecting
  <2>2. UNCHANGED <<tcp, n_send_setp, data_buffer>>
      BY <1>6 DEF ServerGreets, ServerAnswers, clientVars
  <2> QED
      BY <2>1, <2>2 DEF InTime, IsClosed, Connecting
<1>7. CASE Clock
  <2>1. ~IoTimerExpires
      BY DEF IoTimerExpires, Connecting
  <2>2. ~ConnectTimerExpires
    <3>1. ~(tcp.elapsed >= m_timeouts)
        BY <1>1 DEF InTime
    <3> QED
        BY <3>1 DEF ConnectTimerExpires, ConnectTimerDue, Connecting
  <2>3. ~SecondPasses
      BY DEF SecondPasses, NobodyOwes, Connecting
  <2> QED
      BY <1>7, <2>1, <2>2, <2>3 DEF Clock
<1>8. CASE HandleRead \/ HandleWrite \/ HandleIoTimer \/ HandleConnectTimer
    BY <1>8 DEF HandleRead, ReadFails, ReadsOn, Refused, NoRecipient, Quits, SendsNext, Accepted,
                HasRead, HandleWrite, HandleIoTimer, HandleConnectTimer, Connecting
<1>9. CASE ReadReturns \/ ReadBreaks \/ WriteTakes \/ WriteBreaks
    BY <1>9 DEF ReadReturns, ReadBreaks, WriteTakes, WriteBreaks, Connecting
<1> QED
    BY <1>3, <1>4, <1>5, <1>6, <1>7, <1>8, <1>9 DEF Next, Handler, Network

(* A reply that came whole and in time leads to the next command or ends   *)
(* the relay.                                                              *)
LEMMA ReplyMovesOn ==
  ASSUME ConnInv, NEW c \in DOMAIN Positive, InTime, Talking(c), HandleRead, rcpt_to > 0
  PROVE  Delivered' \/ (InTime' /\ \E d \in DOMAIN Positive : Talking(d)')
<1>1. tcp \in AsyncTcpClients /\ rcpt_to \in Nat
    BY MaxRecipientsAssumption DEF ConnInv, TypeOK
<1>2. /\ HasReply(c) /\ HasRead /\ ~ReadFails
      /\ n_send_setp \in Steps \ {"QUIT"} /\ c = Asked[n_send_setp]
  <2>1. tcp.rd \in {"ok", "error"}
      BY DEF HandleRead, ReadFails, ReadsOn, Refused, NoRecipient, Quits, SendsNext, Accepted,
             HasRead
  <2>2. HasReply(c)
      BY <2>1 DEF Talking, Reading, Writing, Written
  <2>3. HasRead /\ ~ReadFails
      BY <2>2 DEF HasReply, HandleRead, ReadFails, ReadsOn, Refused, NoRecipient, Quits,
                  SendsNext, Accepted
  <2> QED
      BY <2>2, <2>3 DEF Talking, ConnInv, TypeOK
<1>3. IsCommandLine(data_buffer) /\ Expected(StatusCode(data_buffer))
  <2>1. IsCommandLine(data_buffer) /\ Head(data_buffer) = Positive[c]
      BY <1>2, RepliesAreRead DEF HasReply
  <2>2. Expected(Positive[c])
      BY <1>2, TablesAgree
  <2> QED
      BY <2>1, <2>2 DEF StatusCode
<1>4. /\ n_send_setp' = NextStep
      /\ Quits \/ SendsNext
      /\ Quits <=> n_send_setp = "WAIT_QUIT"
  <2>1. ~ReadsOn /\ ~Refused /\ ~NoRecipient
      BY <1>1, <1>3 DEF ReadsOn, Refused, NoRecipient
  <2>2. Quits \/ SendsNext
      BY <1>2, <2>1 DEF HandleRead
  <2> QED
      BY <2>2 DEF Quits, SendsNext, Accepted
<1>5. ReadDone \in AsyncTcpClients
      /\ ReadDone.rd = "none" /\ ReadDone.wr = "none" /\ ReadDone.conn = "none"
      /\ ReadDone.is_open /\ ~IsClosed(ReadDone)
  <2>1. ReadDone \in AsyncTcpClients
      BY <1>1, DoneProperties DEF ReadDone
  <2>2. tcp.wr = "none" /\ tcp.conn = "none" /\ tcp.is_open /\ ~IsClosed(tcp)
      BY <1>2 DEF HasReply, Talking, InTime
  <2> QED
      BY <1>1, <2>1, <2>2 DEF ReadDone, AsyncTcpClients, IsClosed
<1>6. /\ data_buffer' = <<>> /\ UNCHANGED <<replies, inbox, server>>
      /\ server = Follows[c] /\ replies = <<>> /\ inbox = <<>>
    BY <1>2 DEF HasReply, HasRead, serverVars
<1>7. CASE n_send_setp = "WAIT_QUIT"
  <2>1. tcp' = Close(ReadDone) /\ n_send_setp' = "QUIT" /\ server' = "bye"
    <3>1. Follows[c] = "bye" /\ NextStep = "QUIT"
        BY <1>2, <1>7, TablesAgree
    <3> QED
        BY <1>4, <1>6, <1>7, <3>1 DEF Quits, Continue
  <2>2. /\ IsClosed(tcp') /\ ~tcp'.is_open
        /\ tcp'.conn = "none" /\ tcp'.rd = "none" /\ tcp'.wr = "none"
      BY <1>5, <2>1, CloseProperties
  <2> QED
      BY <1>6, <2>1, <2>2 DEF Delivered, NoOperation, IsClosed
<1>8. CASE n_send_setp # "WAIT_QUIT"
  <2> DEFINE d == Follows[c]
  <2>1. /\ tcp' = AsyncSend(ReadDone) /\ pstr' = NextCommand
      BY <1>4, <1>8 DEF SendsNext, Continue
  <2>2. /\ n_send_setp' # "QUIT" /\ pstr' = d /\ Asked[n_send_setp'] = d
        /\ d \in DOMAIN Positive
    <3>1. Commands \subseteq DOMAIN Positive
        BY DEF Commands, Positive
    <3>2. /\ NextStep \in Steps \ {"QUIT"} /\ NextCommand = d /\ Asked[NextStep] = d
          /\ d \in Commands
        BY <1>2, <1>8, TablesAgree
    <3> HIDE DEF d
    <3> QED
        BY <1>4, <2>1, <3>1, <3>2
  <2>3. /\ tcp'.wr = "pending" /\ tcp'.rd = "none" /\ tcp'.conn = "none" /\ tcp'.is_open
        /\ tcp'.elapsed = 0 /\ ~IsClosed(tcp')
      BY <1>5, <2>1, GoOnProperties DEF IsClosed
  <2>4. Talking(d)'
      BY <1>6, <2>2, <2>3 DEF Talking, Writing
  <2> QED
      BY <2>2, <2>3, <2>4 DEF InTime, IsClosed
<1> QED
    BY <1>7, <1>8

(* While the client talks: each write, answer, read and handler leads to   *)
(* the next, and no timer ends it.                                         *)
LEMMA TalkingStep ==
  ASSUME ConnInv, NEW c \in DOMAIN Positive, InTime, Talking(c), Next, smooth', rcpt_to > 0
  PROVE  Delivered' \/ (InTime' /\ \E d \in DOMAIN Positive : Talking(d)')
<1>1. tcp \in AsyncTcpClients
    BY DEF ConnInv, TypeOK
<1>2. CASE HandleRead
    BY <1>2, ReplyMovesOn
<1>3. CASE HandleWrite
  <2> DEFINE t == [tcp EXCEPT !.wr = "none", !.elapsed = 0]
  <2>1. Written(c) /\ tcp' = AsyncRecv(t)
      BY <1>3 DEF HandleWrite, Continue, Talking, Reading, HasReply, Writing, Written
  <2>2. /\ t \in AsyncTcpClients /\ t.wr = "none" /\ t.conn = "none" /\ t.is_open
        /\ ~IsClosed(t)
    <3>1. t \in AsyncTcpClients
        BY <1>1, DoneProperties
    <3>2. /\ t.wr = "none" /\ t.conn = tcp.conn /\ t.is_open = tcp.is_open
          /\ t.n_socket_status = tcp.n_socket_status
        BY <1>1 DEF AsyncTcpClients
    <3> QED
        BY <3>1, <3>2 DEF Talking, InTime, IsClosed
  <2> HIDE DEF t
  <2>3. /\ tcp'.rd = "pending" /\ tcp'.wr = "none" /\ tcp'.conn = "none" /\ tcp'.is_open
        /\ tcp'.elapsed = 0 /\ ~IsClosed(tcp')
      BY <2>1, <2>2, GoOnProperties DEF IsClosed
  <2>4. UNCHANGED <<n_send_setp, data_buffer, replies, inbox, server>>
      BY <1>3 DEF HandleWrite, clientVars, serverVars
  <2>5. Reading(c)'
      BY <2>1, <2>3, <2>4 DEF Written, Reading, Owes
  <2> QED
      BY <2>3, <2>4, <2>5 DEF InTime, IsClosed, Talking
<1>4. CASE HandleIoTimer \/ HandleConnectTimer \/ Clock
  <2>1. tcp' \in {[tcp EXCEPT !.io_timer = timer] : timer \in Timers} \cup
                 {[tcp EXCEPT !.connect_timer = timer] : timer \in Timers}
    <3>1. CASE HandleIoTimer
      <4> DEFINE t == [tcp EXCEPT !.io_timer = "off"]
      <4>1. /\ t \in AsyncTcpClients /\ t.elapsed = 0 /\ ~IsClosed(t)
        <5>1. t \in AsyncTcpClients
            BY <1>1, DoneProperties
        <5>2. t.elapsed = tcp.elapsed /\ t.n_socket_status = tcp.n_socket_status
            BY <1>1 DEF AsyncTcpClients
        <5> QED
            BY <5>1, <5>2 DEF InTime, IsClosed
      <4>2. ~(t.elapsed > ASYNC_CLIENT_DEFAULT_TIMEOUT_SEC)
          BY <4>1, DefaultTimeoutAssumption, TimeoutsAssumption
      <4>3. tcp' = IoTimerCallAt(t)
          BY <3>1, <4>1, <4>2 DEF HandleIoTimer, Continue
      <4>4. tcp' = [tcp EXCEPT !.io_timer = "armed"]
          BY <1>1, <4>3 DEF IoTimerCallAt, AsyncTcpClients
      <4> QED
          BY <4>4 DEF Timers
    <3>2. CASE HandleConnectTimer
      <4>1. tcp' = [tcp EXCEPT !.connect_timer = "off"]
          BY <1>1, <3>2 DEF HandleConnectTimer, Continue, Talking, AsyncTcpClients
      <4> QED
          BY <4>1 DEF Timers
    <3>3. CASE Clock
      <4>1. ~SecondPasses
        <5> SUFFICES ASSUME SecondPasses PROVE FALSE
            OBVIOUS
        <5>1. NobodyOwes
            BY DEF SecondPasses
        <5>2. \A r \in ReplyTo(c) : r # <<>>
            BY RepliesAreRead
        <5>3. c # "greeting" => <<c>> # <<>>
            OBVIOUS
        <5> QED
            BY <5>1, <5>2, <5>3 DEF NobodyOwes, Talking, Reading, HasReply, Writing, Written,
                                    Owes
      <4> QED
          BY <3>3, <4>1 DEF Clock, IoTimerExpires, ConnectTimerExpires, Timers
    <3> QED
        BY <1>4, <3>1, <3>2, <3>3
  <2>2. \A field \in {"n_socket_status", "is_open", "conn", "rd", "wr", "elapsed"} :
          tcp'[field] = tcp[field]
      BY <1>1, <2>1 DEF AsyncTcpClients
  <2>3. UNCHANGED <<clientVars, serverVars, data_buffer>>
      BY <1>4 DEF HandleIoTimer, HandleConnectTimer, Clock, IoTimerExpires,
                  ConnectTimerExpires, SecondPasses
  <2> QED
      BY <2>2, <2>3, TalkingStays
<1>5. CASE ServerGreets \/ ServerAnswers
  <2>1. UNCHANGED <<tcp, n_send_setp, pstr, data_buffer>>
      BY <1>5 DEF ServerGreets, ServerAnswers, clientVars
  <2>2. Owes(c)
    <3>1. Follows[c] # "greeting" /\ (c = "greeting" => c \notin Commands)
        BY DEF Follows, Positive, Commands
    <3>2. ~HasReply(c)
        BY <1>5, <3>1 DEF ServerGreets, ServerAnswers, HasReply
    <3>3. ~Writing(c)
      <4> SUFFICES ASSUME Writing(c) PROVE FALSE
          OBVIOUS
      <4>1. c \in Commands
          BY DEF Writing, ConnInv, WritesCommand
      <4> QED
          BY <1>5, <3>1, <4>1 DEF ServerGreets, ServerAnswers, Writing
    <3> QED
        BY <3>2, <3>3 DEF Talking, Reading, Written
  <2>3. Owes(c)'
      BY <1>5, <2>2, OwesStep
  <2>4. tcp.rd # "ok" /\ tcp.wr # "pending"
    <3>1. Follows[c] # "greeting" /\ (c = "greeting" => c \notin Commands)
        BY DEF Follows, Positive, Commands
    <3>2. ~HasReply(c)
        BY <1>5, <3>1 DEF ServerGreets, ServerAnswers, HasReply
    <3>3. ~Writing(c)
      <4> SUFFICES ASSUME Writing(c) PROVE FALSE
          OBVIOUS
      <4>1. c \in Commands
          BY DEF Writing, ConnInv, WritesCommand
      <4> QED
          BY <1>5, <3>1, <4>1 DEF ServerGreets, ServerAnswers, Writing
    <3> QED
        BY <3>2, <3>3 DEF Talking, Reading, Written
  <2>5. Talking(c)'
      BY <2>1, <2>3, <2>4 DEF Talking, Reading, HasReply, Writing, Written
  <2> QED
      BY <2>1, <2>5 DEF InTime, IsClosed
<1>6. CASE ReadReturns
  <2>1. PICK n \in 1 .. Len(replies) :
          /\ tcp.rd = "pending" /\ tcp' = ReadCompletes(tcp, "ok")
          /\ data_buffer' = SubSeq(replies, 1, n)
          /\ replies' = SubSeq(replies, n + 1, Len(replies))
          /\ smooth' = (smooth /\ n = Len(replies))
          /\ UNCHANGED <<clientVars, inbox, server>>
      BY <1>6 DEF ReadReturns
  <2>2. n = Len(replies)
      BY <2>1
  <2>3. Reading(c) /\ replies # <<>>
      BY <2>1 DEF Talking, HasReply, Writing, Written, Reading
  <2>4. data_buffer' = replies /\ replies' = <<>>
    <3>1. replies \in Seq(Tokens) /\ Len(replies) \in Int /\ Len(replies) < Len(replies) + 1
        BY LenProperties DEF ConnInv, TypeOK
    <3>2. SubSeq(replies, 1, Len(replies)) = replies
        BY <3>1, SubSeqFull
    <3>3. SubSeq(replies, Len(replies) + 1, Len(replies)) = <<>>
        BY <3>1, SubSeqEmpty
    <3> QED
        BY <2>1, <2>2, <3>2, <3>3
  <2>5. /\ inbox = <<>> /\ server = Follows[c] /\ replies \in ReplyTo(c)
      BY <2>3 DEF Reading, Owes
  <2>6. /\ tcp'.rd = "ok" /\ tcp'.wr = tcp.wr /\ tcp'.conn = tcp.conn
        /\ tcp'.is_open = tcp.is_open /\ tcp'.elapsed = tcp.elapsed
        /\ tcp'.n_socket_status = tcp.n_socket_status
      BY <1>1, <2>1 DEF ReadCompletes, AsyncTcpClients
  <2>7. HasReply(c)'
      BY <2>1, <2>3, <2>4, <2>5, <2>6 DEF HasReply, Reading
  <2>8. UNCHANGED n_send_setp
      BY <2>1 DEF clientVars
  <2> QED
      BY <2>6, <2>7, <2>8 DEF InTime, IsClosed, Talking
<1>7. CASE WriteTakes
  <2>1. PICK taken \in {pstr, "part"} :
          /\ tcp.wr = "pending" /\ tcp' = WriteCompletes(tcp, "ok")
          /\ inbox' = Append(inbox, taken)
          /\ smooth' = (smooth /\ taken = pstr)
          /\ UNCHANGED <<clientVars, data_buffer, server, replies>>
      BY <1>7 DEF WriteTakes
  <2>2. Writing(c) /\ taken = c /\ c # "greeting"
    <3>1. Writing(c) /\ taken = c
        BY <2>1 DEF Talking, Reading, HasReply, Written, Writing
    <3>2. c \in Commands
        BY <3>1 DEF Writing, ConnInv, WritesCommand
    <3> QED
        BY <3>1, <3>2 DEF Commands
  <2>3. inbox' = <<c>>
      BY <2>1, <2>2 DEF Writing
  <2>4. /\ tcp'.wr = "ok" /\ tcp'.rd = tcp.rd /\ tcp'.conn = tcp.conn
        /\ tcp'.is_open = tcp.is_open /\ tcp'.elapsed = tcp.elapsed
        /\ tcp'.n_socket_status = tcp.n_socket_status
      BY <1>1, <2>1 DEF WriteCompletes, AsyncTcpClients
  <2>5. UNCHANGED n_send_setp
      BY <2>1 DEF clientVars
  <2>6. Written(c)'
      BY <2>1, <2>2, <2>3, <2>4 DEF Writing, Written, Owes
  <2> QED
      BY <2>4, <2>5, <2>6 DEF InTime, IsClosed, Talking
<1>8. CASE ReadBreaks \/ WriteBreaks \/ OpenSocket \/ HandleConnect \/ ConnectionAnswers
    BY <1>8 DEF ReadBreaks, WriteBreaks, OpenSocket, HandleConnect, ConnectionAnswers, Talking
<1> QED
    BY <1>2, <1>3, <1>4, <1>5, <1>6, <1>7, <1>8 DEF Next, Handler, Network

(* The relay starts smoothly, ... *)
LEMMA SmoothInit == Init => SmoothInv
<1> SUFFICES ASSUME Init PROVE InTime /\ Connecting
    BY DEF SmoothInv
<1> QED
    BY DEF Init, StartConnect, NewClient, InTime, IsClosed, Connecting, Owes

(* ... and a step that disturbs nothing takes it on. *)
LEMMA SmoothStep ==
  ASSUME m_timeouts # 0, ConnInv, SmoothInv, [Next]_vars
  PROVE  SmoothInv'
<1>1. CASE UNCHANGED vars
    BY <1>1 DEF vars, SmoothInv, Delivered, InTime, IsClosed, NoOperation, Connecting, Talking,
                Reading, HasReply, Writing, Written, Owes
<1>2. CASE Next
  <2>1. /\ rcpt_to' = rcpt_to
        /\ smooth' => smooth
    <3>1. CASE Handler
        BY <3>1 DEF Handler, OpenSocket, HandleConnect, HandleRead, ReadFails, ReadsOn, Refused,
                    NoRecipient, Quits, SendsNext, Accepted, HasRead, HandleWrite,
                    HandleIoTimer, HandleConnectTimer, clientVars
    <3>2. CASE ServerGreets
        BY <3>2 DEF ServerGreets, Accept, Refuse, clientVars
    <3>3. CASE ServerAnswers
        BY <3>3 DEF ServerAnswers, Accept, Refuse, clientVars
    <3>4. CASE ReadReturns
        BY <3>4 DEF ReadReturns, clientVars
    <3>5. CASE WriteTakes
        BY <3>5 DEF WriteTakes, clientVars
    <3>6. CASE ConnectionAnswers \/ ReadBreaks \/ WriteBreaks
        BY <3>6 DEF ConnectionAnswers, ReadBreaks, WriteBreaks, clientVars
    <3>7. CASE Clock
      <4>1. rcpt_to' = rcpt_to
          BY <3>7 DEF Clock, IoTimerExpires, ConnectTimerExpires, SecondPasses, clientVars
      <4>2. CASE SecondPasses
          BY <4>1, <4>2 DEF SecondPasses
      <4>3. CASE IoTimerExpires \/ ConnectTimerExpires
          BY <4>1, <4>3 DEF IoTimerExpires, ConnectTimerExpires
      <4> QED
          BY <3>7, <4>2, <4>3 DEF Clock
    <3> QED
        BY <1>2, <3>1, <3>2, <3>3, <3>4, <3>5, <3>6, <3>7 DEF Next, Network
  <2> SUFFICES ASSUME smooth', rcpt_to > 0
               PROVE  \/ Delivered'
                      \/ InTime' /\ (Connecting' \/ \E c \in DOMAIN Positive : Talking(c)')
      BY <2>1 DEF SmoothInv
  <2>2. Delivered \/ (InTime /\ (Connecting \/ \E c \in DOMAIN Positive : Talking(c)))
      BY <2>1 DEF SmoothInv
  <2>3. CASE Delivered
      BY <1>2, <2>3, DeliveredStep
  <2>4. CASE InTime /\ Connecting
    <3>1. "greeting" \in DOMAIN Positive
        BY DEF Positive
    <3> QED
        BY <1>2, <2>4, <3>1, ConnectingStep
  <2>5. ASSUME NEW c \in DOMAIN Positive, InTime, Talking(c)
        PROVE  \/ Delivered'
               \/ InTime' /\ (Connecting' \/ \E d \in DOMAIN Positive : Talking(d)')
      BY <1>2, <2>5, TalkingStep
  <2> QED
      BY <2>2, <2>3, <2>4, <2>5
<1> QED
    BY <1>1, <1>2

(* A relay in which nothing goes wrong gives its mail, if it has as much   *)
(* as a second to connect: no step waits for a reply that was not asked    *)
(* for, takes a reply of several lines for an unfinished one or lets a     *)
(* timer run that ends a dialogue in time.                                 *)
THEOREM SmoothRelay ==
  ASSUME m_timeouts # 0
  PROVE  Spec => []SmoothDelivered
<1>1. SmoothInv => SmoothDelivered
  <2> SUFFICES ASSUME SmoothInv, IsClosed(tcp), smooth, rcpt_to > 0
               PROVE  n_send_setp = "QUIT" /\ server = "bye"
      BY DEF SmoothDelivered
  <2> QED
      BY DEF SmoothInv, InTime, Delivered
<1>2. ConnInv /\ SmoothInv /\ [Next]_vars => SmoothInv'
    BY SmoothStep
<1> QED
    BY <1>1, <1>2, ConnInit, ConnStep, SmoothInit, PTL DEF Spec
=============================================================================

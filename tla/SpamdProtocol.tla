--------------------------- MODULE SpamdProtocol ---------------------------
(***************************************************************************)
(* The dialogue of a scan with spamd, text by text: the request that       *)
(* spamd_request builds, spamd's reply read in chunks, and spamd_report,   *)
(* which each time parses all that was read.  A word that is only compared *)
(* as a whole is one code.                                                 *)
(***************************************************************************)
EXTENDS PyPieces, SequencesExt

CONSTANTS
  Mails,     \* the mails to be scanned
  Marks,     \* what spamd writes in front of a mail
  Garbage    \* what n_length may hold when no Content-length line sets it

ASSUME ProtocolAssumption == Mails \cup Marks \subseteq Seq(Nat) /\ Garbage \subseteq Int

(* The length of a reply's body fits n_length, an int: a longer mail is    *)
(* oversize and not scanned.                                               *)
ASSUME LengthAssumption ==
  \A text \in Mails, front \in Marks : Len(front) + Len(text) + 3 <= 2147483647

(* Words. *)
PROCESS == 256
SPAMC_VERSION == 257
SPAMD == 259
EX_OK == 260
EX_DATAERR == 261
CONTENT_LENGTH == 262
SPAM == 263
TRUE_WORD == 264
OTHER_WORD == 265

CRLF == <<CR, LF>>
SPAMD_PROTOCOL_DATA_END_FLAG == <<LF, CR, LF>>
SPAMD_PROTOCOL_DATA_END_FLAG_LEN == 3

(* set_header. *)
Header(name, value) == <<name, BLANK>> \o value \o CRLF

----------------------------------------------------------------------------
(* spamd_request. *)

Request(method, mail) ==
  Header(method, <<SPAMC_VERSION>>)
    \o Header(CONTENT_LENGTH, Long64ToString(Len(mail) + SPAMD_PROTOCOL_DATA_END_FLAG_LEN))
    \o CRLF \o mail \o SPAMD_PROTOCOL_DATA_END_FLAG

----------------------------------------------------------------------------
(* spamd.  It refuses a request whose body is not as long as declared and  *)
(* otherwise returns the body with marks in front of it.  A reply may lack *)
(* the length, and its lines come in either order.                         *)

Shapes == {"length_first", "spam_first", "no_length", "refused"}

Accepts(request) ==
  Between(request, <<CONTENT_LENGTH, BLANK>>, CRLF) =
    Long64ToString(Len(Partition(request, CRLF \o CRLF)[3]))

ReplyHeader(status, length, shape) ==
  LET first == Header(SPAMD, <<ZERO, BLANK, status>>)
      declared == Header(CONTENT_LENGTH, Long64ToString(length))
      spam == Header(SPAM, <<TRUE_WORD, BLANK, OTHER_WORD, BLANK, ZERO, BLANK, OTHER_WORD, BLANK, ZERO>>)
  IN first \o (CASE shape = "spam_first" -> spam \o declared
                 [] shape = "no_length" -> spam
                 [] OTHER -> declared \o spam)

Reply(request, marks, shape) ==
  LET body == marks \o Partition(request, CRLF \o CRLF)[3]
      status == IF Accepts(request) /\ shape # "refused" THEN EX_OK ELSE EX_DATAERR
  IN ReplyHeader(status, Len(body), shape) \o CRLF \o body

----------------------------------------------------------------------------
(* spamd_report. *)

Argv(line) == SplitAt(line, <<BLANK>>, -1)
Begins(line, word) == StartsWith(line, <<word>>, 0, Len(line))

Misread(report) == [report EXCEPT !.parsed = FALSE]

parse_spamd_line(report, line) ==
  IF Len(Argv(line)) < 3 THEN Misread(report)
  ELSE [report EXCEPT !.str_spamd_status = Argv(line)[3]]

parse_content_length(report, line) ==
  IF Len(Argv(line)) < 2 \/ Argv(line)[2] = <<>> THEN Misread(report)
  ELSE [report EXCEPT !.n_length = ToLong64(Argv(line)[2])]

parse_spam_status(report, line) ==
  IF Len(Argv(line)) < 6 \/ Argv(line)[2] = <<>> THEN Misread(report)
  ELSE [report EXCEPT !.b_is_spam = @ \/ Argv(line)[2] = <<TRUE_WORD>>]

parse_line(report, line) ==
  CASE ~report.parsed -> report
    [] report.parsed /\ Begins(line, SPAMD) -> parse_spamd_line(report, line)
    [] report.parsed /\ Begins(line, CONTENT_LENGTH) -> parse_content_length(report, line)
    [] report.parsed /\ Begins(line, SPAM) -> parse_spam_status(report, line)
    [] OTHER -> report

(* n_length starts as whatever the memory holds. *)
Unparsed(n_length) ==
  [parsed |-> TRUE, str_spamd_status |-> <<>>, n_length |-> n_length, b_is_spam |-> FALSE]

parse_lines(lines, n_length) ==
  LET report[k \in 0..Len(lines)] ==
        IF k = 0 THEN Unparsed(n_length) ELSE parse_line(report[k - 1], lines[k])
  IN report[Len(lines)]

parse_header(header, n_length) == parse_lines(SplitAt(header, CRLF, -1), n_length)

Result(code, body) == [code |-> code, body |-> body]
Body(text) == Slice(text, 0, -SPAMD_PROTOCOL_DATA_END_FLAG_LEN)

(* Mutant: the length is not compared. *)
ParseAnyLength(raw, n_length) ==
  LET parts == SplitAt(raw, CRLF \o CRLF, 1)
      report == parse_header(parts[1], n_length)
  IN IF ~EndsWith(raw, SPAMD_PROTOCOL_DATA_END_FLAG, 0, Len(raw))
     THEN Result("SPAMD_DATALEN_ERROR", <<>>)
     ELSE IF Len(parts) < 2 \/ ~report.parsed THEN Result("SPAMD_HEADER_ERROR", <<>>)
     ELSE IF report.str_spamd_status # <<EX_OK>> THEN Result("SPAMD_REPORT_ERROR", <<>>)
     ELSE Result("SPAMD_NO_ERROR", Body(parts[2]))

(* Mutant: the status is not looked at. *)
ParseAnyStatus(raw, n_length) ==
  LET parts == SplitAt(raw, CRLF \o CRLF, 1)
      report == parse_header(parts[1], n_length)
  IN IF ~EndsWith(raw, SPAMD_PROTOCOL_DATA_END_FLAG, 0, Len(raw))
     THEN Result("SPAMD_DATALEN_ERROR", <<>>)
     ELSE IF Len(parts) < 2 \/ ~report.parsed THEN Result("SPAMD_HEADER_ERROR", <<>>)
     ELSE IF Len(parts[2]) # report.n_length THEN Result("SPAMD_DATALEN_ERROR", <<>>)
     ELSE Result("SPAMD_NO_ERROR", Body(parts[2]))

(* Mutant: a part of the reply is parsed like the whole of it. *)
ParseAnyEnd(raw, n_length) ==
  LET parts == SplitAt(raw, CRLF \o CRLF, 1)
      report == parse_header(parts[1], n_length)
  IN IF Len(parts) < 2 \/ ~report.parsed THEN Result("SPAMD_HEADER_ERROR", <<>>)
     ELSE IF report.str_spamd_status # <<EX_OK>> THEN Result("SPAMD_REPORT_ERROR", <<>>)
     ELSE IF Len(parts[2]) # report.n_length THEN Result("SPAMD_DATALEN_ERROR", <<>>)
     ELSE Result("SPAMD_NO_ERROR", Body(parts[2]))

parse_report(raw, n_length) ==
  LET parts == SplitAt(raw, CRLF \o CRLF, 1)
      report == parse_header(parts[1], n_length)
  IN IF ~EndsWith(raw, SPAMD_PROTOCOL_DATA_END_FLAG, 0, Len(raw))
     THEN Result("SPAMD_DATALEN_ERROR", <<>>)
     ELSE IF Len(parts) < 2 \/ ~report.parsed THEN Result("SPAMD_HEADER_ERROR", <<>>)
     ELSE IF report.str_spamd_status # <<EX_OK>> THEN Result("SPAMD_REPORT_ERROR", <<>>)
     ELSE IF Len(parts[2]) # report.n_length THEN Result("SPAMD_DATALEN_ERROR", <<>>)
     ELSE Result("SPAMD_NO_ERROR", Body(parts[2]))

----------------------------------------------------------------------------
(* One scan. *)

VARIABLES
  mail, marks, shape,     \* the mail scanned, and what spamd makes of it
  unread,                 \* what is left of spamd's reply
  m_pystr_report_data,    \* what was read
  session_data,           \* the text that is relayed
  outcome                 \* "reading"; "relayed" or "rejected" by handle_protocol_read; "closed"

vars == <<mail, marks, shape, unread, m_pystr_report_data, session_data, outcome>>

Init ==
  /\ mail \in Mails /\ marks \in Marks /\ shape \in Shapes
  /\ unread = Reply(Request(PROCESS, mail), marks, shape)
  /\ m_pystr_report_data = <<>> /\ session_data = mail /\ outcome = "reading"

handle_protocol_read(bytes, n_length) ==
  LET data == m_pystr_report_data \o Take(unread, bytes)
      report == parse_report(data, n_length)
      good == report.code = "SPAMD_NO_ERROR"
  IN /\ outcome = "reading"
     /\ unread' = Drop(unread, bytes)
     /\ m_pystr_report_data' = IF good THEN <<>> ELSE data
     /\ session_data' = IF good THEN report.body ELSE session_data
     /\ outcome' = CASE good -> "relayed"
                     [] report.code = "SPAMD_DATALEN_ERROR" -> "reading"
                     [] OTHER -> "rejected"
     /\ UNCHANGED <<mail, marks, shape>>

(* spamd ends the connection, or the timer of the scan does. *)
close_tcp_session ==
  /\ outcome = "reading"
  /\ outcome' = "closed"
  /\ UNCHANGED <<mail, marks, shape, unread, m_pystr_report_data, session_data>>

Next ==
  \/ \E bytes \in 1..Len(unread), n_length \in Garbage :
       handle_protocol_read(bytes, n_length)
  \/ close_tcp_session

Spec == Init /\ [][Next]_vars

----------------------------------------------------------------------------
processed == marks \o mail
Declared == shape \in {"length_first", "spam_first"}

(* A reply that declares its length is relayed whole: nothing in the mail, *)
(* neither an end flag nor a blank line of its own, and no way of cutting  *)
(* the reply into chunks makes parse_report take a part for the whole.     *)
RelayedIsReply ==
  outcome = "relayed" /\ Declared => session_data = processed /\ unread = <<>>

(* The request is one spamd accepts, and when all of its reply was read    *)
(* the mail is relayed: parse_report asks for no more than was declared.   *)
(* It rejects no part of a reply that says EX_OK, wherever the reply is    *)
(* cut and also without a length: handle_protocol_read reads on.           *)
CompleteIsRead ==
  /\ Declared /\ unread = <<>> => outcome = "relayed"
  /\ shape # "refused" => outcome # "rejected"

(* Whatever n_length holds, what is relayed is text of spamd's, from its   *)
(* beginning, in a reply that says EX_OK; until then it is the mail.       *)
OnlySpamdsText ==
  IF outcome = "relayed" THEN shape # "refused" /\ IsPrefix(session_data, processed)
  ELSE session_data = mail
=============================================================================

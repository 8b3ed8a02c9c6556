------------------------- MODULE SmtpServerProtocol -------------------------
(***************************************************************************)
(* smtp_server_protocol_class (smtp_protocol_class.hpp) as the session     *)
(* drives it: read_raw_data on each chunk received, and the mail handed on *)
(* when is_data_end.  The peer waits for the reply to each command; the    *)
(* text of a mail reaches the server in chunks as TCP cuts it.             *)
(*                                                                         *)
(* Text is a sequence of pieces.  The end of a mail is two pieces on the   *)
(* wire, "CRLF." and "CRLF", since a chunk may end between them; a mail    *)
(* without text has no CRLF of its own before the dot.                     *)
(***************************************************************************)
EXTENDS Integers, Sequences, SequencesExt

CONSTANTS Senders, Recipients,
          Texts,             \* the texts a mail may have
          MaxSize,           \* bound: the size a peer may declare
          MaxMails,          \* bound: mails begun in the session
          MaxRecipients,     \* bound: RCPT commands of one mail
          PeerResets,        \* the peer sends RSET between two mails
          WholeTerminator    \* TCP delivers the end of a text in one chunk

ASSUME PeerAssumption == PeerResets \in BOOLEAN /\ WholeTerminator \in BOOLEAN
ASSUME BoundsAssumption ==
  MaxSize \in Nat /\ MaxMails \in Nat /\ MaxRecipients \in Nat

(* A declared size fits session_data_length, an int.                       *)
ASSUME SizeAssumption == MaxSize <= 2147483647

(* The peer doubles a dot that starts a line, so the end of a mail is not  *)
(* in its text.                                                            *)
ASSUME TextsAssumption ==
  \A text \in Texts :
    /\ text \in Seq(Range(text))
    /\ \A i \in 1 .. Len(text) - 1 : text[i] = "CRLF." => text[i + 1] # "CRLF"

VARIABLES
  smtp_session_status,
  session_data_length,   \* the size to compare with, 0 for none
  smtp_info,
  handed,                \* the mails the session has handed on
  wire,                  \* the rest of the text on its way to the server
  envelope,              \* the mail as the peer is sending it
  size,                  \* the size the peer declared for it, or NoSize
  clean,                 \* no MAIL since the last RSET
  begun                  \* MAIL commands so far

vars == <<smtp_session_status, session_data_length, smtp_info, handed, wire,
          envelope, size, clean, begun>>

NoSender == "none"
ASSUME SendersAssumption == NoSender \notin Senders

(* The size of a mail may be left out; "size=0" says that it is not known. *)
NoSize == -1
Sizes == (0 .. MaxSize) \cup {NoSize}

Empty == [session_command_mail_from |-> NoSender,
          session_command_rcpt_to |-> <<>>, session_data |-> <<>>]

(* add_last_sender_ip_to_data_header puts a line before the text. *)
IpHeader == "X-REAL-SENDER-IP"

Init == /\ smtp_session_status = "COMMAND"
        /\ session_data_length = 0
        /\ smtp_info = Empty
        /\ handed = <<>>
        /\ wire = <<>>
        /\ envelope = Empty
        /\ size = NoSize
        /\ clean = TRUE
        /\ begun = 0

----------------------------------------------------------------------------
(* Commands.  read_raw_data reads one in COMMAND and in DATAEND, which is  *)
(* COMMAND from then on.                                                   *)

ReadsCommand == smtp_session_status \in {"COMMAND", "DATAEND"}
Reply(status) == ReadsCommand /\ smtp_session_status' = status

(* The peer's view: a mail has been begun and not ended. *)
InMail == envelope.session_command_mail_from # NoSender

(* Mutant: the declared sizes of a session add up. *)
MailAddsSize(from, declared) ==
  /\ Reply("COMMAND")
  /\ ~InMail
  /\ begun < MaxMails
  /\ begun' = begun + 1
  /\ PeerResets => clean
  /\ clean' = FALSE
  /\ smtp_info' = [smtp_info EXCEPT !.session_command_mail_from = from]
  /\ session_data_length' = session_data_length + (IF declared = NoSize THEN 0 ELSE declared)
  /\ envelope' = [Empty EXCEPT !.session_command_mail_from = from]
  /\ size' = declared
  /\ UNCHANGED <<handed, wire>>

(* Mutant: the first size declared in the session stays. *)
MailKeepsSize(from, declared) ==
  /\ Reply("COMMAND")
  /\ ~InMail
  /\ begun < MaxMails
  /\ begun' = begun + 1
  /\ PeerResets => clean
  /\ clean' = FALSE
  /\ smtp_info' = [smtp_info EXCEPT !.session_command_mail_from = from]
  /\ session_data_length' = IF declared = NoSize \/ session_data_length # 0 THEN session_data_length ELSE declared
  /\ envelope' = [Empty EXCEPT !.session_command_mail_from = from]
  /\ size' = declared
  /\ UNCHANGED <<handed, wire>>

(* command_mail_form, which a peer sends outside a mail; a size that is    *)
(* not given leaves session_data_length alone, and size=0 resets it.       *)
Mail(from, declared) ==
  /\ Reply("COMMAND")
  /\ ~InMail
  /\ begun < MaxMails
  /\ begun' = begun + 1
  /\ PeerResets => clean
  /\ clean' = FALSE
  /\ smtp_info' = [smtp_info EXCEPT !.session_command_mail_from = from]
  /\ session_data_length' = IF declared = NoSize THEN session_data_length ELSE declared
  /\ envelope' = [Empty EXCEPT !.session_command_mail_from = from]
  /\ size' = declared
  /\ UNCHANGED <<handed, wire>>

(* command_mail_form without an address between :< and >, the sender of a  *)
(* bounce included: 501, but the sender is empty from then on.             *)
MailRefused ==
  /\ Reply("COMMAND")
  /\ ~InMail
  /\ smtp_info' = [smtp_info EXCEPT !.session_command_mail_from = NoSender]
  /\ UNCHANGED <<session_data_length, handed, wire, envelope, size, clean, begun>>

(* command_rcpt_to. *)
Rcpt(to) ==
  /\ Reply("COMMAND")
  /\ InMail
  /\ Len(envelope.session_command_rcpt_to) < MaxRecipients
  /\ smtp_info' = [smtp_info EXCEPT !.session_command_rcpt_to = Append(@, to)]
  /\ envelope' = [envelope EXCEPT !.session_command_rcpt_to = Append(@, to)]
  /\ UNCHANGED <<session_data_length, handed, wire, size, clean, begun>>

(* What the peer puts on the wire for a text. *)
Terminated(text) == text \o (IF text = <<>> THEN <<".", "CRLF">> ELSE <<"CRLF.", "CRLF">>)

(* command_data_start, and the peer starts to send the text. *)
Data(text) ==
  /\ Reply("DATA")
  /\ InMail
  /\ envelope.session_command_rcpt_to # <<>>
  /\ envelope' = [envelope EXCEPT !.session_data = text]
  /\ wire' = Terminated(text)
  /\ UNCHANGED <<session_data_length, smtp_info, handed, size, clean, begun>>

(* Mutant: RSET keeps the text received so far. *)
RsetKeepsText ==
  /\ Reply("COMMAND")
  /\ smtp_info' = [Empty EXCEPT !.session_data = smtp_info.session_data]
  /\ envelope' = Empty
  /\ clean' = TRUE
  /\ UNCHANGED <<session_data_length, handed, wire, size, begun>>

(* command_rset clears smtp_info and not session_data_length. *)
Rset == /\ Reply("COMMAND")
        /\ smtp_info' = Empty
        /\ envelope' = Empty
        /\ clean' = TRUE
        /\ UNCHANGED <<session_data_length, handed, wire, size, begun>>

(* HELO, EHLO, NOOP, RCPT without an address and what read_command does    *)
(* not know: a reply, and no effect on a mail.                             *)
OtherCommand == /\ Reply("COMMAND")
                /\ UNCHANGED <<session_data_length, smtp_info, handed, wire,
                               envelope, size, clean, begun>>

Quit == /\ Reply("QUIT")
        /\ UNCHANGED <<session_data_length, smtp_info, handed, wire, envelope,
                       size, clean, begun>>

----------------------------------------------------------------------------
(* Text: read_raw_data in DATA, and handle_protocol_read of the session.    *)

(* The chunks that TCP may deliver next. *)
Chunks == {c \in Prefixes(wire) : /\ c # <<>>
                                  /\ WholeTerminator => Len(c) # Len(wire) - 1}

End == <<"CRLF.", "CRLF">>

(* Mutant: only a chunk that is nothing but the end is recognised. *)
EndsMailExactly(chunk) == chunk = End

(* data.py_endswith("\r\n.\r\n") of the chunk, not of the text so far. *)
EndsMail(chunk) == IsSuffix(End, chunk)

(* Part of a text: kept, no reply. *)
TextPart(chunk) ==
  /\ smtp_session_status = "DATA"
  /\ ~EndsMail(chunk)
  /\ smtp_info' = [smtp_info EXCEPT !.session_data = @ \o chunk]
  /\ UNCHANGED <<smtp_session_status, session_data_length, handed, envelope, size,
                 clean, begun>>

(* The text with the last chunk, its end cut off: py_slice(0, -5). *)
WholeText(chunk) ==
  smtp_info.session_data \o SubSeq(chunk, 1, Len(chunk) - Len(End))

LengthOK(text) == session_data_length \in {0, Len(text)}

(* command_data_end; the mail goes to the filters, with the header line if *)
(* find_last_sender_ip has found an address in the text.                   *)
TextEnds(chunk) ==
  /\ smtp_session_status = "DATA"
  /\ EndsMail(chunk)
  /\ LengthOK(WholeText(chunk))
  /\ smtp_session_status' = "DATAEND"
  /\ \E header \in {<<>>, <<IpHeader>>} :
       smtp_info' = [smtp_info EXCEPT !.session_data = header \o WholeText(chunk)]
  /\ handed' = Append(handed, [got |-> smtp_info', sent |-> envelope])
  /\ envelope' = Empty
  /\ UNCHANGED <<session_data_length, size, clean, begun>>

(* The reply 500, after command_rset. *)
TextRefused(chunk) ==
  /\ smtp_session_status = "DATA"
  /\ EndsMail(chunk)
  /\ ~LengthOK(WholeText(chunk))
  /\ smtp_session_status' = "COMMAND"
  /\ smtp_info' = Empty
  /\ envelope' = Empty
  /\ UNCHANGED <<session_data_length, handed, size, clean, begun>>

Text == \E chunk \in Chunks :
          /\ TextPart(chunk) \/ TextEnds(chunk) \/ TextRefused(chunk)
          /\ wire' = SubSeq(wire, Len(chunk) + 1, Len(wire))

Next == \/ \E from \in Senders, declared \in Sizes : Mail(from, declared)
        \/ \E to \in Recipients : Rcpt(to)
        \/ \E text \in Texts : Data(text)
        \/ Text \/ Rset \/ MailRefused \/ OtherCommand \/ Quit

Spec == Init /\ [][Next]_vars

----------------------------------------------------------------------------

Pieces == (UNION {Range(text) : text \in Texts}) \cup {IpHeader, ".", "CRLF.", "CRLF"}
Infos == [session_command_mail_from : Senders \cup {NoSender},
          session_command_rcpt_to   : Seq(Recipients),
          session_data              : Seq(Pieces)]

TypeOK == /\ smtp_session_status \in {"COMMAND", "DATA", "DATAEND", "QUIT"}
          /\ session_data_length \in 0 .. MaxSize
          /\ smtp_info \in Infos
          /\ handed \in Seq([got : Infos, sent : Infos])
          /\ envelope \in Infos

(* What goes on to the filters and to spamd is the mail the peer sent in   *)
(* this transaction: its sender, all its recipients in order and its text, *)
(* however TCP cut it, with nothing of an earlier mail of the session.     *)
HandedAsSent ==
  \A i \in 1 .. Len(handed) :
    LET got == handed[i].got
        sent == handed[i].sent
    IN \/ got = sent
       \/ got = [sent EXCEPT !.session_data = <<IpHeader>> \o @]

(* The size that decides about a mail is the one its own MAIL declared,    *)
(* whatever the mails before it in the session declared: it is handed on   *)
(* only with that size, and when it has it, or its peer said size=0, the   *)
(* text is not refused.                                                    *)
SizeDecides ==
  [][/\ handed' # handed => size \in {NoSize, 0, Len(envelope.session_data)}
     /\ smtp_session_status = "DATA" /\ smtp_session_status' = "COMMAND" =>
          size \notin {0, Len(envelope.session_data)}]_vars

(* "354 End data with <CR><LF>.<CR><LF>": once all of a text was read, the *)
(* server has left the data state and the peer gets its reply.             *)
EndDetected == smtp_session_status = "DATA" => wire # <<>>
=============================================================================

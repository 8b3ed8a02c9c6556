---------------------- MODULE SmtpServerProtocolProofs ----------------------
(***************************************************************************)
(* Proofs about SmtpServerProtocol, for any senders, recipients and texts, *)
(* any number of mails and any way TCP cuts a text.  While a text is on    *)
(* its way, what the server has of it and what is still on the wire make   *)
(* up what the peer sent; the text itself holds no end of a mail, so the   *)
(* chunk that ends with one is the last.  Between two mails the peer's     *)
(* RSET leaves nothing of the first.                                       *)
(***************************************************************************)
EXTENDS SmtpServerProtocol, SequenceTheorems, TLAPS

(* The types, those of the peer's part included. *)
TypeInv == /\ TypeOK
           /\ wire \in Seq(Pieces)
           /\ size \in Sizes

(* After RSET and before the next MAIL there is nothing of a mail. *)
CleanIsEmpty == clean => smtp_info = Empty /\ envelope = Empty

(* Before its text, a mail is what the commands said. *)
CommandsAsSent ==
  InMail /\ ReadsCommand => smtp_info = envelope /\ envelope.session_data = <<>>

(* While the text is received: what was read and what is on the wire. *)
TextAsSent ==
  smtp_session_status = "DATA" =>
    /\ InMail
    /\ envelope.session_data \in Texts
    /\ smtp_info.session_command_mail_from = envelope.session_command_mail_from
    /\ smtp_info.session_command_rcpt_to = envelope.session_command_rcpt_to
    /\ smtp_info.session_data \o wire = Terminated(envelope.session_data)

(* A size that was declared is the one the server compares with. *)
SizeKept == size # NoSize => session_data_length = size

(* A text is never read up to its end without leaving the data state. *)
EndOnWire == smtp_session_status = "DATA" => IsSuffix(End, wire)

MailInv == /\ CleanIsEmpty
           /\ CommandsAsSent
           /\ TextAsSent
           /\ SizeKept
           /\ HandedAsSent

----------------------------------------------------------------------------

(* A part of a sequence. *)
LEMMA SubSeqIs ==
  ASSUME NEW T, NEW s \in Seq(T), NEW m \in Nat \ {0}, NEW n \in Nat,
         m <= n + 1, n <= Len(s)
  PROVE  /\ SubSeq(s, m, n) \in Seq(T)
         /\ Len(SubSeq(s, m, n)) = n - m + 1
         /\ \A i \in 1 .. n - m + 1 : SubSeq(s, m, n)[i] = s[m + i - 1]
<1>1. Len(s) \in Nat
    BY LenProperties
<1>2. \A i \in m .. n : s[i] \in T
    BY <1>1, ElementOfSeq
<1>3. /\ SubSeq(s, m, n) \in Seq(T)
      /\ Len(SubSeq(s, m, n)) = IF m <= n THEN n - m + 1 ELSE 0
      /\ \A i \in 1 .. n - m + 1 : SubSeq(s, m, n)[i] = s[m + i - 1]
    BY <1>2, SubSeqProperties
<1> QED
    BY <1>3

(* What a text and its end are made of. *)
LEMMA TerminatedProperties ==
  ASSUME NEW text \in Texts
  PROVE  /\ text \in Seq(Pieces)
         /\ Terminated(text) \in Seq(Pieces)
         /\ Len(text) \in Nat
         /\ Len(Terminated(text)) = Len(text) + 2
         /\ \A i \in 1 .. Len(text) : Terminated(text)[i] = text[i]
         /\ Terminated(text)[Len(text) + 1] = IF text = <<>> THEN "." ELSE "CRLF."
         /\ Terminated(text)[Len(text) + 2] = "CRLF"
<1> DEFINE end == IF text = <<>> THEN <<".", "CRLF">> ELSE <<"CRLF.", "CRLF">>
<1>1. text \in Seq(Range(text)) /\ Range(text) \subseteq Pieces
    BY TextsAssumption DEF Pieces
<1>2. text \in Seq(Pieces) /\ Len(text) \in Nat
    BY <1>1, SeqMonotonic, LenProperties
<1>3. /\ end \in Seq(Pieces) /\ Len(end) = 2
      /\ end[1] = IF text = <<>> THEN "." ELSE "CRLF."
      /\ end[2] = "CRLF"
  <2>1. "." \in Pieces /\ "CRLF." \in Pieces /\ "CRLF" \in Pieces
      BY DEF Pieces
  <2>2. CASE text = <<>>
      BY <2>1, <2>2
  <2>3. CASE text # <<>>
      BY <2>1, <2>3
  <2> QED
      BY <2>2, <2>3
<1>4. Terminated(text) = text \o end
    BY DEF Terminated
<1> HIDE DEF end
<1>5. /\ text \o end \in Seq(Pieces)
      /\ Len(text \o end) = Len(text) + Len(end)
      /\ \A i \in 1 .. Len(text) + Len(end) :
           (text \o end)[i] = IF i <= Len(text) THEN text[i] ELSE end[i - Len(text)]
    BY <1>2, <1>3, ConcatProperties
<1>6. /\ Terminated(text)[Len(text) + 1] = end[1]
      /\ Terminated(text)[Len(text) + 2] = end[2]
      /\ \A i \in 1 .. Len(text) : Terminated(text)[i] = text[i]
  <2>1. Len(text) + 1 - Len(text) = 1 /\ Len(text) + 2 - Len(text) = 2
      BY <1>2
  <2> QED
      BY <1>2, <1>3, <1>4, <1>5, <2>1
<1> QED
    BY <1>2, <1>3, <1>4, <1>5, <1>6

(* py_endswith: the last two pieces are the end of a mail. *)
LEMMA EndsWithEnd ==
  ASSUME NEW T, NEW s \in Seq(T)
  PROVE  IsSuffix(End, s) <=> /\ Len(s) >= 2
                              /\ s[Len(s) - 1] = "CRLF."
                              /\ s[Len(s)] = "CRLF"
<1> DEFINE r == Reverse(s)
           e == Reverse(End)
<1>1. Len(s) \in Nat
    BY LenProperties
<1>2. r = [i \in 1 .. Len(s) |-> s[(Len(s) - i) + 1]]
    BY DEF Reverse
<1>3. r \in Seq(T) /\ Len(r) = Len(s)
    BY <1>1, <1>2, ElementOfSeq
<1>4. e = [i \in 1 .. 2 |-> End[(2 - i) + 1]] /\ Len(e) = 2
    BY DEF Reverse, End
<1>5. e[1] = "CRLF" /\ e[2] = "CRLF."
    BY <1>4 DEF End
<1>6. IsSuffix(End, s) <=> 2 <= Len(s) /\ SubSeq(e, 1, 2) = SubSeq(r, 1, 2)
    BY <1>3, <1>4 DEF IsSuffix, IsPrefix
<1> HIDE DEF r, e
<1>7. ASSUME 2 <= Len(s)
      PROVE  SubSeq(e, 1, 2) = SubSeq(r, 1, 2)
               <=> s[Len(s) - 1] = "CRLF." /\ s[Len(s)] = "CRLF"
  <2>1. r[1] = s[Len(s)] /\ r[2] = s[Len(s) - 1]
      BY <1>1, <1>2, <1>7
  <2>2. /\ SubSeq(e, 1, 2) \in Seq({"CRLF", "CRLF."}) /\ Len(SubSeq(e, 1, 2)) = 2
        /\ SubSeq(e, 1, 2)[1] = e[1] /\ SubSeq(e, 1, 2)[2] = e[2]
    <3>1. e \in Seq({"CRLF", "CRLF."})
        BY <1>4, <1>5
    <3>2. \A i \in 1 .. 2 : SubSeq(e, 1, 2)[i] = e[1 + i - 1]
        BY <1>4, <3>1, SubSeqIs
    <3> QED
        BY <1>4, <3>1, <3>2, SubSeqIs
  <2>3. /\ SubSeq(r, 1, 2) \in Seq(T) /\ Len(SubSeq(r, 1, 2)) = 2
        /\ SubSeq(r, 1, 2)[1] = r[1] /\ SubSeq(r, 1, 2)[2] = r[2]
    <3>1. \A i \in 1 .. 2 : SubSeq(r, 1, 2)[i] = r[1 + i - 1]
        BY <1>3, <1>7, SubSeqIs
    <3> QED
        BY <1>3, <1>7, <3>1, SubSeqIs
  <2>4. r[1] = e[1] /\ r[2] = e[2] => SubSeq(e, 1, 2) = SubSeq(r, 1, 2)
    <3>1. SubSeq(e, 1, 2) \in Seq({"CRLF", "CRLF."} \cup T) /\ SubSeq(r, 1, 2) \in Seq({"CRLF", "CRLF."} \cup T)
        BY <2>2, <2>3, SeqMonotonic
    <3>2. 1 .. 2 = {1, 2}
        OBVIOUS
    <3> QED
        BY <2>2, <2>3, <3>1, <3>2, SeqEqual
  <2> QED
      BY <1>5, <2>1, <2>2, <2>3, <2>4
<1> QED
    BY <1>1, <1>6, <1>7

(* A chunk and the rest of the wire. *)
LEMMA ChunkCut ==
  ASSUME TypeInv, NEW chunk \in Chunks
  PROVE  LET rest == SubSeq(wire, Len(chunk) + 1, Len(wire))
         IN  /\ chunk \in Seq(Pieces) /\ Len(chunk) \in Nat \ {0}
             /\ rest \in Seq(Pieces)
             /\ Len(wire) = Len(chunk) + Len(rest)
             /\ \A i \in 1 .. Len(rest) : rest[i] = wire[Len(chunk) + i]
             /\ wire = chunk \o rest
             /\ WholeTerminator => Len(rest) # 1
<1> DEFINE rest == SubSeq(wire, Len(chunk) + 1, Len(wire))
<1>1. wire \in Seq(Pieces) /\ Len(wire) \in Nat
    BY LenProperties DEF TypeInv
<1>2. PICK l \in 0 .. Len(wire) : chunk = SubSeq(wire, 1, l)
    BY DEF Chunks, Prefixes
<1>4. chunk \in Seq(Pieces) /\ Len(chunk) = l
  <2>1. l \in Nat /\ l <= Len(wire) /\ 1 <= l + 1 /\ l - 1 + 1 = l
      BY <1>1
  <2> QED
      BY <1>1, <1>2, <2>1, SubSeqIs
<1>5. l # 0
    BY <1>1, <1>2, <1>4, EmptySeq DEF Chunks
<1>6. /\ rest \in Seq(Pieces)
      /\ Len(rest) = Len(wire) - l
      /\ \A i \in 1 .. Len(rest) : rest[i] = wire[l + i]
  <2>1. /\ l + 1 \in Nat \ {0} /\ l + 1 <= Len(wire) + 1
        /\ Len(wire) - (l + 1) + 1 = Len(wire) - l
      BY <1>1
  <2> DEFINE m == l + 1
  <2>2. m \in Nat \ {0} /\ m <= Len(wire) + 1
      BY <2>1
  <2> HIDE DEF m
  <2>3. /\ SubSeq(wire, m, Len(wire)) \in Seq(Pieces)
        /\ Len(SubSeq(wire, m, Len(wire))) = Len(wire) - m + 1
        /\ \A i \in 1 .. Len(wire) - m + 1 :
             SubSeq(wire, m, Len(wire))[i] = wire[m + i - 1]
      BY <1>1, <2>2, SubSeqIs
  <2>4. \A i \in 1 .. Len(wire) - l : (l + 1) + i - 1 = l + i
      BY <1>1
  <2> QED
      BY <1>4, <2>1, <2>3, <2>4 DEF m
<1>7. wire = chunk \o rest
  <2>1. /\ 1 \in 1 .. Len(wire) + 1 /\ l \in 1 - 1 .. Len(wire)
        /\ Len(wire) \in l .. Len(wire)
      BY <1>1
  <2>2. SubSeq(wire, 1, l) \o SubSeq(wire, l + 1, Len(wire)) = SubSeq(wire, 1, Len(wire))
      BY <1>1, <2>1, ConcatAdjacentSubSeq
  <2> QED
      BY <1>1, <1>2, <1>4, <2>2, SubSeqFull
<1>8. WholeTerminator => Len(rest) # 1
    BY <1>1, <1>4, <1>6 DEF Chunks
<1> HIDE DEF rest
<1>9. Len(wire) = Len(chunk) + Len(rest) /\ Len(chunk) \in Nat \ {0}
    BY <1>1, <1>4, <1>5, <1>6
<1> QED
    BY <1>4, <1>6, <1>7, <1>8, <1>9 DEF rest

(* The chunk that ends with the end of a mail is the last of the text: all *)
(* the text is there once the end is cut off.                              *)
LEMMA EndIsLast ==
  ASSUME NEW data \in Seq(Pieces), NEW chunk \in Seq(Pieces), NEW rest \in Seq(Pieces),
         NEW text \in Texts,
         data \o (chunk \o rest) = Terminated(text),
         IsSuffix(End, chunk)
  PROVE  data \o SubSeq(chunk, 1, Len(chunk) - Len(End)) = text
<1> DEFINE T == Terminated(text)
           d == Len(data)
           c == Len(chunk)
           n == Len(text)
           body == SubSeq(chunk, 1, c - 2)
<1>0. d \in Nat /\ c \in Nat /\ c >= 2 /\ Len(rest) \in Nat /\ n \in Nat
    BY LenProperties, EndsWithEnd, TerminatedProperties
<1>1. /\ d \in Nat /\ c \in Nat /\ c >= 2 /\ Len(rest) \in Nat /\ n \in Nat
      /\ chunk[c - 1] = "CRLF." /\ chunk[c] = "CRLF"
    BY <1>0, EndsWithEnd
<1>2. /\ chunk \o rest \in Seq(Pieces)
      /\ Len(chunk \o rest) = c + Len(rest)
      /\ \A i \in 1 .. c : (chunk \o rest)[i] = chunk[i]
    BY <1>1, ConcatProperties
<1>3. /\ Len(T) = d + (c + Len(rest))
      /\ \A i \in 1 .. d + (c + Len(rest)) :
           T[i] = IF i <= d THEN data[i] ELSE (chunk \o rest)[i - d]
    BY <1>1, <1>2, ConcatProperties
<1>4. \A i \in 1 .. d : T[i] = data[i]
    BY <1>1, <1>3
<1>5. \A i \in 1 .. c : T[d + i] = chunk[i]
  <2> SUFFICES ASSUME NEW i \in 1 .. c PROVE T[d + i] = chunk[i]
      OBVIOUS
  <2>1. d + i \in 1 .. d + (c + Len(rest)) /\ ~(d + i <= d) /\ d + i - d = i
      BY <1>1
  <2> QED
      BY <1>1, <1>2, <1>3, <2>1
<1>6. T[d + c - 1] = "CRLF." /\ T[d + c] = "CRLF"
  <2>1. c - 1 \in 1 .. c /\ c \in 1 .. c /\ d + (c - 1) = d + c - 1
      BY <1>1
  <2> QED
      BY <1>1, <1>5, <2>1
<1>7. d + c = n + 2
  <2>1. d + c <= n + 2
      BY <1>1, <1>3, TerminatedProperties
  <2>2. d + c # n + 1
      BY <1>1, <1>6, TerminatedProperties
  <2>3. ~(d + c <= n)
    <3> SUFFICES ASSUME d + c <= n PROVE FALSE
        OBVIOUS
    <3>1. d + c - 1 \in 1 .. n - 1 /\ d + c \in 1 .. n /\ d + c - 1 \in 1 .. n
          /\ (d + c - 1) + 1 = d + c
        BY <1>1
    <3>2. text[d + c - 1] = "CRLF." /\ text[d + c] = "CRLF"
        BY <1>6, <3>1, TerminatedProperties
    <3> QED
        BY <3>1, <3>2, TextsAssumption
  <2> HIDE DEF d, c, n
  <2> QED
      BY <1>0, <2>1, <2>2, <2>3
<1>8. /\ body \in Seq(Pieces) /\ Len(body) = c - 2
      /\ \A i \in 1 .. c - 2 : body[i] = chunk[i]
  <2>1. c - 2 \in Nat /\ 1 <= (c - 2) + 1 /\ c - 2 <= c /\ (c - 2) - 1 + 1 = c - 2
      BY <1>1
  <2>2. /\ body \in Seq(Pieces) /\ Len(body) = c - 2
        /\ \A i \in 1 .. c - 2 : body[i] = chunk[1 + i - 1]
      BY <2>1, SubSeqIs
  <2>3. \A i \in 1 .. c - 2 : 1 + i - 1 = i
      BY <1>1
  <2> QED
      BY <2>2, <2>3
<1> HIDE DEF body
<1>9. /\ data \o body \in Seq(Pieces)
      /\ Len(data \o body) = n
      /\ \A i \in 1 .. n : (data \o body)[i] = IF i <= d THEN data[i] ELSE body[i - d]
  <2>1. Len(data) + Len(body) = n
      BY <1>1, <1>7, <1>8
  <2> QED
      BY <1>8, <2>1, ConcatProperties
<1>10. ASSUME NEW i \in 1 .. n PROVE (data \o body)[i] = text[i]
  <2>1. CASE i <= d
    <3>1. i \in 1 .. d
        BY <1>1, <2>1
    <3>2. data[i] = T[i]
        BY <1>4, <3>1
    <3>3. T[i] = text[i]
        BY TerminatedProperties
    <3>4. (data \o body)[i] = data[i]
        BY <1>9, <2>1
    <3> QED
        BY <3>2, <3>3, <3>4
  <2>2. CASE ~(i <= d)
    <3>1. i - d \in 1 .. c - 2 /\ i - d \in 1 .. c /\ d + (i - d) = i
        BY <1>1, <1>7, <2>2
    <3>2. body[i - d] = T[i]
        BY <1>5, <1>8, <3>1
    <3> QED
        BY <1>9, <2>2, <3>2, TerminatedProperties
  <2> QED
      BY <2>1, <2>2
<1>11. data \o body = text
  <2>1. text \in Seq(Pieces) /\ Len(text) = n
      BY TerminatedProperties
  <2>2. \A i \in 1 .. Len(text) : (data \o body)[i] = text[i]
      BY <1>10, <2>1
  <2> QED
      BY <1>9, <2>1, <2>2, SeqEqual, Zenon
<1>12. Len(End) = 2
    BY DEF End
<1> QED
    BY <1>11, <1>12 DEF body

----------------------------------------------------------------------------

(* A mail keeps its type when one of its parts is replaced. *)
LEMMA InfosProperties ==
  /\ Empty \in Infos
  /\ \A info \in Infos :
       /\ info.session_command_mail_from \in Senders \cup {NoSender}
       /\ info.session_command_rcpt_to \in Seq(Recipients)
       /\ info.session_data \in Seq(Pieces)
       /\ \A from \in Senders \cup {NoSender} :
            [info EXCEPT !.session_command_mail_from = from] \in Infos
       /\ \A to \in Seq(Recipients) :
            [info EXCEPT !.session_command_rcpt_to = to] \in Infos
       /\ \A text \in Seq(Pieces) : [info EXCEPT !.session_data = text] \in Infos
<1>1. <<>> \in Seq(Recipients) /\ <<>> \in Seq(Pieces)
    BY EmptySeq
<1> QED
    BY <1>1 DEF Infos, Empty

(* The text that a chunk completes has its type. *)
LEMMA WholeTextType ==
  ASSUME TypeInv, NEW chunk \in Chunks, EndsMail(chunk)
  PROVE  /\ WholeText(chunk) \in Seq(Pieces)
         /\ \A header \in {<<>>, <<IpHeader>>} : header \o WholeText(chunk) \in Seq(Pieces)
<1>1. smtp_info.session_data \in Seq(Pieces)
    BY InfosProperties DEF TypeInv, TypeOK
<1>2. chunk \in Seq(Pieces) /\ Len(chunk) \in Nat /\ Len(chunk) >= 2
    BY ChunkCut, EndsWithEnd DEF EndsMail
<1>3. SubSeq(chunk, 1, Len(chunk) - 2) \in Seq(Pieces)
  <2>1. Len(chunk) - 2 \in Nat /\ 1 <= Len(chunk) - 2 + 1 /\ Len(chunk) - 2 <= Len(chunk)
      BY <1>2
  <2> QED
      BY <1>2, <2>1, SubSeqIs
<1>4. WholeText(chunk) = smtp_info.session_data \o SubSeq(chunk, 1, Len(chunk) - 2)
    BY DEF WholeText, End
<1>5. WholeText(chunk) \in Seq(Pieces)
    BY <1>1, <1>3, <1>4, ConcatProperties
<1>6. <<>> \in Seq(Pieces) /\ <<IpHeader>> \in Seq(Pieces)
    BY DEF Pieces
<1> QED
    BY <1>5, <1>6, ConcatProperties

(* The commands keep the types. *)
LEMMA CommandTypes ==
  ASSUME TypeInv,
         \/ \E from \in Senders, declared \in Sizes : Mail(from, declared)
         \/ \E to \in Recipients : Rcpt(to)
         \/ \E text \in Texts : Data(text)
         \/ Rset \/ MailRefused \/ OtherCommand \/ Quit
  PROVE  TypeInv'
<1> USE DEF TypeInv, TypeOK, Reply
<1>1. ASSUME NEW from \in Senders, NEW declared \in Sizes, Mail(from, declared)
      PROVE  TypeInv'
  <2>1. /\ smtp_info' \in Infos /\ envelope' \in Infos
      BY <1>1, InfosProperties DEF Mail
  <2>2. session_data_length' \in 0 .. MaxSize
      BY <1>1 DEF Mail, Sizes, NoSize
  <2> QED
      BY <1>1, <2>1, <2>2 DEF Mail
<1>2. ASSUME NEW to \in Recipients, Rcpt(to) PROVE TypeInv'
  <2>1. \A info \in Infos :
          [info EXCEPT !.session_command_rcpt_to = Append(@, to)] \in Infos
    <3> SUFFICES ASSUME NEW info \in Infos
                 PROVE  [info EXCEPT !.session_command_rcpt_to = Append(@, to)] \in Infos
        OBVIOUS
    <3>1. Append(info.session_command_rcpt_to, to) \in Seq(Recipients)
        BY InfosProperties, AppendProperties
    <3> QED
        BY <3>1, InfosProperties
  <2> QED
      BY <1>2, <2>1 DEF Rcpt
<1>3. ASSUME NEW text \in Texts, Data(text) PROVE TypeInv'
  <2>1. envelope' \in Infos
      BY <1>3, InfosProperties, TerminatedProperties DEF Data
  <2>2. wire' \in Seq(Pieces)
      BY <1>3, TerminatedProperties DEF Data
  <2> QED
      BY <1>3, <2>1, <2>2 DEF Data
<1>4. CASE Rset
    BY <1>4, InfosProperties DEF Rset
<1>5. CASE OtherCommand
    BY <1>5 DEF OtherCommand
<1>6. CASE Quit
    BY <1>6 DEF Quit
<1>7. CASE MailRefused
    BY <1>7, InfosProperties DEF MailRefused
<1> QED
    BY <1>1, <1>2, <1>3, <1>4, <1>5, <1>6, <1>7

(* A chunk of the text keeps the types. *)
LEMMA TextTypes ==
  ASSUME TypeInv, Text
  PROVE  TypeInv'
<1> USE DEF TypeInv, TypeOK
<1>1. PICK chunk \in Chunks :
        /\ TextPart(chunk) \/ TextEnds(chunk) \/ TextRefused(chunk)
        /\ wire' = SubSeq(wire, Len(chunk) + 1, Len(wire))
    BY DEF Text
<1>2. wire' \in Seq(Pieces)
    BY <1>1, ChunkCut
<1>3. CASE TextPart(chunk)
  <2>1. smtp_info.session_data \o chunk \in Seq(Pieces)
      BY ChunkCut, InfosProperties, ConcatProperties
  <2>2. smtp_info' \in Infos
      BY <1>3, <2>1, InfosProperties DEF TextPart
  <2> QED
      BY <1>2, <1>3, <2>2 DEF TextPart
<1>4. CASE TextEnds(chunk)
  <2>1. smtp_info' \in Infos /\ envelope' \in Infos
    <3>1. PICK header \in {<<>>, <<IpHeader>>} :
            smtp_info' = [smtp_info EXCEPT !.session_data = header \o WholeText(chunk)]
        BY <1>4 DEF TextEnds
    <3>2. header \o WholeText(chunk) \in Seq(Pieces)
        BY <1>4, WholeTextType DEF TextEnds
    <3> QED
        BY <1>4, <3>1, <3>2, InfosProperties DEF TextEnds
  <2>2. handed' \in Seq([got : Infos, sent : Infos])
      BY <1>4, <2>1, AppendProperties DEF TextEnds
  <2> QED
      BY <1>2, <1>4, <2>1, <2>2 DEF TextEnds
<1>5. CASE TextRefused(chunk)
    BY <1>2, <1>5, InfosProperties DEF TextRefused
<1> QED
    BY <1>1, <1>3, <1>4, <1>5

(* Every step keeps the types. *)
LEMMA TypeStep == TypeInv /\ [Next]_vars => TypeInv'
<1>1. ASSUME TypeInv, UNCHANGED vars PROVE TypeInv'
    BY <1>1 DEF TypeInv, TypeOK, vars
<1> QED
    BY <1>1, CommandTypes, TextTypes DEF Next

(* The initial state has the types. *)
LEMMA TypeInit == Init => TypeInv
<1> SUFFICES ASSUME Init PROVE TypeInv
    OBVIOUS
<1>1. 0 \in 0 .. MaxSize /\ NoSize \in Sizes
    BY BoundsAssumption DEF Sizes
<1>2. <<>> \in Seq(Pieces)
      /\ <<>> \in Seq([got : Infos, sent : Infos])
    BY EmptySeq
<1> QED
    BY <1>1, <1>2, InfosProperties DEF Init, TypeInv, TypeOK

(* The members of smtp_server_protocol_class keep their types, however the *)
(* commands are ordered and the text is cut.                               *)
THEOREM TypeCorrect == Spec => []TypeOK
<1>1. TypeInv => TypeOK
    BY DEF TypeInv
<1> QED
    BY <1>1, TypeInit, TypeStep, PTL DEF Spec

----------------------------------------------------------------------------
(* The mail that is handed on, when the peer sends RSET between two mails. *)

(* There is no mail before the first. *)
LEMMA MailInit == Init => MailInv
BY DEF Init, MailInv, CleanIsEmpty, CommandsAsSent, TextAsSent, SizeKept, HandedAsSent, InMail, Empty

(* MAIL, after RSET, begins with nothing of an earlier mail. *)
LEMMA MailStep ==
  ASSUME PeerResets, TypeInv, MailInv,
         NEW from \in Senders, NEW declared \in Sizes, Mail(from, declared)
  PROVE  MailInv'
<1>1. smtp_info = Empty
    BY DEF MailInv, CleanIsEmpty, Mail
<1>2. smtp_info' = envelope' /\ envelope'.session_data = <<>>
    BY <1>1 DEF Mail, Empty
<1>3. SizeKept'
    BY DEF Mail, SizeKept
<1> QED
    BY <1>2, <1>3 DEF MailInv, Mail, Reply, CleanIsEmpty, CommandsAsSent, TextAsSent,
                     HandedAsSent

(* RCPT adds the same recipient on both sides. *)
LEMMA RcptStep ==
  ASSUME TypeInv, MailInv, NEW to \in Recipients, Rcpt(to)
  PROVE  MailInv'
<1>1. smtp_info = envelope /\ envelope.session_data = <<>>
    BY DEF MailInv, CommandsAsSent, Rcpt, Reply
<1>2. ~clean
    BY DEF MailInv, CleanIsEmpty, Rcpt, InMail, Empty
<1>3. smtp_info' = envelope' /\ envelope'.session_data = <<>>
    BY <1>1 DEF Rcpt, TypeInv, TypeOK, Infos
<1> QED
    BY <1>2, <1>3 DEF MailInv, Rcpt, Reply, CleanIsEmpty, CommandsAsSent, TextAsSent,
                     SizeKept, HandedAsSent

(* DATA: the whole text and its end are on the wire. *)
LEMMA DataStep ==
  ASSUME TypeInv, MailInv, NEW text \in Texts, Data(text)
  PROVE  MailInv'
<1>1. smtp_info = envelope /\ envelope.session_data = <<>> /\ InMail
    BY DEF MailInv, CommandsAsSent, Data, Reply
<1>2. ~clean
    BY <1>1 DEF MailInv, CleanIsEmpty, InMail, Empty
<1>3. smtp_info'.session_data \o wire' = Terminated(text)
    BY <1>1, TerminatedProperties, ConcatEmptySeq DEF Data
<1>4. /\ envelope'.session_data = text
      /\ envelope'.session_command_mail_from = envelope.session_command_mail_from
      /\ envelope'.session_command_rcpt_to = envelope.session_command_rcpt_to
    BY DEF Data, TypeInv, TypeOK, Infos
<1>5. TextAsSent'
    BY <1>1, <1>3, <1>4 DEF TextAsSent, InMail, Data
<1> QED
    BY <1>2, <1>5 DEF MailInv, Data, Reply, CleanIsEmpty, CommandsAsSent, ReadsCommand,
                     SizeKept, HandedAsSent

(* RSET, MAIL without an address, a command without effect on a mail, and  *)
(* QUIT.                                                                   *)
LEMMA OtherStep ==
  ASSUME TypeInv, MailInv, Rset \/ MailRefused \/ OtherCommand \/ Quit
  PROVE  MailInv'
<1>1. CASE Rset
    BY <1>1 DEF MailInv, Rset, Reply, CleanIsEmpty, CommandsAsSent, TextAsSent, SizeKept,
                HandedAsSent, InMail, Empty
<1>2. CASE OtherCommand
    BY <1>2 DEF MailInv, OtherCommand, Reply, ReadsCommand, CleanIsEmpty, CommandsAsSent,
                TextAsSent, SizeKept, HandedAsSent, InMail
<1>3. CASE Quit
    BY <1>3 DEF MailInv, Quit, Reply, ReadsCommand, CleanIsEmpty, CommandsAsSent,
                TextAsSent, SizeKept, HandedAsSent, InMail
<1>4. CASE MailRefused
  <2>1. CleanIsEmpty'
      BY <1>4 DEF MailInv, MailRefused, CleanIsEmpty, Empty
  <2> QED
      BY <1>4, <2>1 DEF MailInv, MailRefused, Reply, CommandsAsSent, TextAsSent, SizeKept,
                        HandedAsSent, InMail
<1> QED
    BY <1>1, <1>2, <1>3, <1>4

(* The text that the last chunk completes is the one the peer sent. *)
LEMMA WholeIsSent ==
  ASSUME TypeInv, MailInv, smtp_session_status = "DATA", NEW chunk \in Chunks, EndsMail(chunk)
  PROVE  WholeText(chunk) = envelope.session_data
<1> DEFINE rest == SubSeq(wire, Len(chunk) + 1, Len(wire))
<1>1. chunk \in Seq(Pieces) /\ rest \in Seq(Pieces) /\ wire = chunk \o rest
    BY ChunkCut
<1>2. smtp_info.session_data \in Seq(Pieces)
    BY InfosProperties DEF TypeInv, TypeOK
<1>3. /\ envelope.session_data \in Texts
      /\ smtp_info.session_data \o wire = Terminated(envelope.session_data)
    BY DEF MailInv, TextAsSent
<1> HIDE DEF rest
<1> QED
    BY <1>1, <1>2, <1>3, EndIsLast DEF EndsMail, WholeText

(* A chunk moves from the wire to the text that was read; the last one     *)
(* hands the mail on or is refused.                                        *)
LEMMA TextStep ==
  ASSUME TypeInv, MailInv, Text
  PROVE  MailInv'
<1>1. PICK chunk \in Chunks :
        /\ TextPart(chunk) \/ TextEnds(chunk) \/ TextRefused(chunk)
        /\ wire' = SubSeq(wire, Len(chunk) + 1, Len(wire))
    BY DEF Text
<1>2. /\ chunk \in Seq(Pieces) /\ wire' \in Seq(Pieces)
      /\ wire = chunk \o wire'
    BY <1>1, ChunkCut
<1>3. /\ smtp_info \in Infos /\ envelope \in Infos
      /\ smtp_info.session_data \in Seq(Pieces)
    BY InfosProperties DEF TypeInv, TypeOK
<1>4. /\ InMail /\ ~clean
      /\ envelope.session_data \in Texts
      /\ smtp_info.session_command_mail_from = envelope.session_command_mail_from
      /\ smtp_info.session_command_rcpt_to = envelope.session_command_rcpt_to
      /\ smtp_info.session_data \o (chunk \o wire') = Terminated(envelope.session_data)
  <2>1. smtp_session_status = "DATA"
      BY <1>1 DEF TextPart, TextEnds, TextRefused
  <2>2. InMail => ~clean
      BY DEF MailInv, CleanIsEmpty, InMail, Empty
  <2> QED
      BY <1>2, <2>1, <2>2 DEF MailInv, TextAsSent
<1>5. CASE TextPart(chunk)
  <2>1. smtp_info'.session_data = smtp_info.session_data \o chunk
      BY <1>3, <1>5 DEF TextPart, Infos
  <2>2. smtp_info'.session_data \o wire' = Terminated(envelope.session_data)
    <3>1. \A s, t, u \in Seq(Pieces) : (s \o t) \o u = s \o (t \o u)
        BY ConcatAssociative
    <3>2. (smtp_info.session_data \o chunk) \o wire'
            = smtp_info.session_data \o (chunk \o wire')
        BY <1>2, <1>3, <3>1, Zenon
    <3> QED
        BY <1>4, <2>1, <3>2
  <2>3. TextAsSent'
      BY <1>3, <1>4, <1>5, <2>2 DEF TextPart, TextAsSent, InMail, Infos
  <2> QED
      BY <1>4, <1>5, <2>3 DEF MailInv, TextPart, CleanIsEmpty, CommandsAsSent,
                             ReadsCommand, SizeKept, HandedAsSent
<1>6. CASE TextEnds(chunk)
  <2>1. WholeText(chunk) = envelope.session_data
      BY <1>6, WholeIsSent DEF TextEnds
  <2> DEFINE entry == [got |-> smtp_info', sent |-> envelope]
  <2>2. PICK header \in {<<>>, <<IpHeader>>} :
          smtp_info' = [smtp_info EXCEPT !.session_data = header \o envelope.session_data]
      BY <1>6, <2>1 DEF TextEnds
  <2>3. \/ smtp_info' = envelope
        \/ smtp_info' = [envelope EXCEPT !.session_data = <<IpHeader>> \o @]
    <3>1. smtp_info' = [envelope EXCEPT !.session_data = header \o envelope.session_data]
        BY <1>3, <1>4, <2>2 DEF Infos
    <3>2. <<>> \o envelope.session_data = envelope.session_data
        BY <1>4, TerminatedProperties, ConcatEmptySeq
    <3>3. CASE header = <<>>
        BY <1>3, <3>1, <3>2, <3>3 DEF Infos
    <3>4. CASE header = <<IpHeader>>
        BY <3>1, <3>4
    <3> QED
        BY <3>3, <3>4
  <2>5. /\ Len(handed) \in Nat /\ Len(handed') = Len(handed) + 1
        /\ \A i \in 1 .. Len(handed) : handed'[i] = handed[i]
        /\ handed'[Len(handed) + 1] = entry
    <3>1. handed' = Append(handed, entry)
        BY <1>6 DEF TextEnds
    <3>2. TypeInv'
        BY TextTypes
    <3>3. /\ handed \in Seq([got : Infos, sent : Infos])
          /\ entry \in [got : Infos, sent : Infos]
        BY <3>2 DEF TypeInv, TypeOK
    <3> QED
        BY <3>1, <3>3, AppendProperties, LenProperties
  <2> HIDE DEF entry
  <2>6. \A i \in 1 .. Len(handed') : i \in 1 .. Len(handed) \/ i = Len(handed) + 1
      BY <2>5
  <2>7. HandedAsSent'
    <3>1. entry.got = smtp_info' /\ entry.sent = envelope
        BY DEF entry
    <3> QED
        BY <2>3, <2>5, <2>6, <3>1 DEF MailInv, HandedAsSent
  <2> QED
      BY <1>4, <1>6, <2>7 DEF MailInv, TextEnds, CleanIsEmpty, CommandsAsSent,
                                   TextAsSent, SizeKept, InMail, Empty
<1>7. CASE TextRefused(chunk)
    BY <1>4, <1>7 DEF MailInv, TextRefused, CleanIsEmpty, CommandsAsSent, TextAsSent,
                     SizeKept, HandedAsSent, InMail, Empty
<1> QED
    BY <1>1, <1>5, <1>6, <1>7

(* Every step of a session whose peer resets keeps what is known of a mail. *)
LEMMA MailNext ==
  ASSUME PeerResets
  PROVE  TypeInv /\ MailInv /\ [Next]_vars => MailInv'
<1>1. ASSUME MailInv, UNCHANGED vars PROVE MailInv'
    BY <1>1 DEF MailInv, CleanIsEmpty, CommandsAsSent, ReadsCommand, InMail, TextAsSent,
                SizeKept, HandedAsSent, vars
<1> QED
    BY <1>1, MailStep, RcptStep, DataStep, OtherStep, TextStep DEF Next

(* What handle_protocol_read passes on is the mail of this transaction:    *)
(* its sender, its recipients in order and its whole text, however TCP cut *)
(* the text into the chunks of read_raw_data.                              *)
THEOREM MailHandedAsSent ==
  ASSUME PeerResets
  PROVE  Spec => []HandedAsSent
<1>1. MailInv => HandedAsSent
    BY DEF MailInv
<1> QED
    BY <1>1, TypeInit, TypeStep, MailInit, MailNext, PTL DEF Spec

(* The comparison before command_data_end: the size that decides whether a *)
(* mail is handed on or refused is the one of its own MAIL, and the text   *)
(* it is compared with is the whole of what the peer sent.                 *)
THEOREM SizeHeld ==
  ASSUME PeerResets
  PROVE  Spec => SizeDecides
<1> DEFINE Decides ==
             /\ handed' # handed => size \in {NoSize, 0, Len(envelope.session_data)}
             /\ smtp_session_status = "DATA" /\ smtp_session_status' = "COMMAND" =>
                  size \notin {0, Len(envelope.session_data)}
<1>1. ASSUME TypeInv, MailInv, [Next]_vars PROVE [Decides]_vars
  <2>1. ASSUME NEW chunk \in Chunks, TextEnds(chunk) PROVE Decides
    <3>1. session_data_length \in {0, Len(envelope.session_data)}
        BY <1>1, <2>1, WholeIsSent DEF TextEnds, LengthOK
    <3> QED
        BY <1>1, <2>1, <3>1 DEF MailInv, SizeKept, TextEnds
  <2>2. ASSUME NEW chunk \in Chunks, TextRefused(chunk) PROVE Decides
    <3>1. session_data_length \notin {0, Len(envelope.session_data)}
        BY <1>1, <2>2, WholeIsSent DEF TextRefused, LengthOK
    <3>2. size = NoSize => size \notin {0, Len(envelope.session_data)}
      <4>1. envelope.session_data \in Seq(Pieces)
          BY <1>1, InfosProperties DEF TypeInv, TypeOK
      <4> QED
          BY <4>1, LenProperties DEF NoSize
    <3> QED
        BY <1>1, <2>2, <3>1, <3>2 DEF MailInv, SizeKept, TextRefused
  <2>3. ASSUME NEW chunk \in Chunks, TextPart(chunk) PROVE Decides
      BY <2>3 DEF TextPart
  <2>4. CASE Text
      BY <2>1, <2>2, <2>3, <2>4 DEF Text
  <2>5. ASSUME \/ \E from \in Senders, declared \in Sizes : Mail(from, declared)
               \/ \E to \in Recipients : Rcpt(to)
               \/ \E text \in Texts : Data(text)
               \/ Rset \/ MailRefused \/ OtherCommand \/ Quit
        PROVE  Decides
      BY <2>5 DEF Mail, Rcpt, Data, Rset, MailRefused, OtherCommand, Quit, Reply, ReadsCommand
  <2> QED
      BY <1>1, <2>4, <2>5 DEF Next
<1> QED
    BY <1>1, TypeInit, TypeStep, MailInit, MailNext, PTL DEF Spec, SizeDecides

----------------------------------------------------------------------------
(* The end of a text, when TCP does not cut it in two. *)

(* Every step that leaves the server in DATA leaves the end on the wire. *)
LEMMA EndStep ==
  ASSUME WholeTerminator, <<>> \notin Texts
  PROVE  TypeInv /\ EndOnWire /\ [Next]_vars => EndOnWire'
<1> SUFFICES ASSUME TypeInv, EndOnWire, [Next]_vars PROVE EndOnWire'
    OBVIOUS
<1>1. ASSUME NEW text \in Texts, Data(text) PROVE EndOnWire'
  <2>1. text # <<>> /\ wire' = Terminated(text)
      BY <1>1 DEF Data
  <2>2. /\ Terminated(text) \in Seq(Pieces) /\ Len(text) \in Nat
        /\ Len(Terminated(text)) = Len(text) + 2
        /\ Terminated(text)[Len(text) + 1] = "CRLF."
        /\ Terminated(text)[Len(text) + 2] = "CRLF"
      BY <2>1, TerminatedProperties
  <2>3. Len(text) + 2 >= 2 /\ Len(text) + 2 - 1 = Len(text) + 1
      BY <2>2
  <2> QED
      BY <2>1, <2>2, <2>3, EndsWithEnd DEF EndOnWire
<1>2. CASE Text
  <2>1. PICK chunk \in Chunks :
          /\ TextPart(chunk) \/ TextEnds(chunk) \/ TextRefused(chunk)
          /\ wire' = SubSeq(wire, Len(chunk) + 1, Len(wire))
      BY <1>2 DEF Text
  <2>2. CASE TextPart(chunk)
    <3>1. /\ chunk \in Seq(Pieces) /\ Len(chunk) \in Nat \ {0}
          /\ wire' \in Seq(Pieces) /\ Len(wire') \in Nat
          /\ Len(wire) = Len(chunk) + Len(wire')
          /\ \A i \in 1 .. Len(wire') : wire'[i] = wire[Len(chunk) + i]
          /\ wire = chunk \o wire'
          /\ Len(wire') # 1
        BY <2>1, ChunkCut, LenProperties
    <3>2. wire[Len(wire) - 1] = "CRLF." /\ wire[Len(wire)] = "CRLF"
        BY <2>2, EndsWithEnd DEF EndOnWire, TextPart, TypeInv
    <3>3. Len(wire') # 0
      <4> SUFFICES ASSUME Len(wire') = 0 PROVE FALSE
          OBVIOUS
      <4>1. wire' = <<>>
          BY <3>1, EmptySeq
      <4>2. chunk = wire
          BY <3>1, <4>1, ConcatEmptySeq
      <4> QED
          BY <2>2, <4>2 DEF TextPart, EndsMail, EndOnWire
    <3>4. Len(wire') >= 2
      <4>1. \A n \in Nat : n # 0 /\ n # 1 => n >= 2
          OBVIOUS
      <4> QED
          BY <3>1, <3>3, <4>1
    <3>5. /\ wire'[Len(wire') - 1] = "CRLF." /\ wire'[Len(wire')] = "CRLF"
      <4>1. /\ Len(wire') - 1 \in 1 .. Len(wire') /\ Len(wire') \in 1 .. Len(wire')
            /\ Len(chunk) + (Len(wire') - 1) = Len(wire) - 1
          BY <3>1, <3>4
      <4> QED
          BY <3>1, <3>2, <4>1
    <3> QED
        BY <3>1, <3>4, <3>5, EndsWithEnd DEF EndOnWire
  <2>3. CASE TextEnds(chunk) \/ TextRefused(chunk)
      BY <2>3 DEF TextEnds, TextRefused, EndOnWire
  <2> QED
      BY <2>1, <2>2, <2>3
<1>3. ASSUME \/ \E from \in Senders, declared \in Sizes : Mail(from, declared)
             \/ \E to \in Recipients : Rcpt(to)
             \/ Rset \/ MailRefused \/ OtherCommand \/ Quit
      PROVE  EndOnWire'
    BY <1>3 DEF Mail, Rcpt, Rset, MailRefused, OtherCommand, Quit, Reply, EndOnWire
<1>4. CASE UNCHANGED vars
    BY <1>4 DEF vars, EndOnWire
<1> QED
    BY <1>1, <1>2, <1>3, <1>4 DEF Next

(* "354 End data with <CR><LF>.<CR><LF>": py_endswith looks at one chunk,  *)
(* and finds the end of every text that is not empty as long as the end    *)
(* arrives in one chunk; the run that cuts it in two shows the mail stuck. *)
THEOREM EndFound ==
  ASSUME WholeTerminator, <<>> \notin Texts
  PROVE  Spec => []EndDetected
<1>1. Init => EndOnWire
    BY DEF Init, EndOnWire
<1>2. TypeInv /\ EndOnWire => EndDetected
  <2> SUFFICES ASSUME TypeInv, EndOnWire, smtp_session_status = "DATA"
               PROVE  wire # <<>>
      BY DEF EndDetected
  <2>1. Len(wire) >= 2
      BY EndsWithEnd DEF EndOnWire, TypeInv
  <2> QED
      BY <2>1, EmptySeq
<1> QED
    BY <1>1, <1>2, TypeInit, TypeStep, EndStep, PTL DEF Spec
=============================================================================

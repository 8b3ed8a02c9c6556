------------------------------ MODULE TextLaws ------------------------------
(***************************************************************************)
(* What the functions of PySlice, PyPieces and Utf must do for a text,     *)
(* whatever its characters.  TLC looks at every short text (PyText), and   *)
(* TextProofs proves the laws for every text.                              *)
(***************************************************************************)
EXTENDS PyPieces, Utf

(* The places of a text at which the slice from start to end has sub. *)
Places(s, sub, start, end) ==
  LET part == Slice(s, start, end)
      from == StartIndex(start, Len(s))
  IN {from + i : i \in {k \in 0..(Len(part) - Len(sub)) : OccursAt(part, sub, k)}}

(* find returns the first place of the slice that holds sub, what rfind    *)
(* returns lies in the slice and is the last place when the slice goes to  *)
(* the end of the text, endswith and startswith say how the slice ends and *)
(* begins (pystring_function.cpp, 47-144 and 661-722).                     *)
SearchLaws(s, sub, start, end) ==
  LET part == Slice(s, start, end)
      from == StartIndex(start, Len(s))
      found == Places(s, sub, start, end)
  IN from <= EndIndex(end, Len(s)) =>
       /\ Find(s, sub, start, end) = IF found = {} THEN -1 ELSE Min(found)
       /\ Rfind(s, sub, start, end) \in found \cup {-1}
       /\ (end >= Len(s) /\ found # {}) => Rfind(s, sub, start, end) = Max(found)
       /\ EndsWith(s, sub, start, end) <=> from + Len(part) - Len(sub) \in found
       /\ Len(sub) <= Len(part) => (StartsWith(s, sub, start, end) <=> from \in found)

(* partition cuts a text at the first place of a separator and rpartition  *)
(* at the last: the parts put together are the text, and the separator is  *)
(* not in the part before it, or after it (pystring_function.cpp, 361-402).*)
PartitionLaws(s, sep) ==
  LET p == Partition(s, sep)
      q == Rpartition(s, sep)
  IN /\ p[1] \o p[2] \o p[3] = s /\ q[1] \o q[2] \o q[3] = s
     /\ p[2] \in {<<>>, sep} /\ p[2] = q[2]
     /\ sep # <<>> => FindFrom(p[1], sep, 0) = -1 /\ FindFrom(q[3], sep, 0) = -1

(* A split cuts at the separators from the front and nowhere else: the     *)
(* pieces joined are the text, no piece but the last has the separator in  *)
(* it, and the last only when maxsplit cuts were made                      *)
(* (pystring_function.cpp, 221-256 and 340-357).                           *)
PieceLaws(s, sep, maxsplit) ==
  LET pieces == SplitAt(s, sep, maxsplit)
      last == Len(pieces)
  IN sep # <<>> =>
       /\ last >= 1 /\ Join(sep, pieces) = s
       /\ \A i \in 1..(last - 1) : FindFrom(pieces[i], sep, 0) = -1
       /\ maxsplit >= 0 => last <= maxsplit + 1
       /\ last # maxsplit + 1 => FindFrom(pieces[last], sep, 0) = -1

IsStripped(c, chars) == IF chars = <<>> THEN IsSpaceCode(c) ELSE c \in Range(chars)

(* A strip takes what it is to take from both ends and nothing else: what  *)
(* it returns does not begin or end with it, a second strip changes        *)
(* nothing, everything cut off was to be stripped, and lstrip and rstrip   *)
(* make a strip, unless nothing is left, which lstrip keeps                *)
(* (pystring_function.cpp, 405-531).                                       *)
StripLaws(s, chars) ==
  LET trimmed == Strip(s, chars)
  IN /\ trimmed # <<>> => /\ ~IsStripped(trimmed[1], chars)
                          /\ ~IsStripped(trimmed[Len(trimmed)], chars)
     /\ Strip(trimmed, chars) = trimmed
     /\ \A i \in DOMAIN s : i - 1 \in StripStart(s, chars)..(StripEnd(s, chars) - 1)
                              \/ IsStripped(s[i], chars)
     /\ Rstrip(Lstrip(s, chars), chars) = trimmed
     /\ trimmed # <<>> => Lstrip(Rstrip(s, chars), chars) = trimmed

HasLetter(s) == HasSome(s, IsAlphaCode)

(* The changes of case and the tests of it say the same: a text is a title *)
(* when title leaves it alone, lower when lower does, and upper when upper *)
(* does (pystring_function.cpp, 587-641 and 772-1049).                     *)
CaseLaws(s) ==
  /\ Istitle(s) <=> (HasLetter(s) /\ Title(s) = s)
  /\ Islower(s) <=> (HasLetter(s) /\ Lower(s) = s)
  /\ Isupper(s) <=> (HasLetter(s) /\ Upper(s) = s)
  /\ Title(Lower(s)) = Title(s) /\ Title(Title(s)) = Title(s)
  /\ Isalpha(s) => Title(s) = Capitalize(s)
  /\ Swapcase(Swapcase(s)) = s /\ Lower(Swapcase(s)) = Lower(s)
  /\ Isalnum(s) <=> (s # <<>> /\ \A i \in DOMAIN s : Isalpha(<<s[i]>>) \/ Isdigit(<<s[i]>>))

(* Padding makes a text exactly as wide as asked and keeps it: on the      *)
(* left, on the right, or in the middle with margins that differ by one at *)
(* most, and zfill puts the zeros behind a sign (pystring_function.cpp,    *)
(* 645-657 and 989-1069).                                                  *)
PadLaws(s, width, fillchar) ==
  LET wide == Max({width, Len(s)})
      left == Ljust(s, width, fillchar)
      right == Rjust(s, width, fillchar)
      middle == Center(s, width, fillchar)
      zeros == Zfill(s, width)
  IN /\ Len(left) = wide /\ Take(left, Len(s)) = s
     /\ Len(right) = wide /\ Drop(right, wide - Len(s)) = s
     /\ Len(middle) = wide
     /\ \E k \in 0..(wide - Len(s)) :
          /\ SubSeq(middle, k + 1, k + Len(s)) = s
          /\ wide - Len(s) - 2 * k \in {-1, 0, 1}
          /\ \A i \in DOMAIN middle : i \in (k + 1)..(k + Len(s)) \/ middle[i] = fillchar
     /\ Len(zeros) = wide
     /\ \A i \in 1..Len(s) :
          IF i = 1 /\ s[1] \in {PLUS, MINUS} THEN zeros[1] = s[1]
          ELSE zeros[wide - Len(s) + i] = s[i]

(* A number written is read back as itself, whatever follows it but a      *)
(* digit, and it is written with a sign only when it is negative and       *)
(* without zeros in front (data_conv.h, 14-47; data_conv.cpp, 134-166).    *)
NumberLaws(n, rest) ==
  LET written == Long64ToString(n)
      digits == IF n < 0 THEN Tail(written) ELSE written
  IN /\ rest = <<>> \/ ~IsDigitCode(rest[1]) => ToLong64(written \o rest) = n
     /\ n < 0 => written[1] = MINUS
     /\ Isdigit(digits)
     /\ digits[1] = ZERO => digits = <<ZERO>>

(* A character that was written is read back as itself, whatever follows   *)
(* it, with every unit that was written, from UTF-8 and from UTF-16        *)
(* (ConvertUTF.c, 50-135 and 335-514).                                     *)
WrittenIsRead(ch, rest) ==
  Legal(ch) => /\ ReadUtf8(WriteUtf8(ch) \o rest) = <<ch, Len(WriteUtf8(ch))>>
               /\ ReadUtf16(WriteUtf16(ch) \o rest) = <<ch, Len(WriteUtf16(ch))>>

(* What is read is what would be written for it, so no character has two   *)
(* forms.  UTF-8 is excepted where ED or F4 is followed by a byte under    *)
(* 80, which isLegalUTF8 takes (ConvertUTF.c, 102-135 and 297-343).        *)
Utf8ReadIsWritten(bytes) ==
  LET r == ReadUtf8(bytes)
      loose == Len(bytes) > 1 /\ bytes[1] \in {237, 244} /\ bytes[2] < 128
  IN r[1] # BAD /\ ~loose => Legal(r[1]) /\ WriteUtf8(r[1]) = Take(bytes, r[2])
Utf16ReadIsWritten(units) ==
  LET r == ReadUtf16(units)
  IN r[1] # BAD => Legal(r[1]) /\ WriteUtf16(r[1]) = Take(units, r[2])
=============================================================================

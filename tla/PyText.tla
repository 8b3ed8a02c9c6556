------------------------------- MODULE PyText -------------------------------
(***************************************************************************)
(* A text object of the string library (BASE_STRING_CLASS_EX, the base of  *)
(* pystring_ext and pystring_utf32_class) while its owner edits it, and    *)
(* what the functions must agree on for every text it can hold: the laws   *)
(* of TextLaws and more.  An action stands for the overloads of one member *)
(* function: they differ in how the other text is passed.                  *)
(***************************************************************************)
EXTENDS PyString, TextLaws

CONSTANT Inputs   \* what the object is used for: its kind, characters, longest text and edits

ASSUME InputsAssumption ==
  \A input \in Inputs :
    /\ input.kind \in {"letters", "lines", "words", "cases", "digits", "utf8", "utf16", "utf32"}
    /\ input.alphabet \subseteq Nat /\ input.max \in Nat /\ input.edited \in BOOLEAN

VARIABLES input, text

vars == <<input, text>>

Texts(n) == UNION {[1..k -> input.alphabet] : k \in 0..n}

TypeOK == input \in Inputs /\ text \in Seq(input.alphabet) /\ Len(text) <= input.max

Init == input \in Inputs /\ text = <<>>

----------------------------------------------------------------------------
(* The edits. *)

(* The bounds of an input: its characters and its longest text. *)
Set(new) ==
  /\ Len(new) <= input.max /\ Range(new) \subseteq input.alphabet
  /\ text' = new
  /\ UNCHANGED input

push_back(c) == Set(text \o <<c>>)
pop_back == text # <<>> /\ Set(Take(text, Len(text) - 1))
clear == Set(<<>>)
resize(n, c) == Set(Take(text, Min({n, Len(text)})) \o Repeat(c, n - Len(text)))
append(str) == Set(text \o str)

(* operator+= of a std::string adds the object's own text instead. *)
append_string(str) == Set(text \o text)

assign(str) == Set(str)

(* The length passed on is the position. *)
assign_sub(str, subpos, sublen) == Set(Take(Drop(str, subpos), Min({subpos, Len(str) - subpos})))

insert(pos, str) == Set(Take(text, pos) \o str \o Drop(text, pos))
erase(pos, len) == Set(Take(text, pos) \o Drop(text, Min({pos + len, Len(text)})))
replace_at(pos, len, str) ==
  Set(Take(text, pos) \o str \o Drop(text, Min({pos + len, Len(text)})))

(* The search starts again from the front each time, so it does not end    *)
(* when new_str has old_str in it.                                         *)
RECURSIVE ReplaceAll(_, _, _)
ReplaceAll(s, old_str, new_str) ==
  LET i == FindFrom(s, old_str, 0)
  IN IF i = -1 THEN s
     ELSE ReplaceAll(Take(s, i) \o new_str \o Drop(s, i + Len(old_str)), old_str, new_str)

replace(old_str, new_str) ==
  /\ FindFrom(new_str, old_str, 0) = -1
  /\ Set(IF old_str = <<>> THEN text ELSE ReplaceAll(text, old_str, new_str))

tolower_modify == Set(Lower(text))
toupper_modify == Set(Upper(text))

(* A text that is only read is built up character by character. *)
Edit ==
  /\ input.edited
  /\ \/ pop_back
     \/ \E n \in 0..input.max, c \in input.alphabet : resize(n, c)
     \/ \E str \in Texts(1) : append(str) \/ append_string(str) \/ assign(str)
     \/ \E str \in Texts(2) : \E subpos \in 0..Len(str) : assign_sub(str, subpos, Len(str))
     \/ \E pos \in 0..Len(text), str \in Texts(1) : insert(pos, str)
     \/ \E pos \in 0..Len(text), len \in 0..1 : erase(pos, len)
     \/ \E pos \in 0..Len(text), len \in 0..1, str \in Texts(1) : replace_at(pos, len, str)
     \/ \E old_str, new_str \in Texts(1) : replace(old_str, new_str)
     \/ tolower_modify
     \/ toupper_modify

Next ==
  \/ \E c \in input.alphabet : push_back(c)
  \/ clear
  \/ Edit

Spec == Init /\ [][Next]_vars
----------------------------------------------------------------------------
(* What the functions must agree on. *)

Is(kinds) == input.kind \in kinds
Indices == (-Len(text) - 1)..(Len(text) + 1)

(* Searches see exactly the range they are given, and count counts what a  *)
(* split of the slice removes (pystring_function.cpp, 47-144 and 661-722). *)
SearchAgrees ==
  Is({"letters"}) =>
    \A sub \in Texts(2), start \in Indices, end \in Indices :
      /\ SearchLaws(text, sub, start, end)
      /\ StartIndex(start, Len(text)) <= EndIndex(end, Len(text)) /\ sub # <<>> =>
           Count(text, sub, start, end) = Len(Split(Slice(text, start, end), sub, -1)) - 1

(* Nothing is lost or made up when a text is cut and put together: joining *)
(* what split and rsplit return gives the text back, with at most maxsplit *)
(* cuts and as many from either end; partition and rpartition are the      *)
(* split at one place, and what is between two texts is left after two of  *)
(* them; replace is a split joined with the new text, and the object's own *)
(* replace does the same where new and old share no character; and the     *)
(* lines of a text, with their ends, are the text.                         *)
PiecesRejoin ==
  /\ Is({"letters"}) =>
       \A sep \in Texts(2) \ {<<>>}, n \in -1..3 :
         LET pieces == Split(text, sep, n)
             rpieces == Rsplit(text, sep, n)
         IN /\ PieceLaws(text, sep, n) /\ Join(sep, rpieces) = text
            /\ PartitionLaws(text, sep)
            /\ Len(pieces) = Len(rpieces)
            /\ n >= 0 => LET mirror == Split(StringReverse(text), StringReverse(sep), n)
                         IN \A i \in DOMAIN mirror :
                              rpieces[i] = StringReverse(mirror[Len(mirror) + 1 - i])
            /\ \A new \in Texts(2) : Replace(text, sep, new, n) = Join(new, pieces)
            /\ n = 1 => /\ Partition(text, sep) =
                             IF Len(pieces) = 1 THEN <<text, <<>>, <<>>>>
                             ELSE <<pieces[1], sep, pieces[2]>>
                        /\ Rpartition(text, sep) =
                             IF Len(pieces) = 1 THEN <<<<>>, <<>>, text>>
                             ELSE <<rpieces[1], sep, rpieces[2]>>
                        /\ \A last \in Texts(2) \ {<<>>} :
                             LET rest == Partition(text, sep)[3]
                             IN Between(text, sep, last) =
                                  IF Partition(rest, last)[2] = <<>> THEN <<>>
                                  ELSE Partition(rest, last)[1]
            /\ n < 0 => \A new \in Texts(1) \ {<<>>} :
                          Range(new) \cap Range(sep) = {} =>
                            ReplaceAll(text, sep, new) = Replace(text, sep, new, n)
  /\ Is({"lines"}) =>
       /\ Join(<<>>, Splitlines(text, TRUE)) = text
       /\ \A i \in DOMAIN Splitlines(text, FALSE) :
            Range(Splitlines(text, FALSE)[i]) \cap {CR, LF} = {}
       /\ Splitlines(text, FALSE) =
            Splitlines(Replace(Replace(text, <<CR, LF>>, <<LF>>, -1), <<CR>>, <<LF>>, -1), FALSE)

(* A strip takes blanks and nothing else, and a split at blanks takes all  *)
(* of them: the words of a text are the same after a strip, from either    *)
(* end, and with maxsplit the last piece holds the words left over.        *)
WordsKept ==
  Is({"words"}) =>
    LET words == Split(text, <<>>, -1)
        bare == Strip(text, <<>>)
    IN /\ \A i \in DOMAIN words : words[i] # <<>> /\ Blanks(words[i]) = {}
       /\ Join(<<>>, words) = SelectSeq(text, LAMBDA c : ~IsSpaceCode(c))
       /\ words = Split(bare, <<>>, -1)
       /\ Isspace(text) <=> words = <<>> /\ text # <<>>
       /\ \A n \in 0..3 :
            LET left == Split(text, <<>>, n)
                right == Rsplit(text, <<>>, n)
            IN /\ Len(left) = Min({n + 1, Len(words)}) /\ Len(right) = Len(left)
               /\ left # <<>> =>
                    /\ Take(left, Len(left) - 1) \o Split(left[Len(left)], <<>>, -1) = words
                    /\ Split(right[1], <<>>, -1) \o Tail(right) = words
       /\ \A chars \in Texts(2) : StripLaws(text, chars)

(* The changes of case and the tests of it say the same, title treats the  *)
(* words of a text one by one, and swapcase is a translation               *)
(* (pystring_function.cpp, 587-641, 772-1049 and 1075-1102).               *)
CaseAgrees ==
  Is({"cases"}) =>
    /\ CaseLaws(text)
    /\ \A i \in DOMAIN Split(text, <<ZERO>>, -1) :
         Split(Title(text), <<ZERO>>, -1)[i] = Title(Split(text, <<ZERO>>, -1)[i])
    /\ Swapcase(text) = Translate(text, <<65, 97>>, <<97, 65>>)

(* Padding makes a text exactly as wide as asked and keeps what it says:   *)
(* the text stays in the middle, on the left or on the right, zfill does   *)
(* not change the number read back, and an expanded text has its words in  *)
(* the columns of the tabs (pystring_function.cpp, 645-657, 725-767 and    *)
(* 989-1069).                                                              *)
WidthFilled ==
  /\ Is({"digits"}) =>
       \A width \in 0..(input.max + 2) :
         /\ PadLaws(text, width, BLANK)
         /\ ToLong64(Zfill(text, width)) = ToLong64(text)
         /\ StartsWith(Ljust(text, width, BLANK), text, 0, width + Len(text))
         /\ EndsWith(Rjust(text, width, BLANK), text, 0, width + Len(text))
         /\ Strip(Center(text, width, BLANK), <<>>) = text
  /\ Is({"lines"}) =>
       \A tabsize \in 0..3 :
         LET ExpandLine(line) ==
               LET cells == Split(line, <<TAB>>, -1)
                   Cell(i) == IF i = Len(cells) \/ tabsize = 0 THEN cells[i]
                              ELSE Ljust(cells[i], tabsize * ((Len(cells[i]) \div tabsize) + 1), BLANK)
               IN Join(<<>>, [i \in DOMAIN cells |-> Cell(i)])
             lines == Splitlines(text, TRUE)
         IN Expandtabs(text, tabsize) = Join(<<>>, [i \in DOMAIN lines |-> ExpandLine(lines[i])])

(* A number written is read back as itself, without zeros in front of it,  *)
(* whatever it was first read from; and format puts back, one by one or by *)
(* number, what was replaced by braces (data_conv.h, 14-47; data_conv.cpp, *)
(* 134-166; pystring_function.cpp, 1152-1192).                             *)
NumbersReadBack ==
  Is({"digits"}) =>
    LET written == Long64ToString(ToLong64(text))
        Holes(hole) == Replace(text, <<MINUS>>, hole, -1)
        args == Repeat(<<MINUS>>, Len(text))
    IN /\ \A rest \in Texts(1) : NumberLaws(ToLong64(text), rest)
       /\ Zfill(written, Len(text)) = text
            \/ ~Isdigit(Lstrip(text, <<MINUS>>)) \/ Count(text, <<MINUS>>, 0, Len(text)) > 1
            \/ ToLong64(text) = 0 \/ Len(written) > Len(text)
       /\ LBRACE \notin Range(text) =>
            /\ Format(Holes(<<LBRACE, RBRACE>>), args) = text
            /\ args # <<>> => Format(Holes(<<LBRACE, ZERO, RBRACE>>), args) = text

(* The three encodings say the same: what was converted converts back to   *)
(* itself up to the first NUL, the way over UTF-16 gives what the direct   *)
(* way gives, no legal text is refused, so the buffers are long enough,    *)
(* the characters are read as they were written, and UTF-16 becomes the    *)
(* UTF-8 of the same characters apart from control characters and byte     *)
(* order marks.  UTF-8 is excepted where ED or F4 is followed by a byte    *)
(* under 80, which isLegalUTF8 takes.                                      *)
UtfAgrees ==
  /\ text # <<>> /\ Is({"utf8"}) => Utf8ReadIsWritten(text)
  /\ text # <<>> /\ Is({"utf16"}) => Utf16ReadIsWritten(text)
  /\ Is({"utf32"}) => \A i, k \in DOMAIN text : WrittenIsRead(text[i], <<text[k]>>)
  /\ Is({"utf8"}) =>
       LET r == utf8_to_utf32(text)
           loose == \E i \in 1..(Len(text) - 1) : text[i] \in {237, 244} /\ text[i + 1] < 128
       IN r.ok /\ ~loose => /\ utf32_to_utf8(r.text) = [ok |-> TRUE, text |-> UntilNul(text)]
                            /\ utf16_to_utf32(utf8_to_utf16(text).text) = r
  /\ Is({"utf16"}) =>
       LET r == utf16_to_utf32(text)
           plain == \A i \in DOMAIN text : WriteFiltered(text[i]) = WriteUtf8(text[i])
       IN /\ r.ok <=> utf16_to_utf8(text).ok
          /\ r.ok => utf32_to_utf16(r.text) = [ok |-> TRUE, text |-> UntilNul(text)]
          /\ r.ok /\ plain => utf16_to_utf8(text) = utf32_to_utf8(r.text)
  /\ Is({"utf32"}) =>
       LET legal == \A i \in DOMAIN text : Legal(text[i])
           u8 == utf32_to_utf8(text)
           u16 == utf32_to_utf16(text)
       IN /\ u8.ok <=> legal
          /\ u16.ok <=> legal
          /\ legal => /\ utf8_to_utf32(u8.text) = [ok |-> TRUE, text |-> UntilNul(text)]
                      /\ utf8_to_utf16(u8.text) = u16
=============================================================================

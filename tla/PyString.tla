------------------------------ MODULE PyString ------------------------------
(***************************************************************************)
(* The functions of pystring_function.cpp that work through a text piece   *)
(* by piece.  Each loop of the code is a recursion on what is left of the  *)
(* text.                                                                   *)
(***************************************************************************)
EXTENDS PyPieces

LBRACE == 123
RBRACE == 125

(* The positions of the blanks of s, and of what is no blank. *)
Blanks(s) == {i \in Positions(s) : IsSpaceCode(s[i + 1])}
Words(s) == Kept(s, <<>>)

----------------------------------------------------------------------------
(* Splits and joins. *)

RECURSIVE SplitWhitespace(_, _)
SplitWhitespace(s, maxsplit) ==
  LET rest == Drop(s, Min(Words(s)))
      to == Min(Blanks(rest) \cup {Len(rest)})
  IN CASE Words(s) = {} -> <<>>
       [] Words(s) # {} /\ maxsplit <= 0 -> <<rest>>
       [] OTHER -> <<Take(rest, to)>> \o SplitWhitespace(Drop(rest, to), maxsplit - 1)

RECURSIVE RsplitWhitespace(_, _)
RsplitWhitespace(s, maxsplit) ==
  LET rest == Take(s, Max(Words(s)) + 1)
      from == Max({i + 1 : i \in Blanks(rest)} \cup {0})
  IN CASE Words(s) = {} -> <<>>
       [] Words(s) # {} /\ maxsplit <= 0 -> <<rest>>
       [] OTHER -> RsplitWhitespace(Take(rest, from), maxsplit - 1) \o <<Drop(rest, from)>>

RECURSIVE RsplitAt(_, _, _)
RsplitAt(s, sep, maxsplit) ==
  LET i == RfindFrom(s, sep, Len(s))
  IN IF maxsplit <= 0 \/ i = -1 THEN <<s>>
     ELSE RsplitAt(Take(s, i), sep, maxsplit - 1) \o <<Drop(s, i + Len(sep))>>

Split(s, sep, maxsplit) ==
  IF sep = <<>> THEN SplitWhitespace(s, Limit(s, maxsplit))
  ELSE SplitAt(s, sep, maxsplit)

Rsplit(s, sep, maxsplit) ==
  CASE maxsplit < 0 -> Split(s, sep, maxsplit)
    [] maxsplit >= 0 /\ sep = <<>> -> RsplitWhitespace(s, maxsplit)
    [] OTHER -> RsplitAt(s, sep, maxsplit)

(* Mutant: a carriage return and its line feed end two lines. *)
RECURSIVE SplitEachEnd(_, _)
SplitEachEnd(s, keepends) ==
  LET ends == {k \in DOMAIN s : s[k] \in {CR, LF}}
      i == Min(ends)
  IN CASE s = <<>> -> <<>>
       [] s # <<>> /\ ends = {} -> <<s>>
       [] OTHER -> <<Take(s, IF keepends THEN i ELSE i - 1)>>
                     \o SplitEachEnd(Drop(s, i), keepends)

RECURSIVE Splitlines(_, _)
Splitlines(s, keepends) ==
  LET ends == {k \in DOMAIN s : s[k] \in {CR, LF}}
      i == Min(ends)
      last == IF OccursAt(s, <<CR, LF>>, i - 1) THEN i + 1 ELSE i
  IN CASE s = <<>> -> <<>>
       [] s # <<>> /\ ends = {} -> <<s>>
       [] OTHER -> <<Take(s, IF keepends THEN last ELSE i - 1)>>
                     \o Splitlines(Drop(s, last), keepends)

----------------------------------------------------------------------------
(* Replacing and counting. *)

(* The search goes on behind what was put in; an empty old text is found   *)
(* before every character and at the end.  A negative count is no limit.   *)
RECURSIVE Replace(_, _, _, _)
Replace(s, old, new, count) ==
  LET i == Find(s, old, 0, Len(s))
      next == IF old = <<>> THEN 1 ELSE i + Len(old)
  IN CASE count = 0 \/ i < 0 -> s
       [] count # 0 /\ i >= 0 /\ s = <<>> -> new
       [] OTHER -> Take(s, i) \o new \o (IF old = <<>> THEN Take(s, 1) ELSE <<>>)
                     \o Replace(Drop(s, next), old, new, count - 1)

(* sub is not empty: with an empty one the loop of the code never ends. *)
RECURSIVE Count(_, _, _, _)
Count(s, sub, start, end) ==
  LET i == Find(s, sub, start, end)
  IN IF i < 0 THEN 0 ELSE 1 + Count(s, sub, i + Len(sub), end)

(* Tabs from column on become blanks; without a tab size they disappear. *)
RECURSIVE ExpandFrom(_, _, _)
ExpandFrom(s, tabsize, column) ==
  LET fill == IF tabsize > 0 THEN tabsize - (column % tabsize) ELSE 0
  IN CASE s = <<>> -> <<>>
       [] s # <<>> /\ Head(s) = TAB ->
            Repeat(BLANK, fill) \o ExpandFrom(Tail(s), tabsize, column + fill)
       [] OTHER ->
            <<Head(s)>> \o ExpandFrom(Tail(s), tabsize,
                                      IF Head(s) \in {CR, LF} THEN 0 ELSE column + 1)

Expandtabs(s, tabsize) == ExpandFrom(s, tabsize, 0)

----------------------------------------------------------------------------
(* Formats. *)

(* "{}" takes the next argument and "{n}" argument n; a brace that is not  *)
(* closed takes the rest.  The arguments are enough for it.                *)
RECURSIVE FormatFrom(_, _, _)
FormatFrom(s, args, next) ==
  LET close == Min({k \in 2..Len(s) : s[k] = RBRACE} \cup {Len(s) + 1})
      number == SubSeq(s, 2, close - 1)
      rest == Drop(s, close)
  IN CASE s = <<>> -> <<>>
       [] s # <<>> /\ Head(s) # LBRACE -> <<Head(s)>> \o FormatFrom(Tail(s), args, next)
       [] s # <<>> /\ Head(s) = LBRACE /\ number = <<>> ->
            args[next + 1] \o FormatFrom(rest, args, next + 1)
       [] OTHER -> args[ToLong64(number) + 1] \o FormatFrom(rest, args, next)

Format(s, args) == FormatFrom(s, args, 0)
=============================================================================

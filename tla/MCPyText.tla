------------------------------ MODULE MCPyText ------------------------------
EXTENDS PyText

(* Characters at the edges of every class the code tells apart. *)
MCInputs == {
  [kind |-> "letters", alphabet |-> {97, 98}, max |-> 6, edited |-> TRUE],
  [kind |-> "lines", alphabet |-> {TAB, LF, CR, 97}, max |-> 5, edited |-> FALSE],
  [kind |-> "words", alphabet |-> {TAB, BLANK, 97, 98}, max |-> 5, edited |-> FALSE],
  [kind |-> "cases", alphabet |-> {BLANK, ZERO, 65, 97}, max |-> 5, edited |-> TRUE],
  [kind |-> "digits", alphabet |-> {PLUS, MINUS, ZERO, 55, LBRACE, RBRACE}, max |-> 4, edited |-> FALSE],
  [kind |-> "utf8", alphabet |-> {0, 97, 127, 128, 143, 144, 159, 160, 191, 193, 194, 224, 237, 240, 244, 245},
                    max |-> 4, edited |-> FALSE],
  [kind |-> "utf16", alphabet |-> {0, 9, 31, 97, 127, 128, 2047, 2048, 55295, 55296, 56319, 56320, 57343,
                                   57344, 65279, 65533, 65534, 65535}, max |-> 3, edited |-> FALSE],
  [kind |-> "utf32", alphabet |-> {0, 97, 127, 128, 2047, 2048, 55295, 55296, 57343, 57344, 65535, 65536,
                                   1114111, 1114112}, max |-> 3, edited |-> FALSE]}
=============================================================================

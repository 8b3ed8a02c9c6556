SPECIFICATION Spec
CONSTANT Inputs <- MCInputs
INVARIANTS SearchAgrees PiecesRejoin WordsKept CaseAgrees WidthFilled NumbersReadBack UtfAgrees

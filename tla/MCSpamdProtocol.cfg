SPECIFICATION Spec
CONSTANTS
  Mails <- MCMails
  Marks <- MCMarks
  Garbage <- MCGarbage
INVARIANTS RelayedIsReply CompleteIsRead OnlySpamdsText
\* A scan ends.
CHECK_DEADLOCK FALSE

# sapcd in TLA+

sapcd is a filtering SMTP proxy: it accepts mails from a mail server, has each
one examined by spamd over TCP, and relays the result to the next SMTP server.
It is written in C++ on boost::asio: a pool of threads runs the handlers of
timers and socket operations, and each connection is an object kept alive by the
handlers that refer to it. This directory models the part of it that is hard to
test, the handlers of many connections in every order in which they can run,
together with the state they share, the text they read in chunks, and the string
library that text goes through.

    tlc -workers 2 -config MCProcLimit.cfg MCProcLimit     # a run
    tlapm ProcLimitProofs.tla                              # the proofs of a module

`PROJECT.json` lists the components, the runs, the hazards and, for every
definition, the lines of the source it stands for.

## The system

    SMTP peer --> async_tcp_server --> smtp_scanner_server_session
                                        |  smtp_server_protocol_class (commands, text)
                                        |  ip_list_filter, data_size_list_filter (shared)
                                        v
                                       async_spamd_client <--> spamd
                                        |  proc_limit (shared)
                                        v
                                       smtp_client_session --> next SMTP server

| Part | State it keeps | Operations | What makes it correct |
| --- | --- | --- | --- |
| `proc_limit` | an atomic counter, a mutex | `is_need_wait`, `DEC`, `INC` | never more holders than the limit, none lost |
| `async_tcp_client` | status, socket, two timers, time of the last action | `async_connect_server`, `async_recv`, `async_send`, `close_tcp_session`, five handlers | one continuation; a close is final and happens once; nothing stalls |
| `async_spamd_client` | wait status, wait timer, the reply so far | `auto_smart_send`, `handle_protocol_*` | the slot is given back once; the mail is relayed once; it ends |
| `async_tcp_session` | status, timer, time of the last action | `start`, `async_recv`, `async_send`, `close_tcp_session`, three handlers | as the client |
| `smtp_scanner_server_session` | `m_b_exit`, wait timer, the protocol | `handle_protocol_*`, `wait_send_reply` | one dialogue with the peer; the peer is held back while its mail waits |
| `smtp_server_protocol_class` | session status, declared size, `smtp_info` | one function per command, `read_raw_data` | the mail handed on is the one sent |
| `ip_list_filter`, `data_size_list_filter` | a list of recent values | `is_will_discard`, `push` | few repetitions pass |
| `async_tcp_server` | acceptor, thread pool | `async_accept`, `run`, `handle_accept` | every connection gets a session |
| `smtp_client_session`, `smtp_client_protocol_class` | step of the dialogue, the mail | `handle_protocol_*`, `send_cmd_*` | the mail reaches the next server, or the session closes |
| `spamd_report`, `spamd_request` | reply under construction | `parse_report`, `get_report` | a reply is complete exactly when all of it is there |
| `pystring_extend` | a text | strings as in Python, edits in place | the functions agree with each other, nothing is lost |
| `data_conv`, `ConvertUTF` | none | numbers, UTF-8, UTF-16, UTF-32 | what is converted converts back |
| `main`, `SAPCD_CONFIG` | options | parsing, start-up | - |

They interact by calls (session to protocol, to filters, to a new spamd client;
spamd client to a new relay), through three shared objects (`conf_spamd_limit`
and the two filters), and by one poll: a session's wait timer reads the spamd
client's `m_wait_status` until the client has its slot.

The hard behaviours are these. The connect, read, write and timer handlers of a
connection can each close it, and handlers that were already queued still run
afterwards. Timers do not tell expiry from cancellation. `proc_limit` is
decremented outside its mutex. The wait timer's handler of a session takes
another mutex than the rest of it. The filters are asked and updated in two
critical sections. TCP cuts texts and replies anywhere. spamd and the peers may
stall at any point. `PROJECT.json` lists each of these under "hazards", with the
property that watches it or a note that says why none does.

## Modules

| Module | What it is | Code |
| --- | --- | --- |
| `Semaphore` | abstract: a counting semaphore | what `proc_limit` promises |
| `ProcLimit` | lock, compare, INC and unlock as separate steps; DEC without the mutex | `proc_limit.cpp` |
| `ScanJob` | abstract: the life of a mail, new, waiting, scanning, finished | what the spamd clients promise |
| `AsyncTcpClient` | one outgoing connection as a record, an operator per method | `asio_async_tcp_client_template.hpp` |
| `SpamdClient` | the clients of several mails on `AsyncTcpClient`, and the slots | `async_smtp_scanner.cpp`, first half |
| `AsyncTcpSession` | one accepted connection as a record | `asio_async_tcp_server_template.hpp` |
| `Scanner` | several sessions on `AsyncTcpSession`, each handing mails to instances of `ScanJob` | `async_smtp_scanner.cpp`, second half |
| `SmtpServerProtocol` | one session's commands and the text in chunks | `smtp_protocol_class.hpp` |
| `ListFilter` | both filters and the sessions that use them | `ip_list_filter.cpp`, `data_size_list_filter.cpp` |
| `SmtpRelay` | one relay on `AsyncTcpClient` with its dialogue, and the next SMTP server | `async_smtp_scanner.cpp`, `smtp_protocol_class.hpp` |
| `SpamdProtocol` | one scan: request, spamd's reply in chunks, `parse_report` | `spamd_protocol.hpp` |
| `PySlice` | slices, searches, strips, case, padding; no recursion | `pystring_function.cpp` |
| `PyPieces` | splits at a separator, joins, whole numbers; recursive functions, so that they can be proved about | `pystring_function.cpp`, `data_conv.h`, `data_conv.cpp` |
| `PyString` | the other splits, lines, replacing, `format` | `pystring_function.cpp` |
| `Utf` | the six conversions | `ConvertUTF.c`, `data_conv.cpp` |
| `TextLaws` | what the functions of `PySlice` and `PyPieces` and the characters of `Utf` must do for every text | |
| `PyText` | a text object and its edits, and what the functions must agree on: `TextLaws` and more | `base_string_template.h` |
| `ProcLimitProofs`, `SpamdClientProofs`, `ListFilterProofs`, `SmtpServerProtocolProofs`, `SmtpRelayProofs`, `ScannerProofs`, `SpamdProtocolProofs`, `TextProofs` | proofs; each extends its component, `TextProofs` extends `TextLaws` | |
| `MC...` | instances for TLC | |

The composition goes through the abstract specifications. `ProcLimit` implements
`Semaphore`, which lets `SpamdClient` take `is_need_wait` as one step.
`SpamdClient` implements `ScanJob`, which lets `Scanner` compose its sessions with
jobs instead of with clients, connections and timers. `SpamdProtocol` gives the reason
for the choice `SpamdClient` has among the results of `parse_report`: it parses the text
itself, with the string functions of `PySlice` and `PyPieces`.

### How state and actions correspond to the code

Variables and fields have the names of the members they stand for, and actions
the names of the handlers. A handler of a connection holds `m_io_mutex` from its
first line to its last, so it is one action, with everything it calls: a read
handler that completes a reply relays the mail, closes the session, gives the
slot back and cancels the timers in one step. There are three exceptions.

- `async_start_connect` runs in the wait timer's handler, without the mutex. It
  stops once, between arming the connect timer and `async_connect` (state
  "starting", action `OpenSocket`). No second passes there, since it is two lines.
- `wait_send_reply` as a timer handler takes only `m_user_mutex`. It is two steps
  (`CheckExit`, `WaitOver`) and a close may come between.
- The filters and `proc_limit` are modelled at the grain of their own mutexes.

An asynchronous operation is "pending" until boost::asio completes it, then "ok"
or "error" until its handler runs; a timer is "armed", then "fired". Closing
turns what is pending into an error and fires the timers that are armed, but a
result that was already queued stays as it is. That is the source of the late
handlers. An operation started on a closed socket fails at once.

Bytes are left out of the connection modules: a read of spamd's reply is
incomplete, bad or complete, by choice, and the peer of a session sends a
command, a part of a mail or a mail, by choice. `SmtpServerProtocol` looks at text,
as a sequence of pieces. The end of a mail is two pieces, so that TCP can cut it.
`SmtpRelay` looks at the replies of the next server as sequences of tokens, the status
code, the space or dash after it, text and the end of the line, which is what
`is_command_line` and `from_revc_get_next_data` tell apart; a read returns any number
of the tokens in flight. Its server is external: it expects the commands in order,
accepts or refuses each, and may answer a connection and EHLO with several lines.
`smooth` remembers whether anything was refused, cut, lost or late.

In the modules about text a text is a sequence of character codes, and -1 is npos.
`SpamdProtocol` writes a word that is only compared as a whole ("Spam", "EX_OK") as one
code; numbers, blanks, line ends and the mail are character by character, because
lengths and the places of a cut depend on them. spamd is external there: it refuses a
request whose body is not as long as declared, otherwise answers with the body behind
marks of its own, its header lines in either order or without a length. `n_length` is not
initialised in the code, so every read chooses it.

`PyText` holds one text object and edits it. Its invariants say what the functions
must agree on for the text in it. Those that do not need the recursive operators of `PyString` are
operators of `TextLaws`, so that the same formula is checked on the short texts and proved
for all. The invariants compare find with a slice, split with join and partition, title with
istitle, zfill with the number read back, and one encoding with another. What Python's functions
do is the intention of the library, but where the code differs the model follows the
code. `Inputs` says what the object is used for: characters at the edges of the classes
the code tells apart, the longest text, and whether all the edits are tried.

## Runs

| Run | Instance | Shows |
| --- | --- | --- |
| `MCProcLimit` | 4 callers, 2 slots | no interleaving loses a slot or admits a third holder; a semaphore |
| `MCSpamdClient` | 2 mails and an oversize one, 1 slot, timeout 1 | slots exact, connections bounded, one continuation, one relay, closes final, jobs implemented, every client ends |
| `MCSpamdClientConnect` | 1 mail | **violated**: the connect timer does not end a connection attempt |
| `MCSpamdClientWait` | 2 mails, 1 slot | **violated**: nobody is discarded for waiting too long |
| `MCScanner` | 1 session, 3 mails and an oversize one, 1 slot | one dialogue; the peer is held back; no stall; QUIT ends the session; a closed session is let go |
| `MCScannerOversize` | 1 session, an oversize mail | **violated**: its peer is never answered |
| `MCSmtpServerProtocol` | 2 mails, 2 recipients, texts of up to 2 pieces | with RSET between mails and an uncut end, the mail handed on is the mail sent, in every way of cutting the text; without any of that, the size a mail's own MAIL declares is the one that decides about it |
| `MCSmtpServerProtocolSplit` | the end may be cut | **violated**: the end is then taken for text |
| `MCListFilter` | 2 sessions, 5 mails | at most one mail per session too many passes |
| `MCSmtpRelay` | a mail with or without a recipient | text is read as text, QUIT only for a mail that was taken, delivery when nothing is disturbed, one continuation, every relay ends |
| `MCSpamdProtocol` | 17 mails, 2 marks, 4 shapes of the reply, every cut | what is relayed is spamd's whole reply, or with no length at least its beginning; a complete reply is recognised, and `parse_report` closes on no part of one that spamd grants |
| `MCPyText` | 8 inputs, texts of up to 3 to 6 characters | the functions agree, the encodings convert back |

### Bounds, and why they are enough

- Two competing clients and one slot give every order of two holders: one waits,
  starts, closes and gives its slot back while the other polls. The oversize mail
  is the third kind of client. The safety part is proved for every number.
- In `MCScanner` sessions meet only in the slots, and a session whose peer hands in a mail,
  closes and leaves its clients behind is its own competitor: with four mails and one slot the
  session waits for a client of an earlier mail, and for one of an oversize mail, which
  holds no slot. Two sessions with a mail each, one of them oversize, hold the properties too
  (54,000 states), but add no order of events to a session.
- `m_timeouts = 1` and `conf_session_timeout = 1`: a session times out at
  `elapsed > 1`, so elapsed is 0, 1 or 2 (`MaxElapsed = 2`); the code only compares it with the
  timeout, so it is not counted beyond `MaxElapsed`.
- `MaxReports = 1`: incomplete reads are counted up to one. It bounds the count, not the reads: an
  incomplete read may follow at any time, each starts another and restarts the timer.
- In `MCListFilter` the address filter holds 3 entries and allows no duplicate, the
  size filter is off, as lists no longer than their duplicates are. Five mails fill the
  list and push out old entries.
- In `MCSmtpServerProtocol` two mails make what one leaves to the next visible,
  two recipients their order, and two pieces of text every cut of a text. A size is not given
  or 0, 1 or 2.
- `MCSmtpRelay` needs no bound on its server: the dialogue is finite. Relays share
  nothing, so one stands for all. `m_timeouts` is 2 and the default time is 1, with
  `MaxElapsed = 3`: as in the default configuration the session closes at the default time,
  before its own. With 1 and 2, as `--timouts` allows, the properties hold as well.
- In `MCSpamdProtocol` the mails are all texts of up to two of CR, LF and a letter, and
  four longer ones: with a blank line inside, with an end flag at both ends, with both in one,
  and one that looks like a header. Reads take any number of characters. The garbage in
  `n_length` is negative, zero, and the length of a short body with its end flag, which
  is the one that does harm.
- In `MCPyText` a text of six over two letters has every overlap of a text of two; five
  characters hold a blank at both ends, two words and a gap; four hold a sign, a zero
  and digits, or a whole UTF-8 sequence; a UTF-16 text of three has a pair and a unit on
  either side of it. Searches, splits and pads use every text of up to two, every index
  from one before the front to one past the end, and every width up to two over.

`m_timeouts` may be 0 for the code (`--timouts 0`). Then the connect timer can expire in
the "starting" state, close the session and give the slot back, and `async_connect`
opens the socket all the same: TLC finds `SpamdParallel` violated with
`m_timeouts = 0`. The runs and the theorems assume at least one second.

### Fairness

`run()` keeps threads in `io_service::run`, so a queued handler runs: weak fairness
of each handler. Timers expire and time passes: weak fairness of the clock's
actions. Nothing is assumed of spamd or of the SMTP peer, which may stall for ever
at any point; the timers must do the rest. `EveryClientEnds` needs two assumptions
more (`LiveSpec`). One is that the operating system gives up a connection attempt in the end,
because the connect timer does not: that is the finding of `MCSpamdClientConnect`, which runs
without it. `RelayEnds` needs it as well. The other (`ReplyEnds`) is that a reply which spamd goes
on sending ends: of the reads that complete again and again, one is the last. A spamd that stalls
is left to the timer, but one that sends a byte before each timeout, for ever, is not: every
incomplete read restarts the timer, and the client keeps its connection and its slot. Without
`ReplyEnds` TLC shows that behaviour.

### What the violated properties say

- `ConnectTimesOut`: `handle_connect_timer` does nothing when `m_socket.is_open()`,
  and `async_connect` opens the socket before it connects. An unanswered attempt
  lasts as long as the operating system lets it, with its slot.
- `LongWaitDiscarded`: `is_wait_send` returns on both branches before its test of
  the elapsed time, so `ASYNC_WAIT_TIMEOUT` is never returned.
- `OversizeAnswered`: an oversize mail is relayed but its client stays in
  `ASYNC_WAIT_SEND`; the session polls until its own timer closes it.
- `EndDetected`: `read_raw_data` looks for the end of a mail in the last chunk only.
  The same holds for a mail without text, whose end is `.CRLF` alone.

`HandedAsSent` holds because the peer of `MCSmtpServerProtocol` sends RSET between mails:
neither the end of a mail nor MAIL clears `smtp_info`, and without RSET the second mail of a
session is handed on with the text and the recipients of the first (with
`PeerResets = FALSE` TLC shows it). MAIL sets `session_data_length` only when it has a size, so a
mail without one is compared with the size of an earlier mail, after RSET too, and refused when it
differs; `SizeDecides` speaks of the mails that declare one. `size=0` takes the old size away. A
MAIL that is answered 501, `MAIL FROM:<>` among them, has emptied the sender before it is refused.

## Proofs

The theorems hold for every value of the constants: any number of callers, mails, slots, sessions
and recipients, any timeouts and texts. They assume what the modules assume of their constants.
Those assumptions say that sets are finite and bounds are natural numbers; four say more, and two
of them are about a width. `TimeoutsAssumption` (`AsyncTcpClient`) adds that `MaxElapsed`, where
time is no longer counted, is beyond `m_timeouts`, and `DefaultTimeoutAssumption` (`SmtpRelay`) that
it is beyond the default time too; which of the two times is the longer is left open, as
`--timouts` leaves it. `TextsAssumption` (`SmtpServerProtocol`): the peer doubles a dot at the start of a
line, as SMTP asks, so the end of a mail is not in its text. `SendersAssumption`: no sender is
written as the absence of one. `SizeAssumption`: a declared size fits the `int` it is read into; no
proof uses it. `LengthAssumption` (`SpamdProtocol`): the length of a reply's body
fits the `int` it is cast to; `main.cpp` computes the limit above which a mail is not scanned as an
`int`, and no proof uses the assumption. Where a theorem needs more it says so itself, and the last
column names it; no such hypothesis is about what the code does, and each is true in the passing
run.

| Theorem | Says | Needs |
| --- | --- | --- |
| `ProcLimitProofs!TypeCorrect`, `CountIsExact`, `LimitHolds` | the invariants of `MCProcLimit` | |
| `ProcLimitProofs!RefinesSemaphore` | `ProcLimit` implements `Semaphore` | |
| `SpamdClientProofs!TypeCorrect`, `SlotsAreExact`, `SpamdParallelHolds`, `RelayedOnceHolds`, `OneContinuationHolds` | the invariants of `MCSpamdClient` | `m_timeouts > 0` |
| `SpamdClientProofs!NoReopenHolds` | the action property of `MCSpamdClient` | `m_timeouts > 0` |
| `SpamdClientProofs!RefinesScanJob` | `SpamdClient` implements `ScanJob` | `m_timeouts > 0` |
| `ListFilterProofs!TypeCorrect`, `BoundHolds` | the lists never outgrow their sizes; at most one mail per session too many passes | |
| `SmtpServerProtocolProofs!TypeCorrect` | types of the server's side of the dialogue | |
| `SmtpServerProtocolProofs!MailHandedAsSent`, `SizeHeld` | `HandedAsSent`, `SizeDecides` | `PeerResets` |
| `SmtpServerProtocolProofs!EndFound` | `EndDetected` | `WholeTerminator`, no empty text |
| `SmtpRelayProofs!TypeCorrect`, `OneHandler`, `TextRead`, `QuitAfterMail` | `TypeOK`, `OneContinuation`, `TextReadAsText`, `QuitOnlyWhenTaken` | |
| `SmtpRelayProofs!SmoothRelay` | `SmoothDelivered` | `m_timeouts # 0` |
| `ScannerProofs!TypeCorrect`, `DialogueIsOne`, `BackPressure` | `TypeOK`, `OneDialogue`, `PeerHeldBack` | |
| `SpamdProtocolProofs!RelayedIsReplyHolds`, `CompleteIsReadHolds`, `OnlySpamdsTextHolds` | `RelayedIsReply`, `CompleteIsRead`, `OnlySpamdsText`, for any mail, any marks and any chunks | |
| `TextProofs!SearchIsExact`, `PartitionRejoins`, `StripIsExact`, `CaseIsConsistent`, `PadIsExact` | `SearchLaws`, `PartitionLaws`, `StripLaws`, `CaseLaws`, `PadLaws` for texts of any length | |
| `TextProofs!SplitRejoins`, `NumberIsReadBack` | `PieceLaws` for any text, separator and maxsplit, `NumberLaws` for any number | |
| `TextProofs!WrittenIsReadBack`, `ReadHasOneForm` | `WrittenIsRead`, `Utf8ReadIsWritten`, `Utf16ReadIsWritten` for every character and every text | |

**proc_limit.** `LimitRespected` is not inductive: when INC runs one must know that
the comparison still holds. The invariant adds that the callers in `is_need_wait`
are those that hold the mutex, which is at most one (`SectionLocked`,
`MutexExclusive`), and that at "inc" there is room (`RoomForInc`). Other callers'
DEC can only make more room, and nobody else can INC.

**SpamdClient.** `SlotsExact` depends on a close happening once, and that on the
connect handler, which sets the status to NORMAL without a test. The invariant
says what a connection looks like in each phase. `WaitInv`: a client that waits
has no connection, and a timer. `AllowInv` with `ScanInv`: a client that was let
through has at most one of connect, read and write outstanding, and one unless it
is closed; and while the connect handler may still succeed, the socket is open
(`ConnectPhase`), so the connect timer leaves the session alone, and the i/o timer
is not yet running (`OneAtATime`). So nothing closes a session that may still
connect. This is where `m_timeouts > 0` is used: in "starting" the socket is not
open yet, and the connect timer is not due only because no second has passed.
Every step of a client is then one of five kinds (`ScanStep`, `BypassStep`,
`WaitStep`, `StartStep`, `IdleSecond`; lemma `ClientSteps`), and the invariant, the
action property and the refinement are each proved over the five kinds instead of
over the handlers.

**ListFilter.** `is_will_discard` and `push` are two calls, each under the filter's mutex,
and between them other sessions ask and push. `PassedBounded` counts entries of the list, which
is not inductive, because a session that has asked will add one later. The invariant
(`PassedOrJudging`) adds the sessions that may still let a mail through (`Judging`) to the mails
that passed, and bounds the sum. Asking makes the sum one larger, but only when the list itself
is within the limit, and then at most every session is judging; pushing turns a judging session
into an entry; dropping the oldest entry can only make the sum smaller.

**SmtpServerProtocol.** While a text is received, what `smtp_info` has of it and what is still
on the wire are together the text sent and its end (`TextAsSent`). Since the end is not inside
a text, the chunk that ends with it is the last one, and the text handed on is the whole of it.
That the rest of the mail is the peer's needs RSET: after it nothing of an earlier mail is left
(`CleanIsEmpty`), and before DATA the mail is what the commands said (`CommandsAsSent`). A MAIL the
server answers with 501 has taken its sender off the mail already; the peer, which begins no text
without a mail of its own, sends another. A size that is declared stays the one to compare with
until the end of its mail (`SizeKept`), and what it is compared with is the whole text
(`WholeIsSent`); from these follows `SizeDecides`. For
`EndDetected` the wire always ends with a whole end (`EndOnWire`) while the server reads text.

**SmtpRelay.** The connection (`ConnInv`) has one handler to come, as in `SpamdClient`. The
dialogue is harder, since the client may be ahead of its server: a reply that TCP cuts
counts as two. The invariant (`DialogueInv`) orders the commands: every command on its way was
sent and is not yet taken (`InOrder`), and is there once (`Once`). The client sends the text only
for a 354, and the server sends one 354 only, when it waits for the text; while the 354 is on its
way no other reply the client acts on is behind it (`GoAhead` with `LastWord`). So the text is on its
way only when the server reads text (`TextOut`), and behind it nothing but QUIT (`AfterText`).
Then a 250 that comes after the text is the answer to the text (`TextTaken`), and QUIT follows a
mail that was taken. In a smooth relay (`SmoothInv`) the two sides move in step: connecting, then for
each command the phases of writing, reading and answering it (`Talking`), then `Delivered`. The
timers cannot end it because no second passes in between; with a timeout of zero they could.

**Scanner.** The invariant is one formula about each session. It reads, writes or holds one
reply back, never two of these (`AtMostOne`), and does one of them until it is closed (`GoesOn`).
The handler of the wait timer takes another mutex than the others, in two steps, and a close may
come between them. This is safe because a reply is held exactly while that timer runs or its
handler stands between its steps (`Timed`): no other handler is then to come but that of the
session's own timer, which closes, and `AsyncSend` on a closed socket fails. The mail of an open
session that waits for a slot is the one whose reply is held (`WaitingHeld`), from which
`PeerHeldBack` follows. A step of one session leaves the formula of the others alone (`Others`),
although they compete for the same slots.

**SpamdProtocol.** The invariant (`IInv`) says that what was read and what is unread are the
two parts of spamd's reply at some place, that a reply which declares its length was not read to its
end while the session still reads, and that what is relayed is the beginning of spamd's text
(`Reading`, `Relayed`, `Closed`), and that `parse_report` has closed on nothing but a refusal
(`Rejected`). All that it needs to be inductive is one fact about the
operators, `PartParsed`: what `parse_report` says of the first n characters of a reply. The reply is
a header in which every line break is followed by another line (`Tidy`), a blank line, and a body.
If a part of it contains a blank line, the first one is that of the header, whatever the body
contains (`FrameIs`), so the split cuts it there, and its header is the whole header; otherwise
there is one piece and `parse_report` fails without closing, since such a part cannot end with the
end flag. `PartParsed` also says that it closes only on the status line
of a refusal. The header's lines are then read one by one: which word each starts with, how many words
it has (`StatusRead`, `LengthRead`, `SpamRead`), and that the number `Long64ToString` wrote is what
`ToLong64` reads (`ReadBack`). With a declared length only the whole body has it. Without one the
length is whatever the memory held, and the body a part of spamd's. The recursive functions of
`PyPieces` are reasoned about by induction over sets of numbers (`Induction`), which needs no
theorem with an operator as parameter: `Recursion` says that a recursive function over the numbers
exists and is unique, `LoopIs` the same of a loop of bounded length, and from these follow what a
split gives piece by piece (`PiecesAre`, `CutUnfolds`) and a number digit by digit (`ValueIs`,
`DigitsOfIs`). The lemmas about texts in general are in `TextProofs`.

**The text functions.** The theorems are about the operators, so they need no invariant: they say of
every text what the runs check of the short ones. A search, a strip and a partition all choose the
least or the greatest of a set of positions. The lemmas `MinIs` and `MaxIs` say that there is one,
`PartOf` and its relatives what the part between two positions is, and `OccursIs` that to occur at a
position is to agree there character by character. From these follow what the library's searches
return (`FindFromIs`, `RfindFromIs`), that the places found in a slice are those of the text between
its ends (`PlacesAre`), and that what a strip keeps begins at the first character to keep and ends
at the last (`StripBounds`). `SearchLaws` speaks of slices whose start is not behind their end; of
`rfind` it promises the last place only for slices up to the end of the text, since the code looks
only once before it. `PieceLaws` goes by the number of cuts left: the first piece ends before the
first separator (`FirstCut`), and a join with the first piece in front is that piece, the separator
and the join of the others (`JoinFront`, `CutFits`). `NumberLaws` goes by the number of digits
(`DigitsReadBack`, `FrontDigits`). For the encodings the argument goes by the number of bytes: a
legal character has the digits to the base 64 that its bytes hold, and each sequence that
`isLegalUTF8` takes is that of one character. Exempt are ED and F4 with a second byte under 80,
where it asks for no lower bound.

**Only model-checked.** Liveness under fairness (`EveryClientEnds`, `NothingStalls`,
`QuitCloses`, `ClosedQuiets`, `RelayEnds`) is out of the prover's reach. `PyString` declares
recursive operators, and so the parts of `PyText`'s invariants that are not laws of `TextLaws`
(splits at blanks and from the right, lines, replacing, `format`, `expandtabs`) are checked
on bounded texts only. So are the conversions of whole texts, since the step from a character to a
text is an induction over the text.

## Not modelled

- Which recipient a relay names, and the text of its commands. `SpamdClient` and
  `SmtpRelay` meet in `relayed`, the list of bodies each of which starts one relay.
- Accept errors, the thread pool, shutdown: the acceptor appears as `Accept` only.
- The overload of `async_connect_server` that resolves a name and
  `handle_tcp_iterator_connect`, which nothing calls; `spamd_client.hpp`, which
  nothing includes; `proc_limit::get_number` and `spamd_report::is_full_data`, which nothing calls.
- `std_timer_class` reads the wall clock; time is modelled as running forward.
- Options, logging, the text of headers.
- Of the spamd protocol: the scores, the numeric status and the request CHECK, which
  nothing uses.
- Of the string library: the members of `pystring_class` that forward to the functions; the
  same functions again as templates and for UTF-32 text; comparisons and `operator+`.
  Conversions to and from long double, which round as the compiler does. The locale is C.
  Numbers are those that fit long long. `std::wstring` is one of the encodings, by platform.

## What the relay does when it is disturbed

`SmoothDelivered` has the precondition `smooth` because the code promises no more. A
greeting of several lines that arrives line by line puts the client one reply ahead: it
takes the next line for the reply to EHLO and closes. A last line cut before its end
is dropped, and the client waits until its timer closes it. A write of a part counts as a
write of all. In each case the mail is lost, since nothing keeps it, and the SMTP peer has
had its 250. The session closes after `ASYNC_CLIENT_DEFAULT_TIMEOUT_SEC`, not after
`conf_smtp_client_timeout`, since it does not override `handle_protocol_timer`.

## What the string library does otherwise

The library is used by sapcd for splits, strips, searches and the text between two others, where
none of this matters; the model follows the code, and the invariants of `PyText` say
where they exclude a case.

- `rfind` looks once, before `end`, and gives up when what it found reaches past `end`;
  `startswith` says yes without a comparison when the range is shorter than the prefix;
  `lstrip` keeps a text of nothing but blanks, where `rstrip` and `strip` return an empty one.
- `count` of an empty text, and the in-place `replace` of a text by one that contains it, do not
  end.
- The object's `operator+=` of a `std::string` appends the object to itself, and `assign` of a part
  takes the position for the length.
- `py_islower` calls `isdigit`. `format` takes arguments that are not there.
- `isLegalUTF8` takes any second byte up to 9F after ED and up to 8F after F4. A conversion
  result ends at its first NUL. UTF-16 to UTF-8, alone of the six, replaces control characters
  and drops byte order marks.

## Plan

Done: the connections on both sides of the program, the shared objects, the server's
and the relay's dialogues, the spamd protocol, the string library and its encodings, the two
abstract specifications, the proofs of the safety properties of every component, and of the text
functions that do not need the recursive operators of `PyString`. Left, in this order:

1. A composition from the session to the relay, over the abstract specifications:
   an accepted mail is lost, or delivered at most once.
2. `TcpServer`: accept errors and the close of the acceptor.

-------------------------------- MODULE CatPort -------------------------------
(***************************************************************************)
(* The CAT port of src/src/interfaces/usb_gadget.c on top of UsbGadget: a  *)
(* detached thread opens the serial function of the gadget, reads it       *)
(* character by character and opens it again when it drops; cat_stop()     *)
(* closes the descriptor under it, from the main thread and without a      *)
(* lock.  uac_stop() comes after cat_stop().                               *)
(*                                                                         *)
(* The number in cat_fd is loaded in one step and used in a later one: in  *)
(* between the other thread may close it, and any thread of the process    *)
(* that opens a file or takes a connection gets the lowest number that is  *)
(* free.  A read under way holds on to its file whatever becomes of the    *)
(* number.  What a command does is in RadioTune, RemoteTune and TxArbiter; *)
(* here a line is handled when its semicolon comes.  The raw mode of the   *)
(* tty and the length of the pauses between two attempts are left out.     *)
(***************************************************************************)

EXTENDS UsbGadget

CONSTANTS
  MaxFd,      \* the highest number of the process's descriptor table
  LineMax,    \* CAT_LINE_MAX
  Chars       \* characters of a command

ASSUME CatAssumption ==
  /\ MaxFd \in Nat
  /\ LineMax \in Nat \ {0}

VARIABLES
  file,       \* per descriptor number: "free", "tty", or "other"
  catRunning, \* cat_running
  catFd,      \* cat_fd
  reader,     \* where the reader thread is
  held,       \* the number the reader has loaded from cat_fd
  line,       \* buf up to buf_len
  keeper,     \* where the main thread is with cat_init() and cat_stop()
  keeps,      \* the number cat_stop() has loaded from cat_fd
  \* Histories.
  sent,       \* what has come since the open or the last semicolon
  late        \* both have had a number in hand at the same time

Fds  == 0 .. MaxFd
None == MaxFd + 1         \* -1 in the code

fds     == <<file, catFd, held, keeps, late>>
text    == <<line, sent>>
catVars == <<file, catRunning, catFd, reader, held, line, keeper, keeps, sent, late>>

Free == {n \in Fds : file[n] = "free"}

(* A new file gets the lowest number.                                      *)
Lowest(n) == n \in Free /\ \A k \in Free : n <= k

(* Where the reader, or cat_stop(), has a number in hand that it is going  *)
(* to use, or has closed and not yet taken out of cat_fd.                  *)
ReaderAt(where, n) == where \in {"enter", "write", "closing", "forget"} /\ n # None
KeeperAt(where)    == where \in {"close", "forget"}

Overlap == late' = (late \/ (ReaderAt(reader', held') /\ KeeperAt(keeper')))

CatFresh ==
  /\ file = [n \in Fds |-> "free"]
  /\ catRunning = FALSE /\ catFd = None
  /\ reader = "none" /\ held = None /\ line = <<>>
  /\ keeper = "out" /\ keeps = None
  /\ sent = <<>> /\ late = FALSE

CatInit == GadgetInit /\ CatFresh

-----------------------------------------------------------------------------
(* cat_init() and cat_stop(), in the main thread                           *)

(* Whether uac_init() has succeeded or not; pthread_create() may fail.     *)
StartReader ==
  /\ proc \in {"up", "failed"}
  /\ keeper = "out"
  /\ keeper' = "in"
  /\ \/ catRunning' = TRUE /\ reader' = "test"
     \/ UNCHANGED <<catRunning, reader>>
  /\ UNCHANGED <<fds, text>>

StopReader ==
  /\ keeper = "in"
  /\ catRunning' = FALSE
  /\ keeper' = "look"
  /\ UNCHANGED <<reader, fds, text>>

StopLooks ==
  /\ keeper = "look"
  /\ keeps' = catFd
  /\ keeper' = IF catFd = None THEN "gone" ELSE "close"
  /\ UNCHANGED <<file, catRunning, catFd, reader, held, text>>
  /\ Overlap

StopCloses ==
  /\ keeper = "close"
  /\ file' = [file EXCEPT ![keeps] = "free"]
  /\ keeper' = "forget"
  /\ UNCHANGED <<catRunning, catFd, reader, held, keeps, text>>
  /\ Overlap

StopKeepsNumber ==              \* mutant: cat_fd is not cleared
  /\ keeper = "forget"
  /\ keeper' = "gone"
  /\ keeps' = None
  /\ UNCHANGED <<file, catRunning, catFd, reader, held, text, late>>

StopForgets ==
  /\ keeper = "forget"
  /\ catFd' = None
  /\ keeper' = "gone"
  /\ keeps' = None
  /\ UNCHANGED <<file, catRunning, reader, held, text, late>>

-----------------------------------------------------------------------------
(* cat_thread_fn()                                                         *)

Goes(from, to) == reader = from /\ reader' = to

(* cat_running first, then cat_fd: cat_stop() may fit in between.          *)
TestRunning ==
  /\ Goes("test", IF catRunning THEN "look" ELSE "last")
  /\ UNCHANGED <<catRunning, keeper, fds, text>>

LookAtFd ==
  /\ Goes("look", IF catFd = None THEN "open" ELSE "enter")
  /\ held' = catFd
  /\ UNCHANGED <<file, catRunning, catFd, keeper, keeps, text>>
  /\ Overlap

(* The rest of the command before a drop is not completed after it.        *)
OpenKeepsLine(n) ==             \* mutant: buf_len is not reset
  /\ Goes("open", "reload")
  /\ "acm.usb0" \in nodes
  /\ Lowest(n)
  /\ catFd' = n
  /\ file' = [file EXCEPT ![n] = "tty"]
  /\ sent' = <<>>
  /\ UNCHANGED <<catRunning, held, line, keeper, keeps, late>>

OpenTty(n) ==
  /\ Goes("open", "reload")
  /\ "acm.usb0" \in nodes
  /\ Lowest(n)
  /\ catFd' = n
  /\ file' = [file EXCEPT ![n] = "tty"]
  /\ line' = <<>>
  /\ sent' = <<>>
  /\ UNCHANGED <<catRunning, held, keeper, keeps, late>>

MissTty ==                      \* and pause before the next attempt
  /\ Goes("open", "test")
  /\ catFd' = None
  /\ UNCHANGED <<file, catRunning, held, keeper, keeps, text, late>>

(* read(cat_fd, ..) and close(cat_fd): the number is loaded again.         *)
Reload ==
  /\ \/ Goes("reload", "enter")
     \/ Goes("failed", "closing")
  /\ held' = catFd
  /\ UNCHANGED <<file, catRunning, catFd, keeper, keeps, text>>
  /\ Overlap

EnterRead ==
  /\ Goes("enter", IF held \notin Fds \ Free THEN "failed" ELSE "blocked")
  /\ held' = None
  /\ UNCHANGED <<file, catRunning, catFd, keeper, keeps, text, late>>

(* A computer is at the other end.                                         *)
Attached == {"acm_link", "udc"} \subseteq nodes

LongestLine == LineMax + 1      \* bound: what is sent without a semicolon

Receive(c) ==
  /\ Goes("blocked", "test")
  /\ Attached
  /\ Len(sent) < LongestLine
  /\ sent' = Append(sent, c)
  /\ line' = IF Len(line) + 1 < LineMax THEN Append(line, c) ELSE line
  /\ UNCHANGED <<catRunning, keeper, fds>>

(* The command is handled, cut off where the buffer ends.                  *)
ReceiveSemicolon ==
  /\ Goes("blocked", "answer")
  /\ Attached
  /\ sent' = <<>>
  /\ line' = <<>>
  /\ UNCHANGED <<catRunning, keeper, fds>>

(* Not every command has an answer.                                        *)
AnswerNot ==
  /\ Goes("answer", "test")
  /\ UNCHANGED <<catRunning, keeper, fds, text>>

(* cat_send(): a write that fails is passed over.                          *)
Answer ==
  /\ Goes("answer", IF catFd = None THEN "test" ELSE "write")
  /\ held' = catFd
  /\ UNCHANGED <<file, catRunning, catFd, keeper, keeps, text>>
  /\ Overlap

WriteAnswer ==
  /\ Goes("write", "test")
  /\ held' = None
  /\ UNCHANGED <<file, catRunning, catFd, keeper, keeps, text, late>>

ReceiveNewline ==
  /\ Goes("blocked", "test")
  /\ Attached
  /\ UNCHANGED <<catRunning, keeper, fds, text>>

(* The function was unbound, the cable pulled, or any other error.         *)
ReadFails ==
  /\ Goes("blocked", "failed")
  /\ UNCHANGED <<catRunning, keeper, fds, text>>

CloseTty ==
  /\ Goes("closing", "forget")
  /\ file' = [n \in Fds |-> IF n = held THEN "free" ELSE file[n]]
  /\ UNCHANGED <<catRunning, catFd, held, keeper, keeps, text, late>>

ForgetTty ==
  /\ Goes("forget", "test")
  /\ catFd' = None
  /\ held' = None
  /\ UNCHANGED <<file, catRunning, keeper, keeps, text, late>>

(* After the loop: close what is open, and end.                            *)
LastLook ==
  /\ Goes("last", IF catFd = None THEN "none" ELSE "closing")
  /\ held' = catFd
  /\ UNCHANGED <<file, catRunning, catFd, keeper, keeps, text>>
  /\ Overlap

-----------------------------------------------------------------------------
(* The rest of the process: configfs files, mixers, rigctl connections     *)

OtherOpens(n) ==
  /\ proc # "down"
  /\ Lowest(n)
  /\ file' = [file EXCEPT ![n] = "other"]
  /\ UNCHANGED <<catRunning, catFd, reader, held, keeper, keeps, text, late>>

OtherCloses(n) ==
  /\ file[n] = "other"
  /\ file' = [file EXCEPT ![n] = "free"]
  /\ UNCHANGED <<catRunning, catFd, reader, held, keeper, keeps, text, late>>

(* uac_stop() is called after cat_stop().                                  *)
StopGadget == keeper = "gone" /\ Stop /\ UNCHANGED catVars

EndAll ==
  /\ EndProcess
  /\ file' = [n \in Fds |-> "free"]
  /\ catRunning' = FALSE /\ catFd' = None
  /\ reader' = "none" /\ held' = None /\ line' = <<>>
  /\ keeper' = "out" /\ keeps' = None
  /\ sent' = <<>> /\ late' = FALSE

GadgetElse ==
  /\ InitStep \/ StopStep \/ WriterStep \/ StartProcess \/ HostTakes \/ Reboot
  /\ UNCHANGED catVars

-----------------------------------------------------------------------------
KeeperStep == StartReader \/ StopReader \/ StopLooks \/ StopCloses \/ StopForgets
OpenStep   == LookAtFd \/ (\E n \in Fds : OpenTty(n)) \/ MissTty
ReadStep   == Reload \/ EnterRead \/ (\E c \in Chars : Receive(c))
                \/ ReceiveSemicolon \/ AnswerNot \/ Answer \/ WriteAnswer
                \/ ReceiveNewline \/ ReadFails
CloseStep  == CloseTty \/ ForgetTty \/ LastLook
ReaderStep == TestRunning \/ OpenStep \/ ReadStep \/ CloseStep
OtherStep  == \E n \in Fds : OtherOpens(n) \/ OtherCloses(n)

CatNext ==
  \/ (KeeperStep \/ ReaderStep \/ OtherStep) /\ UNCHANGED gadgetVars
  \/ GadgetElse \/ StopGadget \/ EndAll

CatSpec == CatInit /\ [][CatNext]_<<gadgetVars, catVars>>

-----------------------------------------------------------------------------
CatTypeOK ==
  /\ file \in [Fds -> {"free", "tty", "other"}]
  /\ catRunning \in BOOLEAN
  /\ catFd \in Fds \union {None} /\ held \in Fds \union {None}
  /\ keeps \in Fds \union {None}
  /\ reader \in {"none", "test", "look", "last", "open", "reload", "enter",
                 "blocked", "answer", "write", "failed", "closing", "forget"}
  /\ keeper \in {"out", "in", "look", "close", "forget", "gone"}
  /\ line \in Seq(Chars) /\ sent \in Seq(Chars)
  /\ late \in BOOLEAN

(* A descriptor that the CAT port reads, writes or closes is its tty: it   *)
(* never takes a byte from, answers into or closes a file or a connection  *)
(* that another thread has opened under the same number, unless reader and *)
(* cat_stop() have had numbers in hand at the same time.  (They may:       *)
(* nothing keeps cat_stop() from closing between a load of cat_fd by the   *)
(* reader and its use.)                                                    *)
TouchesItsOwnUnlessLate ==
  ~late =>
    /\ reader \in {"enter", "write", "closing"} /\ held # None => file[held] = "tty"
    /\ keeper = "close" => file[keeps] = "tty"

(* A command is made of what came since the tty was opened and since the   *)
(* last semicolon, from the first character on: nothing of before a drop   *)
(* of the connection is left in it, and however long the line, the buffer  *)
(* has room for the zero that ends it.                                     *)
LineIsWhatWasSent ==
  /\ Len(line) < LineMax
  /\ Len(line) <= Len(sent)
  /\ line = SubSeq(sent, 1, Len(line))
  /\ Len(line) < Len(sent) => Len(line) = LineMax - 1

=============================================================================

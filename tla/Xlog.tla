-------------------------------- MODULE Xlog --------------------------------
(***************************************************************************)
(* common/xlog/xlog.c: characters are put into a ring, each line behind a  *)
(* mark with its level, and printed by whoever gets the console: line by   *)
(* line, the mark taken off, the lines of a low level left out.  A call is *)
(* under the lock of the operations, so it is one step.                    *)
(*                                                                         *)
(* A mark is MarkLength characters; color, time and type are text.         *)
(***************************************************************************)
EXTENDS Integers, SequencesExt

CONSTANTS
  LogBufLen,    \* __LOG_BUF_LEN,
  OffsetMod,    \* 2^32, a multiple of it
  Levels,       \* of messages, the greater the less serious
  DefaultLevel, \* of a message, or of a whole line in the ring, that does not
                \* begin with a level
  Texts,        \* of messages: sequences of characters
  MaxLogs,      \* bound on the calls
  ConsoleKinds  \* environment: "free", or "taken" by somebody else at times

MarkLength == 3
XlogAssumption == /\ LogBufLen \in Nat \ {0} /\ OffsetMod % LogBufLen = 0
                  /\ OffsetMod > LogBufLen /\ Levels \subseteq 0 .. 3 /\ DefaultLevel \in Levels /\ MaxLogs \in Nat

VARIABLES
  xl,        \* log_start, log_end, next_text_line, cur_log_level and msg_level
  logBuf,    \* log_buf; a character is [c, line: the level it was written under, n: its
             \* number, mark: the number its line's mark begins with]
  xlConsole, \* console_level
  printed,   \* what went to the print function in the last call,
  logs       \* history: [calls, chars: numbers given, last: the last number printed, line:
             \* the level of the line, mark: the number of the first character of its mark,
             \* whole: texts end lines, missed: the console was taken]

xlVars == <<xl, logBuf, xlConsole, printed, logs>>

None == -1         \* no level, of a message: it may go on with an open line
Fresh == -2        \* <d>: no level, but a line of its own
LineEnd == 10      \* characters are numbers: a level stands for its digit
Less == 60
Greater == 62
Empty == [c |-> 0, line |-> 0, n |-> 0, mark |-> 0]
Cell(off) == off % LogBufLen
Plus(off, n) == (off + n) % OffsetMod
Length(start, end) == (end - start) % OffsetMod

XlInit == /\ xl = [start |-> 0, end |-> 0, newLine |-> TRUE, level |-> None]
          /\ logBuf = [i \in 0 .. LogBufLen - 1 |-> Empty]
          /\ xlConsole = 4 /\ printed = <<>>
          /\ \E whole \in BOOLEAN : logs = [calls |-> 0, chars |-> 0, last |-> 0, line |-> 0, mark |-> 0,
                                           whole |-> whole, missed |-> FALSE]

-----------------------------------------------------------------------------
\* Mutant: the start is not moved.
NoDrop(r, ch) == [r EXCEPT !.buf[Cell(r.end)] = ch, !.end = Plus(@, 1)]

\* emit_log_char: a full ring drops its oldest character.
Emit(r, ch) ==
  LET end == Plus(r.end, 1)
  IN  [buf |-> [r.buf EXCEPT ![Cell(r.end)] = ch], end |-> end,
       start |-> IF Length(r.start, end) > LogBufLen THEN Plus(r.start, 1) ELSE r.start]

\* The characters of a message: a mark in front of each line that begins in it, and the
\* end of an open line in front of a message with a line of its own.
Mark(level) == <<Less, level, Greater>>
Message(text, own, newLine) == IF own /\ ~newLine THEN <<LineEnd>> \o text ELSE text
Chars(text, level, newLine) ==
  LET Add(r, c) ==
        LET first == logs.chars + Len(r.all) + 1
            line == IF r.new THEN level ELSE r.line
            mark == IF r.new THEN first ELSE r.mark
            added == IF r.new THEN Mark(level) \o <<c>> ELSE <<c>>
        IN  [new |-> c = LineEnd, line |-> line, mark |-> mark,
             all |-> r.all \o [i \in DOMAIN added |->
                       [c |-> added[i], line |-> line, mark |-> mark, n |-> first + i - 1]]]
  IN  FoldLeft(Add, [new |-> newLine, line |-> logs.line, mark |-> logs.mark, all |-> <<>>], text)

-----------------------------------------------------------------------------
(* Printing.                                                               *)
Smaller(a, b) == IF a < b THEN a ELSE b
Memory(buf, from, n) == [i \in 1 .. n |-> IF from + i - 1 < LogBufLen THEN buf[from + i - 1] ELSE Empty]

\* Mutant: what wrapped is not printed.
StopsAtTheEnd(buf, start, end, level) ==
  IF level = None \/ level >= xlConsole \/ start = end THEN <<>>
  ELSE Memory(buf, Cell(start), Smaller(Length(start, end), LogBufLen - Cell(start)))

\* __call_console: what of start .. end reaches the print function.
Piece(buf, start, end, level) ==
  IF level = None \/ level >= xlConsole \/ start = end THEN <<>>
  ELSE IF Cell(start) > Cell(end)
    THEN Memory(buf, Cell(start), LogBufLen - Cell(start)) \o Memory(buf, 0, Cell(end))
  ELSE Memory(buf, Cell(start), Length(start, end))

MarkAt(buf, off, end) ==
  /\ Length(off, end) > 2 /\ buf[Cell(off)].c = Less
  /\ buf[Cell(Plus(off, 1))].c \in 0 .. 3 /\ buf[Cell(Plus(off, 2))].c = Greater

EndOf(buf, off, end) ==
  LET n == Length(off, end)
      ends == {i \in 1 .. n : buf[Cell(Plus(off, i - 1))].c = LineEnd}
  IN  IF ends = {} THEN [off |-> end, whole |-> FALSE]
      ELSE [off |-> Plus(off, CHOOSE i \in ends : \A j \in ends : i <= j), whole |-> TRUE]

\* _call_console, a line after the other; r is where it is.  What lost its mark is printed
\* under the default level if its end is there, and otherwise not at all.
Line(buf, r, end) ==
  LET mark == r.level = None /\ MarkAt(buf, r.off, end)
      from == IF mark THEN Plus(r.off, MarkLength) ELSE r.off
      to == EndOf(buf, from, end)
      known == IF mark THEN buf[Cell(Plus(r.off, 1))].c ELSE r.level
      level == IF to.whole /\ known = None THEN DefaultLevel ELSE known
  IN  [off |-> to.off, out |-> r.out \o Piece(buf, from, to.off, level),
       level |-> IF to.whole THEN None ELSE level]

Printing(buf, start, end, level) ==
  FoldLeft(LAMBDA r, i : IF r.off = end THEN r ELSE Line(buf, r, end),
           [off |-> start, out |-> <<>>, level |-> level], [i \in 1 .. LogBufLen |-> i])

\* xlog: the message goes into the ring, and out if the console is to be had.
Log(text, own, console) ==
  LET level == IF own \in {None, Fresh} THEN DefaultLevel ELSE own
      chars == Chars(Message(text, own # None, xl.newLine), level, xl.newLine)
      r == FoldLeft(Emit, [buf |-> logBuf, start |-> xl.start, end |-> xl.end], chars.all)
      p == Printing(r.buf, r.start, r.end, xl.level)
  IN  /\ logs.calls < MaxLogs
      /\ logs.whole => chars.new
      /\ console = "taken" => logs.whole
      /\ logBuf' = r.buf
      /\ xl' = [start |-> IF console = "free" THEN r.end ELSE r.start, end |-> r.end,
                newLine |-> chars.new, level |-> IF console = "free" THEN p.level ELSE xl.level]
      /\ printed' = IF console = "free" THEN p.out ELSE <<>>
      /\ logs' = [logs EXCEPT !.calls = @ + 1, !.chars = @ + Len(chars.all), !.line = chars.line,
                              !.mark = IF chars.new THEN 0 ELSE chars.mark,
                              !.last = IF printed' = <<>> THEN @ ELSE Last(printed').n,
                              !.missed = console = "taken"]
      /\ UNCHANGED xlConsole

\* xlog_set_log_level
SetLevel(level) == /\ xlConsole' = level + 1
                   /\ UNCHANGED <<xl, logBuf, printed, logs>>

XlNext == \/ \E text \in Texts, own \in Levels \cup {None, Fresh}, console \in ConsoleKinds : Log(text, own, console)
          \/ \E level \in Levels : SetLevel(level)
XlSpec == XlInit /\ [][XlNext]_xlVars

-----------------------------------------------------------------------------
XlTypeOK == /\ xl.start \in 0 .. OffsetMod - 1 /\ Length(xl.start, xl.end) <= LogBufLen
            /\ \A i \in DOMAIN printed : printed[i] # Empty

\* The ring dropped the mark of a character's line before it was read: the
\* rest of the line is known by the default level alone.
LostMark(ch) == /\ \A i \in 0 .. LogBufLen - 1 : logBuf'[i].n # ch.mark
                /\ ch.mark = logs.mark => xl.level = None
LevelOf(ch) == IF LostMark(ch) THEN DefaultLevel ELSE ch.line

(* Every character a call prints was written, was not printed before, and  *)
(* comes in the order it was written; it is of a line as serious as the    *)
(* console asks, whatever the ring had to drop while the console was taken *)
(* and wherever the offsets wrap.  A line whose mark was dropped counts as *)
(* one of the default level, and is cut off in front.                      *)
PrintedInOrder ==
  printed' # printed /\ printed' # <<>> =>
    /\ printed'[1].n > logs.last
    /\ \A i \in 1 .. Len(printed') :
         /\ LevelOf(printed'[i]) < xlConsole
         /\ printed'[i].n > 0
         /\ i > 1 => printed'[i].n > printed'[i - 1].n
PrintedOnceInOrder == [][PrintedInOrder]_xlVars

(* A call that finds the console free keeps nothing back: all it wrote of  *)
(* lines that are serious enough comes out, but for the marks, and for the *)
(* rest of a line that lost its mark, which comes out at the default level *)
(* and only with its end.                                                  *)
NothingKept ==
  logs'.calls # logs.calls /\ xl'.start = xl'.end /\ ~logs.missed =>
    LET mine == {ch \in {logBuf'[i] : i \in 0 .. LogBufLen - 1} :
                   ch.n > logs.chars /\ ch.c \notin {Less, Greater} \cup 0 .. 3}
        EndIn(ch) == \E e \in mine : e.mark = ch.mark /\ e.c = LineEnd
    IN  \A ch \in mine :
          LevelOf(ch) < xlConsole /\ (LostMark(ch) => EndIn(ch)) => ch \in ToSet(printed')
NothingKeptBack == [][NothingKept]_xlVars
=============================================================================

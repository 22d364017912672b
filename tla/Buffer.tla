------------------------------- MODULE Buffer -------------------------------
(***************************************************************************)
(* One FRED buffer: its lines, its current line, and what it remembers of  *)
(* the file it came from.  Every operation of the C++ class is an operator *)
(* from a buffer to a buffer; its precondition (the argument checks that   *)
(* throw) is what the callers establish before they apply it.              *)
(*                                                                         *)
(* A line is a member of Text.  The line-ending convention of a file (LF   *)
(* or CRLF) is left out: nothing said here depends on it.                  *)
(*                                                                         *)
(* The field `saved` is a history field and no part of the program: the    *)
(* lines the buffer had when it was last loaded from, or completely        *)
(* written to, a file (none, for a buffer that never met a file).          *)
(***************************************************************************)
EXTENDS Integers, Sequences

CONSTANTS Text,     \* the lines a user or a file may contain
          Files,    \* file names
          NoFile    \* the associated file of a buffer that has none

ASSUME NoFileAssumption == NoFile \notin Files

Encodings == {"unknown", "ascii", "utf8"}

BufferRecord ==
    [ lines         : Seq(Text),
      current_line  : Nat,
      modified      : BOOLEAN,
      file          : Files \cup {NoFile},
      encoding      : Encodings,
      final_newline : BOOLEAN,
      saved         : Seq(Text) ]

NewBuffer ==
    [ lines         |-> <<>>,
      current_line  |-> 0,
      modified      |-> FALSE,
      file          |-> NoFile,
      encoding      |-> "unknown",
      final_newline |-> TRUE,
      saved         |-> <<>> ]

IsEmpty(b)   == b.lines = <<>>
LineCount(b) == Len(b.lines)

\* A buffer after an edit: new lines, a new current line, and the mark.
Edited(b, lines, current_line) ==
    [b EXCEPT !.lines = lines, !.current_line = current_line, !.modified = TRUE]

\* The loop `for (line : lines) buffer.append(line)` over at least one line.
AppendLines(b, new) ==
    Edited(b, b.lines \o new, Len(b.lines) + Len(new))

Inserted(lines, n, new) ==
    SubSeq(lines, 1, n) \o new \o SubSeq(lines, n + 1, Len(lines))

\* Mutant: the inserted lines do not dirty the buffer.
InsertAfterUnmarked(b, n, new) ==
    [b EXCEPT !.lines        = Inserted(b.lines, n, new),
              !.current_line = n + Len(new)]

\* Position 0 is before the first line.  Inserting nothing moves the cursor
\* and leaves the buffer clean.
InsertAfter(b, n, new) ==
    IF new = <<>>
      THEN [b EXCEPT !.current_line = n]
      ELSE Edited(b, Inserted(b.lines, n, new), n + Len(new))

Remaining(lines, first, last) ==
    SubSeq(lines, 1, first - 1) \o SubSeq(lines, last + 1, Len(lines))

\* The line that moved into the gap, or the new last one.
LineAfterErase(b, first, last) ==
    LET left == Len(b.lines) - (last - first + 1)
    IN IF first <= left THEN first ELSE left

\* Mutant: the cursor stays where the erased lines began.
EraseKeepsFirst(b, first, last) ==
    Edited(b, Remaining(b.lines, first, last), first)

\* Mutant: erasing lines does not dirty the buffer.
EraseUnmarked(b, first, last) ==
    [b EXCEPT !.lines        = Remaining(b.lines, first, last),
              !.current_line = LineAfterErase(b, first, last)]

Erase(b, first, last) ==
    Edited(b, Remaining(b.lines, first, last), LineAfterErase(b, first, last))

SetCurrentLine(b, n) == [b EXCEPT !.current_line = n]

LoadFile(b, new, file, encoding, final_newline) ==
    [ lines         |-> new,
      current_line  |-> Len(new),
      modified      |-> FALSE,
      file          |-> file,
      encoding      |-> encoding,
      final_newline |-> final_newline,
      saved         |-> new ]

\* associate_file() followed by mark_clean(): what a complete write does.
AssociateAndMarkClean(b, file, encoding) ==
    [b EXCEPT !.file     = file,
              !.encoding = encoding,
              !.modified = FALSE,
              !.saved    = b.lines]

-----------------------------------------------------------------------------
(***************************************************************************)
(* What every buffer satisfies between two commands.                       *)
(***************************************************************************)

\* The current line designates a line of the buffer, or none (0).
CursorInBuffer(b) == b.current_line \in 0 .. Len(b.lines)

\* A buffer that is not marked modified holds exactly the lines of its last
\* load or complete write, so that no edit can be lost while it looks clean.
CleanIsSaved(b) == ~b.modified => b.lines = b.saved

\* Only a load or a complete write gives a buffer lines to be compared with.
UnfiledIsUnsaved(b) == b.file = NoFile => b.saved = <<>>

BufferOK(b) ==
    /\ b \in BufferRecord
    /\ CursorInBuffer(b)
    /\ CleanIsSaved(b)
    /\ UnfiledIsUnsaved(b)

=============================================================================

------------------------------ MODULE TextFile ------------------------------
(***************************************************************************)
(* Text files as the R and W commands see them.  A file on disk is Absent, *)
(* Unreadable (it cannot be opened, or it holds a NUL byte), or an image:  *)
(* the lines it holds, whether it ends with a newline, and whether it      *)
(* starts with a UTF-8 byte order mark.                                    *)
(***************************************************************************)
EXTENDS Buffer

CONSTANTS NonAscii,     \* the lines that hold a byte above 127
          Malformed,    \* those of them that are not valid UTF-8
          Blank,        \* the empty line, when Text has it
          Absent, Unreadable

ASSUME TextFileAssumption ==
    /\ NonAscii \subseteq Text
    /\ Malformed \subseteq NonAscii
    /\ Absent # Unreadable

Image ==
    [lines : Seq(Text), final_newline : BOOLEAN, bom : BOOLEAN]

\* That there is no file and that it cannot be read are not texts of files.
ASSUME ImageAssumption == Absent \notin Image /\ Unreadable \notin Image

IsImage(file) == file # Absent /\ file # Unreadable

AllAscii(lines)  == \A i \in 1 .. Len(lines) : lines[i] \notin NonAscii
ValidUtf8(lines) == \A i \in 1 .. Len(lines) : lines[i] \notin Malformed

\* R accepts the file: it opens, and its bytes are ASCII or UTF-8.
Decodable(file) == IsImage(file) /\ ValidUtf8(file.lines)

\* W accepts the lines in the encoding it is about to use.
Encodable(lines, encoding) ==
    IF encoding = "ascii" THEN AllAscii(lines) ELSE ValidUtf8(lines)

DetectedEncoding(image) ==
    IF AllAscii(image.lines) /\ ~image.bom THEN "ascii" ELSE "utf8"

\* What a complete load makes of an image.
Loaded(b, image, name) ==
    LoadFile(b, image.lines, name, DetectedEncoding(image),
             image.final_newline)

\* What the bytes of `lines`, each but the last followed by a newline, will
\* decode to.  A blank last line without its newline leaves no byte behind:
\* what remains is a file that ends with the newline of the line before it.
Written(lines, final_newline) ==
    LET n == Len(lines)
    IN IF n > 0 /\ ~final_newline /\ lines[n] = Blank
         THEN [lines |-> SubSeq(lines, 1, n - 1),
               final_newline |-> n > 1, bom |-> FALSE]
         ELSE [lines |-> lines,
               final_newline |-> final_newline /\ n > 0, bom |-> FALSE]

\* What a write that failed half-way may leave in the truncated file, which
\* is taken to be cut between two lines.
Truncations(lines) ==
    { [lines |-> SubSeq(lines, 1, n), final_newline |-> n > 0, bom |-> FALSE]
        : n \in 0 .. Len(lines) - 1 }

=============================================================================

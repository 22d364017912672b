------------------------- MODULE BufferManagerProofs -------------------------
(***************************************************************************)
(* What the operations on one buffer and on the manager preserve, for      *)
(* every set of lines, files and names.  Of a buffer: its type, a cursor   *)
(* inside it, and the agreement of a clean buffer with what it last loaded *)
(* or wrote.                                                               *)
(*                                                                         *)
(* Of the manager, ManagerCore leaves out the one clause that is broken    *)
(* inside a command (a buffer just created is disposable until it is       *)
(* selected or filled), and that the front end does not keep at all.       *)
(***************************************************************************)
EXTENDS BufferManager, TextFile, SequenceTheorems, TLAPS

-----------------------------------------------------------------------------
(***************************************************************************)
(* One buffer.                                                             *)
(***************************************************************************)

\* A part of a sequence, from m to n, is a sequence of the length expected.
LEMMA PartOfSeq ==
    ASSUME NEW S, NEW s \in Seq(S),
           NEW m \in 1 .. Len(s) + 1, NEW n \in 0 .. Len(s)
    PROVE  /\ SubSeq(s, m, n) \in Seq(S)
           /\ Len(SubSeq(s, m, n)) = IF m <= n THEN n - m + 1 ELSE 0
           /\ \A i \in 1 .. n - m + 1 : SubSeq(s, m, n)[i] = s[m + i - 1]
<1>1. Len(s) \in Nat
  BY LenProperties
<1>2. m \in Int /\ n \in Int /\ m .. n \subseteq 1 .. Len(s)
  BY <1>1
<1>3. \A i \in m .. n : s[i] \in S
  BY <1>2, ElementOfSeq
<1> QED
  BY <1>2, <1>3, SubSeqProperties

\* Two and three sequences put together.
LEMMA TwoParts ==
    ASSUME NEW S, NEW s \in Seq(S), NEW t \in Seq(S)
    PROVE  /\ s \o t \in Seq(S)
           /\ Len(s \o t) = Len(s) + Len(t)
           /\ Len(s) \in Nat
           /\ Len(t) \in Nat
BY ConcatProperties, LenProperties

LEMMA ThreeParts ==
    ASSUME NEW S, NEW s \in Seq(S), NEW t \in Seq(S), NEW u \in Seq(S)
    PROVE  /\ (s \o t) \o u \in Seq(S)
           /\ Len((s \o t) \o u) = Len(s) + Len(t) + Len(u)
<1> DEFINE st == s \o t
<1>1. st \in Seq(S) /\ Len(st) = Len(s) + Len(t)
  BY TwoParts
<1> HIDE DEF st
<1>2. st \o u \in Seq(S) /\ Len(st \o u) = Len(st) + Len(u)
  BY <1>1, TwoParts
<1> QED
  BY <1>1, <1>2 DEF st

\* A sequence is empty exactly when its length is 0.
LEMMA EmptyByLength ==
    ASSUME NEW S, NEW s \in Seq(S)
    PROVE  /\ Len(s) \in Nat
           /\ s = <<>> <=> Len(s) = 0
BY LenProperties, EmptySeq

LEMMA NewBufferOK == BufferOK(NewBuffer)
<1>1. <<>> \in Seq(Text) /\ Len(<<>>) = 0
  BY EmptySeq
<1> QED
  BY <1>1 DEF BufferOK, NewBuffer, BufferRecord, CursorInBuffer, CleanIsSaved,
              UnfiledIsUnsaved, Encodings

\* An edit keeps the type and the association, and marks the buffer, so that
\* only the new cursor has to be looked at.
LEMMA EditedOK ==
    ASSUME NEW b, BufferOK(b),
           NEW new \in Seq(Text), NEW n \in 0 .. Len(new)
    PROVE  /\ BufferOK(Edited(b, new, n))
           /\ Edited(b, new, n).modified
           /\ Edited(b, new, n).lines = new
<1> DEFINE b2 == Edited(b, new, n)
<1>1. b \in BufferRecord /\ n \in Nat /\ new \in Seq(Text)
  BY LenProperties DEF BufferOK
<1>2. b2 \in BufferRecord
  BY ONLY <1>1 DEF BufferRecord, Edited
<1>3. /\ b2.lines = new /\ b2.current_line = n /\ b2.modified = TRUE
      /\ b2.file = b.file /\ b2.saved = b.saved
  BY <1>1 DEF BufferRecord, Edited
<1> HIDE DEF b2
<1>4. BufferOK(b2)
  BY <1>2, <1>3 DEF BufferOK, CursorInBuffer, CleanIsSaved, UnfiledIsUnsaved
<1> QED
  BY <1>3, <1>4 DEF b2

LEMMA SetCurrentLineOK ==
    ASSUME NEW b, BufferOK(b), NEW n \in 0 .. LineCount(b)
    PROVE  BufferOK(SetCurrentLine(b, n))
<1>1. Len(b.lines) \in Nat
  BY LenProperties DEF BufferOK, BufferRecord
<1> QED
  BY <1>1 DEF BufferOK, BufferRecord, CursorInBuffer, CleanIsSaved,
              UnfiledIsUnsaved, SetCurrentLine, LineCount

LEMMA AppendLinesOK ==
    ASSUME NEW b, BufferOK(b), NEW new \in Seq(Text), new # <<>>
    PROVE  /\ BufferOK(AppendLines(b, new))
           /\ AppendLines(b, new).modified
<1>1. b.lines \in Seq(Text)
  BY DEF BufferOK, BufferRecord
<1>2. /\ b.lines \o new \in Seq(Text)
      /\ Len(b.lines \o new) = Len(b.lines) + Len(new)
      /\ Len(b.lines) \in Nat
      /\ Len(new) \in Nat
  BY <1>1, ConcatProperties, LenProperties
<1>3. Len(b.lines) + Len(new) \in 0 .. Len(b.lines \o new)
  BY <1>2
<1> QED
  BY <1>2, <1>3, EditedOK DEF AppendLines

\* The lines and the length after an insertion, and after an erasure.
LEMMA InsertedLines ==
    ASSUME NEW s \in Seq(Text), NEW new \in Seq(Text), NEW n \in 0 .. Len(s)
    PROVE  /\ Inserted(s, n, new) \in Seq(Text)
           /\ Len(Inserted(s, n, new)) = Len(s) + Len(new)
<1> DEFINE before == SubSeq(s, 1, n)
           after  == SubSeq(s, n + 1, Len(s))
<1>1. Len(s) \in Nat /\ Len(new) \in Nat
  BY LenProperties
<1>2. /\ before \in Seq(Text) /\ Len(before) = n
      /\ after \in Seq(Text) /\ Len(after) = Len(s) - n
  BY <1>1, PartOfSeq
<1>3. Inserted(s, n, new) = (before \o new) \o after
  BY DEF Inserted
<1> HIDE DEF before, after
<1>4. before \in Seq(Text) /\ new \in Seq(Text) /\ after \in Seq(Text)
  BY <1>2
<1>5. /\ (before \o new) \o after \in Seq(Text)
      /\ Len((before \o new) \o after) = Len(before) + Len(new) + Len(after)
  BY ONLY <1>4, ThreeParts
<1> QED
  BY <1>1, <1>2, <1>3, <1>5

LEMMA RemainingLines ==
    ASSUME NEW s \in Seq(Text),
           NEW first \in 1 .. Len(s), NEW last \in first .. Len(s)
    PROVE  /\ Remaining(s, first, last) \in Seq(Text)
           /\ Len(Remaining(s, first, last)) = Len(s) - (last - first + 1)
<1> DEFINE before == SubSeq(s, 1, first - 1)
           after  == SubSeq(s, last + 1, Len(s))
<1>1. Len(s) \in Nat
  BY LenProperties
<1>2. /\ before \in Seq(Text) /\ Len(before) = first - 1
      /\ after \in Seq(Text) /\ Len(after) = Len(s) - last
  BY <1>1, PartOfSeq
<1>3. Remaining(s, first, last) = before \o after
  BY DEF Remaining
<1> HIDE DEF before, after
<1>4. /\ before \o after \in Seq(Text)
      /\ Len(before \o after) = Len(before) + Len(after)
  BY <1>2, TwoParts
<1> QED
  BY <1>1, <1>2, <1>3, <1>4

LEMMA InsertAfterOK ==
    ASSUME NEW b, BufferOK(b), NEW new \in Seq(Text), NEW n \in 0 .. LineCount(b)
    PROVE  /\ BufferOK(InsertAfter(b, n, new))
           /\ new # <<>> => InsertAfter(b, n, new).modified
<1>1. CASE new = <<>>
  BY <1>1, SetCurrentLineOK DEF InsertAfter, SetCurrentLine
<1>2. CASE new # <<>>
  <2>1. b.lines \in Seq(Text) /\ n \in 0 .. Len(b.lines)
    BY DEF BufferOK, BufferRecord, LineCount
  <2>2. Len(b.lines) \in Nat /\ Len(new) \in Nat
    BY <2>1, LenProperties
  <2>3. /\ Inserted(b.lines, n, new) \in Seq(Text)
        /\ Len(Inserted(b.lines, n, new)) = Len(b.lines) + Len(new)
    BY <2>1, InsertedLines
  <2>4. n + Len(new) \in 0 .. Len(Inserted(b.lines, n, new))
    BY <2>1, <2>2, <2>3
  <2> QED
    BY <1>2, <2>3, <2>4, EditedOK DEF InsertAfter
<1> QED
  BY <1>1, <1>2

LEMMA EraseOK ==
    ASSUME NEW b, BufferOK(b),
           NEW first \in 1 .. LineCount(b), NEW last \in first .. LineCount(b)
    PROVE  /\ BufferOK(Erase(b, first, last))
           /\ Erase(b, first, last).modified
           /\ LineCount(Erase(b, first, last)) = LineCount(b) - (last - first + 1)
<1>1. /\ b.lines \in Seq(Text) /\ Len(b.lines) \in Nat
      /\ first \in 1 .. Len(b.lines) /\ last \in first .. Len(b.lines)
  BY LenProperties DEF BufferOK, BufferRecord, LineCount
<1>2. /\ Remaining(b.lines, first, last) \in Seq(Text)
      /\ Len(Remaining(b.lines, first, last)) = Len(b.lines) - (last - first + 1)
  BY <1>1, RemainingLines
<1>3. LineAfterErase(b, first, last) \in 0 .. Len(Remaining(b.lines, first, last))
  BY <1>1, <1>2 DEF LineAfterErase
<1> QED
  BY <1>2, <1>3, EditedOK DEF Erase, LineCount

LEMMA LoadedOK ==
    ASSUME NEW b, NEW image \in Image, NEW name \in Files
    PROVE  BufferOK(Loaded(b, image, name))
<1>1. /\ image.lines \in Seq(Text) /\ image.final_newline \in BOOLEAN
      /\ Len(image.lines) \in Nat
  BY LenProperties DEF Image
<1>2. DetectedEncoding(image) \in Encodings
  BY DEF DetectedEncoding, Encodings
<1>3. name # NoFile
  BY NoFileAssumption
<1> QED
  BY <1>1, <1>2, <1>3 DEF Loaded, LoadFile, BufferOK, BufferRecord,
        CursorInBuffer, CleanIsSaved, UnfiledIsUnsaved

LEMMA AssociateAndMarkCleanOK ==
    ASSUME NEW b, BufferOK(b), NEW name \in Files, NEW encoding \in Encodings
    PROVE  /\ BufferOK(AssociateAndMarkClean(b, name, encoding))
           /\ AssociateAndMarkClean(b, name, encoding).file # NoFile
<1> DEFINE b2 == AssociateAndMarkClean(b, name, encoding)
<1>1. b \in BufferRecord /\ name # NoFile
  BY NoFileAssumption DEF BufferOK
<1>2. b2 \in BufferRecord
  BY <1>1 DEF BufferRecord, AssociateAndMarkClean
<1>3. /\ b2.lines = b.lines /\ b2.current_line = b.current_line
      /\ b2.file = name /\ b2.saved = b.lines
  BY <1>1 DEF BufferRecord, AssociateAndMarkClean
<1> HIDE DEF b2
<1>4. BufferOK(b2)
  BY <1>1, <1>2, <1>3
  DEF BufferOK, CursorInBuffer, CleanIsSaved, UnfiledIsUnsaved
<1> QED
  BY <1>1, <1>3, <1>4 DEF b2

-----------------------------------------------------------------------------
(***************************************************************************)
(* The manager.                                                            *)
(***************************************************************************)

ManagerCore(m) ==
    /\ IsManager(m)
    /\ BuffersOK(m)
    /\ CurrentIsOpen(m)
    /\ UniqueUsage(m)
    /\ ListedAreOpen(m)

\* A buffer that leaving it does not drop.
Lasting(b) == ~IsEmpty(b) \/ b.modified \/ b.file # NoFile

\* Taking a name out of a list leaves a list of the others.
LEMMA WithoutProperties ==
    ASSUME NEW order \in Seq(Names), NEW name \in Names,
           \A i, j \in 1 .. Len(order) : order[i] = order[j] => i = j
    PROVE  LET rest == Without(order, name)
           IN /\ rest \in Seq(Names)
              /\ \A i, j \in 1 .. Len(rest) : rest[i] = rest[j] => i = j
              /\ \A i \in 1 .. Len(rest) :
                   /\ rest[i] # name
                   /\ \E j \in 1 .. Len(order) : rest[i] = order[j]
<1> DEFINE rest == Without(order, name)
<1>1. Len(order) \in Nat
  BY LenProperties
<1>2. CASE ~ \E i \in 1 .. Len(order) : order[i] = name
  BY <1>2 DEF Without
<1>3. CASE \E i \in 1 .. Len(order) : order[i] = name
  <2> DEFINE k == CHOOSE j \in 1 .. Len(order) : order[j] = name
             before == SubSeq(order, 1, k - 1)
             after  == SubSeq(order, k + 1, Len(order))
  <2>1. k \in 1 .. Len(order) /\ order[k] = name
    BY <1>3
  <2>2. rest = before \o after
    BY <1>3 DEF Without
  <2> HIDE DEF k
  <2>3. /\ before \in Seq(Names) /\ Len(before) = k - 1
        /\ \A i \in 1 .. k - 1 : before[i] = order[i]
    <3>1. /\ 1 \in 1 .. Len(order) + 1 /\ k - 1 \in 0 .. Len(order)
          /\ k - 1 \in Nat
      BY <1>1, <2>1
    <3>2. /\ before \in Seq(Names)
          /\ Len(before) = IF 1 <= k - 1 THEN (k - 1) - 1 + 1 ELSE 0
          /\ \A i \in 1 .. (k - 1) - 1 + 1 : before[i] = order[1 + i - 1]
      BY <3>1, PartOfSeq
    <3> HIDE DEF before
    <3> QED
      BY <3>1, <3>2
  <2>4. /\ after \in Seq(Names) /\ Len(after) = Len(order) - k
        /\ \A i \in 1 .. Len(order) - k : after[i] = order[k + i]
    <3>1. k + 1 \in 1 .. Len(order) + 1 /\ Len(order) \in 0 .. Len(order)
      BY <1>1, <2>1
    <3>2. /\ after \in Seq(Names)
          /\ Len(after) = IF k + 1 <= Len(order)
                            THEN Len(order) - (k + 1) + 1 ELSE 0
          /\ \A i \in 1 .. Len(order) - (k + 1) + 1 :
               after[i] = order[(k + 1) + i - 1]
      BY <3>1, PartOfSeq
    <3> HIDE DEF after
    <3> QED
      BY <1>1, <2>1, <3>2
  <2> HIDE DEF before, after
  <2>5. /\ before \o after \in Seq(Names)
        /\ Len(before \o after) = Len(before) + Len(after)
        /\ \A i \in 1 .. Len(before) + Len(after) : (before \o after)[i] =
             IF i <= Len(before) THEN before[i] ELSE after[i - Len(before)]
    BY <2>3, <2>4, ConcatProperties
  <2> HIDE DEF rest
  <2>6. /\ rest \in Seq(Names)
        /\ Len(rest) = Len(order) - 1
        /\ \A i \in 1 .. Len(order) - 1 :
             rest[i] = IF i <= k - 1 THEN order[i] ELSE order[i + 1]
    <3>1. Len(before) + Len(after) = Len(order) - 1
      BY <1>1, <2>1, <2>3, <2>4
    <3>2. ASSUME NEW i \in 1 .. Len(order) - 1
          PROVE  rest[i] = IF i <= k - 1 THEN order[i] ELSE order[i + 1]
      <4>1. rest[i] = IF i <= k - 1 THEN before[i] ELSE after[i - (k - 1)]
        BY <2>2, <2>3, <2>5, <3>1
      <4>2. CASE i <= k - 1
        BY <1>1, <2>1, <2>3, <4>1, <4>2
      <4>3. CASE ~(i <= k - 1)
        <5>1. /\ i - (k - 1) \in 1 .. Len(order) - k
              /\ k + (i - (k - 1)) = i + 1
          BY <1>1, <2>1, <4>3
        <5> QED
          BY <2>4, <4>1, <4>3, <5>1
      <4> QED
        BY <4>2, <4>3
    <3> QED
      BY <2>2, <2>5, <3>1, <3>2
  <2>7. ASSUME NEW i \in 1 .. Len(rest)
        PROVE  \E p \in 1 .. Len(order) :
                 /\ p # k /\ rest[i] = order[p]
                 /\ p = IF i <= k - 1 THEN i ELSE i + 1
    BY <1>1, <2>1, <2>6
  <2>8. ASSUME NEW i \in 1 .. Len(rest), NEW j \in 1 .. Len(rest),
               rest[i] = rest[j]
        PROVE  i = j
    <3>1. PICK p \in 1 .. Len(order) :
             rest[i] = order[p] /\ p = IF i <= k - 1 THEN i ELSE i + 1
      BY <2>7
    <3>2. PICK q \in 1 .. Len(order) :
             rest[j] = order[q] /\ q = IF j <= k - 1 THEN j ELSE j + 1
      BY <2>7
    <3>3. p = q
      BY <2>8, <3>1, <3>2
    <3> QED
      BY <1>1, <2>1, <2>6, <3>1, <3>2, <3>3
  <2>9. ASSUME NEW i \in 1 .. Len(rest)
        PROVE  rest[i] # name /\ \E j \in 1 .. Len(order) : rest[i] = order[j]
    BY <2>1, <2>7
  <2> QED
    BY <2>6, <2>8, <2>9 DEF rest
<1> QED
  BY <1>2, <1>3

LEMMA TouchProperties ==
    ASSUME NEW order \in Seq(Names), NEW name \in Names,
           \A i, j \in 1 .. Len(order) : order[i] = order[j] => i = j
    PROVE  LET touched == Touch(order, name)
           IN /\ touched \in Seq(Names)
              /\ \A i, j \in 1 .. Len(touched) : touched[i] = touched[j] => i = j
              /\ \A i \in 1 .. Len(touched) :
                   \/ touched[i] = name
                   \/ \E j \in 1 .. Len(order) : touched[i] = order[j]
<1> DEFINE rest    == Without(order, name)
           head    == <<name>>
           touched == Touch(order, name)
<1>1. /\ rest \in Seq(Names)
      /\ \A i, j \in 1 .. Len(rest) : rest[i] = rest[j] => i = j
      /\ \A i \in 1 .. Len(rest) :
           /\ rest[i] # name
           /\ \E j \in 1 .. Len(order) : rest[i] = order[j]
  BY WithoutProperties
<1>2. head \in Seq(Names) /\ Len(head) = 1 /\ head[1] = name
  OBVIOUS
<1>3. touched = head \o rest
  BY DEF Touch
<1>4. Len(rest) \in Nat
  BY <1>1, LenProperties
<1> HIDE DEF rest, head
<1>5. /\ head \o rest \in Seq(Names)
      /\ Len(head \o rest) = Len(head) + Len(rest)
      /\ \A i \in 1 .. Len(head) + Len(rest) : (head \o rest)[i] =
           IF i <= Len(head) THEN head[i] ELSE rest[i - Len(head)]
  <2>1. head \in Seq(Names) /\ rest \in Seq(Names)
    BY <1>1, <1>2
  <2> QED
    BY ONLY <2>1, ConcatProperties
<1> HIDE DEF touched
<1>6. /\ touched \in Seq(Names)
      /\ Len(touched) = Len(rest) + 1
      /\ \A i \in 1 .. Len(rest) + 1 :
           touched[i] = IF i = 1 THEN name ELSE rest[i - 1]
  BY <1>2, <1>3, <1>4, <1>5
<1>7. ASSUME NEW i \in 1 .. Len(touched), NEW j \in 1 .. Len(touched),
             touched[i] = touched[j]
      PROVE  i = j
  <2>0. \A k \in 1 .. Len(touched) : k # 1 => touched[k] # name
    <3>1. ASSUME NEW k \in 1 .. Len(touched), k # 1
          PROVE  touched[k] # name
      <4>1. k - 1 \in 1 .. Len(rest) /\ touched[k] = rest[k - 1]
        BY <1>4, <1>6, <3>1
      <4> QED
        BY <1>1, <4>1
    <3> QED
      BY <3>1
  <2>1. i = 1 <=> j = 1
    <3>1. 1 \in 1 .. Len(touched) /\ touched[1] = name
      BY <1>4, <1>6
    <3> QED
      BY <1>7, <2>0, <3>1
  <2>2. CASE i # 1 /\ j # 1
    <3>1. i - 1 \in 1 .. Len(rest) /\ j - 1 \in 1 .. Len(rest)
      BY <1>4, <1>6, <2>2
    <3>2. rest[i - 1] = rest[j - 1]
      BY <1>4, <1>6, <1>7, <2>2
    <3> QED
      BY <1>1, <1>4, <1>6, <3>1, <3>2
  <2> QED
    BY <2>1, <2>2
<1>8. ASSUME NEW i \in 1 .. Len(touched)
      PROVE  \/ touched[i] = name
             \/ \E j \in 1 .. Len(order) : touched[i] = order[j]
  BY <1>1, <1>4, <1>6
<1> QED
  BY <1>6, <1>7, <1>8 DEF touched

\* Putting a sound buffer under a name changes that entry and nothing else.
LEMMA PutCore ==
    ASSUME NEW m, ManagerCore(m), NEW name \in Names, NEW b, BufferOK(b)
    PROVE  /\ ManagerCore(Put(m, name, b))
           /\ Open(Put(m, name, b)) = Open(m) \cup {name}
           /\ Put(m, name, b).buffers[name] = b
           /\ \A n \in Open(m) \ {name} : Put(m, name, b).buffers[n] = m.buffers[n]
           /\ Put(m, name, b).current = m.current
           /\ Put(m, name, b).usage_order = m.usage_order
<1> DEFINE m2 == Put(m, name, b)
<1>1. /\ m2.buffers = [n \in Open(m) \cup {name} |->
                         IF n = name THEN b ELSE m.buffers[n]]
      /\ m2.usage_order = m.usage_order
      /\ m2.current = m.current
      /\ m2 = [buffers |-> m2.buffers, usage_order |-> m2.usage_order,
               current |-> m2.current]
  BY DEF Put, ManagerCore, IsManager
<1> HIDE DEF m2
<1>2. Open(m2) = Open(m) \cup {name}
  BY <1>1 DEF Open
<1>3. /\ m2.buffers[name] = b
      /\ \A n \in Open(m) \ {name} : m2.buffers[n] = m.buffers[n]
  BY <1>1
<1>4. BuffersOK(m2)
  BY <1>2, <1>3 DEF ManagerCore, BuffersOK
<1>5. IsManager(m2)
  BY <1>1, <1>2, <1>4 DEF ManagerCore, IsManager, BuffersOK, BufferOK, Open
<1>6. CurrentIsOpen(m2) /\ UniqueUsage(m2) /\ ListedAreOpen(m2)
  BY <1>1, <1>2 DEF ManagerCore, CurrentIsOpen, UniqueUsage, ListedAreOpen
<1> QED
  BY <1>1, <1>2, <1>3, <1>4, <1>5, <1>6 DEF ManagerCore, m2

LEMMA GetOrCreateCore ==
    ASSUME NEW m, ManagerCore(m), NEW name \in Names
    PROVE  /\ ManagerCore(GetOrCreate(m, name))
           /\ Open(GetOrCreate(m, name)) = Open(m) \cup {name}
           /\ \A n \in Open(m) : GetOrCreate(m, name).buffers[n] = m.buffers[n]
           /\ GetOrCreate(m, name).current = m.current
<1>1. CASE name \in Open(m)
  BY <1>1 DEF GetOrCreate
<1>2. CASE name \notin Open(m)
  BY <1>2, NewBufferOK, PutCore DEF GetOrCreate
<1> QED
  BY <1>1, <1>2

LEMMA SelectCore ==
    ASSUME NEW m, ManagerCore(m), NEW name \in Open(m)
    PROVE  /\ ManagerCore(Select(m, name))
           /\ Select(m, name).buffers = m.buffers
           /\ Select(m, name).current = name
<1> DEFINE m2 == Select(m, name)
<1>1. /\ m2.buffers = m.buffers
      /\ m2.usage_order = Touch(m.usage_order, name)
      /\ m2.current = name
      /\ m2 = [buffers |-> m2.buffers, usage_order |-> m2.usage_order,
               current |-> m2.current]
  BY DEF Select, ManagerCore, IsManager
<1> HIDE DEF m2
<1>2. name \in Names /\ m.usage_order \in Seq(Names)
  BY DEF ManagerCore, IsManager
<1>3. /\ m2.usage_order \in Seq(Names)
      /\ UniqueUsage(m2)
      /\ \A i \in 1 .. Len(m2.usage_order) :
           \/ m2.usage_order[i] = name
           \/ \E j \in 1 .. Len(m.usage_order) :
                m2.usage_order[i] = m.usage_order[j]
  <2>1. \A i, j \in 1 .. Len(m.usage_order) :
          m.usage_order[i] = m.usage_order[j] => i = j
    BY DEF ManagerCore, UniqueUsage
  <2> DEFINE order   == m.usage_order
             touched == Touch(order, name)
  <2>2. order \in Seq(Names) /\ name \in Names
    BY <1>2
  <2>3. \A i, j \in 1 .. Len(order) : order[i] = order[j] => i = j
    BY <2>1
  <2> HIDE DEF order
  <2>4. /\ touched \in Seq(Names)
        /\ \A i, j \in 1 .. Len(touched) : touched[i] = touched[j] => i = j
        /\ \A i \in 1 .. Len(touched) :
             \/ touched[i] = name
             \/ \E j \in 1 .. Len(order) : touched[i] = order[j]
    BY ONLY <2>2, <2>3, TouchProperties
  <2>5. m2.usage_order = touched
    BY <1>1 DEF order
  <2> QED
    BY <2>4, <2>5 DEF UniqueUsage, order
<1>4. ListedAreOpen(m2)
  BY <1>1, <1>3 DEF ManagerCore, ListedAreOpen, Open
<1>5. IsManager(m2) /\ BuffersOK(m2) /\ CurrentIsOpen(m2)
  BY <1>1, <1>2, <1>3 DEF ManagerCore, IsManager, BuffersOK, CurrentIsOpen, Open
<1> QED
  BY <1>1, <1>3, <1>4, <1>5 DEF ManagerCore, m2

LEMMA DropCore ==
    ASSUME NEW m, ManagerCore(m), NEW name \in Open(m), name # m.current
    PROVE  /\ ManagerCore(Drop(m, name))
           /\ Open(Drop(m, name)) = Open(m) \ {name}
           /\ \A n \in Open(m) \ {name} : Drop(m, name).buffers[n] = m.buffers[n]
           /\ Drop(m, name).current = m.current
<1> DEFINE m2 == Drop(m, name)
<1>1. /\ m2.buffers = [n \in Open(m) \ {name} |-> m.buffers[n]]
      /\ m2.usage_order = Without(m.usage_order, name)
      /\ m2.current = m.current
      /\ m2 = [buffers |-> m2.buffers, usage_order |-> m2.usage_order,
               current |-> m2.current]
  BY DEF Drop, ManagerCore, IsManager
<1> HIDE DEF m2
<1>2. /\ Open(m2) = Open(m) \ {name}
      /\ \A n \in Open(m) \ {name} : m2.buffers[n] = m.buffers[n]
  BY <1>1 DEF Open
<1>3. name \in Names /\ m.usage_order \in Seq(Names)
  BY DEF ManagerCore, IsManager
<1>4. /\ m2.usage_order \in Seq(Names)
      /\ UniqueUsage(m2)
      /\ \A i \in 1 .. Len(m2.usage_order) :
           /\ m2.usage_order[i] # name
           /\ \E j \in 1 .. Len(m.usage_order) :
                m2.usage_order[i] = m.usage_order[j]
  <2>1. \A i, j \in 1 .. Len(m.usage_order) :
          m.usage_order[i] = m.usage_order[j] => i = j
    BY DEF ManagerCore, UniqueUsage
  <2> DEFINE order == m.usage_order
             rest  == Without(order, name)
  <2>2. order \in Seq(Names) /\ name \in Names
    BY <1>3
  <2> HIDE DEF order
  <2>3. \A i, j \in 1 .. Len(order) : order[i] = order[j] => i = j
    BY <2>1 DEF order
  <2>4. /\ rest \in Seq(Names)
        /\ \A i, j \in 1 .. Len(rest) : rest[i] = rest[j] => i = j
        /\ \A i \in 1 .. Len(rest) :
             /\ rest[i] # name
             /\ \E j \in 1 .. Len(order) : rest[i] = order[j]
    BY ONLY <2>2, <2>3, WithoutProperties
  <2>5. m2.usage_order = rest
    BY <1>1 DEF order
  <2> HIDE DEF rest
  <2> QED
    BY <2>4, <2>5 DEF UniqueUsage, order
<1>5. ListedAreOpen(m2)
  BY <1>2, <1>4 DEF ManagerCore, ListedAreOpen
<1>6. BuffersOK(m2) /\ CurrentIsOpen(m2)
  BY <1>1, <1>2 DEF ManagerCore, BuffersOK, CurrentIsOpen
<1>7. IsManager(m2)
  BY <1>1, <1>2, <1>4, <1>6 DEF ManagerCore, IsManager, BuffersOK, BufferOK, Open
<1> QED
  BY <1>1, <1>2, <1>4, <1>5, <1>6, <1>7 DEF ManagerCore, m2

\* Core is ManagerOK but for the disposable buffers.
LEMMA ManagerParts ==
    ASSUME NEW m
    PROVE  ManagerOK(m) <=> ManagerCore(m) /\ TransientOnlyCurrent(m)
BY DEF ManagerOK, ManagerCore

LEMMA InitialManagerOK == ManagerOK(InitialManager)
<1> DEFINE m == InitialManager
<1>1. /\ m.buffers = [n \in {Zero} |-> NewBuffer]
      /\ m.usage_order = <<Zero>>
      /\ m.current = Zero
      /\ m = [buffers |-> m.buffers, usage_order |-> m.usage_order,
              current |-> m.current]
  BY DEF InitialManager
<1> HIDE DEF m
<1>2. Zero \in Names /\ BufferOK(NewBuffer) /\ NewBuffer \in BufferRecord
  BY NamesAssumption, NewBufferOK DEF BufferOK
<1>3. Open(m) = {Zero} /\ m.buffers[Zero] = NewBuffer
  BY <1>1 DEF Open
<1>4. /\ m.usage_order \in Seq(Names) /\ Len(m.usage_order) = 1
      /\ m.usage_order[1] = Zero
  BY <1>1, <1>2
<1>5. IsManager(m)
  BY <1>1, <1>2, <1>3, <1>4 DEF IsManager
<1>6. BuffersOK(m) /\ CurrentIsOpen(m) /\ TransientOnlyCurrent(m)
  BY <1>1, <1>2, <1>3
  DEF BuffersOK, CurrentIsOpen, TransientOnlyCurrent, Transient
<1>7. UniqueUsage(m) /\ ListedAreOpen(m)
  BY <1>3, <1>4 DEF UniqueUsage, ListedAreOpen
<1> QED
  BY <1>5, <1>6, <1>7 DEF ManagerOK, m

\* The current buffer may become anything sound: it is allowed to be empty.
LEMMA PutCurrentOK ==
    ASSUME NEW m, ManagerCore(m), NEW b, BufferOK(b)
    PROVE  /\ ManagerCore(PutCurrent(m, b))
           /\ TransientOnlyCurrent(m) => TransientOnlyCurrent(PutCurrent(m, b))
           /\ CurrentBuffer(PutCurrent(m, b)) = b
           /\ PutCurrent(m, b).current = m.current
           /\ Open(PutCurrent(m, b)) = Open(m)
           /\ \A n \in Open(m) \ {m.current} :
                PutCurrent(m, b).buffers[n] = m.buffers[n]
<1> DEFINE m2 == Put(m, m.current, b)
<1>1. m.current \in Names /\ m.current \in Open(m)
  BY DEF ManagerCore, IsManager, CurrentIsOpen
<1>2. /\ ManagerCore(m2) /\ Open(m2) = Open(m) \cup {m.current}
      /\ m2.buffers[m.current] = b
      /\ \A n \in Open(m) \ {m.current} : m2.buffers[n] = m.buffers[n]
      /\ m2.current = m.current
  BY <1>1, PutCore
<1> HIDE DEF m2
<1>3. TransientOnlyCurrent(m) => TransientOnlyCurrent(m2)
  BY <1>1, <1>2 DEF TransientOnlyCurrent, Transient
<1>4. CurrentBuffer(m2) = b
  BY <1>2 DEF CurrentBuffer
<1> QED
  BY <1>1, <1>2, <1>3, <1>4 DEF PutCurrent, m2

\* No disposable buffer is left behind by a change of the current one.
LEMMA PutCurrentTidy ==
    ASSUME NEW m, ManagerCore(m), TransientOnlyCurrent(m), NEW b
    PROVE  TransientOnlyCurrent(PutCurrent(m, b))
<1> DEFINE m2 == PutCurrent(m, b)
<1>1. m.current \in Open(m)
  BY DEF ManagerCore, CurrentIsOpen
<1>2. /\ m2.buffers = [n \in Open(m) \cup {m.current} |->
                         IF n = m.current THEN b ELSE m.buffers[n]]
      /\ m2.current = m.current
  BY DEF PutCurrent, Put, ManagerCore, IsManager
<1> HIDE DEF m2
<1>3. /\ Open(m2) = Open(m)
      /\ \A n \in Open(m) \ {m.current} : m2.buffers[n] = m.buffers[n]
  BY <1>1, <1>2 DEF Open
<1>4. TransientOnlyCurrent(m2)
  BY <1>2, <1>3 DEF TransientOnlyCurrent, Transient
<1> QED
  BY <1>4 DEF m2

\* Another buffer may become anything sound that leaving would not drop.
LEMMA PutLastingTidy ==
    ASSUME NEW m, ManagerCore(m), NEW name \in Names, NEW b, BufferOK(b),
           Lasting(b),
           \A n \in Open(m) : Transient(m, n) => n = m.current \/ n = name
    PROVE  TransientOnlyCurrent(Put(m, name, b))
<1> DEFINE m2 == Put(m, name, b)
<1>1. /\ Open(m2) = Open(m) \cup {name}
      /\ m2.buffers[name] = b
      /\ \A n \in Open(m) \ {name} : m2.buffers[n] = m.buffers[n]
      /\ m2.current = m.current
  BY PutCore
<1> HIDE DEF m2
<1>2. TransientOnlyCurrent(m2)
  BY <1>1 DEF TransientOnlyCurrent, Transient, Lasting
<1> QED
  BY <1>2 DEF m2

\* Leaving a buffer: the new one is current, the old one is gone if it was
\* disposable, and every other buffer is untouched.
LEMMA CreateOrSelectOK ==
    ASSUME NEW m, ManagerCore(m), NEW name \in Names
    PROVE  /\ ManagerCore(CreateOrSelect(m, name))
           /\ TransientOnlyCurrent(m) =>
                TransientOnlyCurrent(CreateOrSelect(m, name))
           /\ CreateOrSelect(m, name).current = name
           /\ \A n \in Open(m) :
                ~Transient(m, n) =>
                    /\ n \in Open(CreateOrSelect(m, name))
                    /\ CreateOrSelect(m, name).buffers[n] = m.buffers[n]
<1> DEFINE m1 == GetOrCreate(m, name)
           m2 == Select(m1, name)
           m3 == CreateOrSelect(m, name)
           leave == m.current # name /\ Transient(m, m.current)
<1>1. m.current \in Open(m)
  BY DEF ManagerCore, CurrentIsOpen
<1>2. /\ ManagerCore(m1) /\ Open(m1) = Open(m) \cup {name}
      /\ \A n \in Open(m) : m1.buffers[n] = m.buffers[n]
  BY GetOrCreateCore
<1>3. m3 = IF leave THEN Drop(m2, m.current) ELSE m2
  BY DEF CreateOrSelect
<1> HIDE DEF m1, m3
<1>4. /\ ManagerCore(m2) /\ m2.buffers = m1.buffers /\ m2.current = name
  BY <1>2, SelectCore
<1> HIDE DEF m2
<1>5. /\ Open(m2) = Open(m) \cup {name}
      /\ \A n \in Open(m) : m2.buffers[n] = m.buffers[n]
  BY <1>2, <1>4 DEF Open
<1>6. \A n \in Open(m) : Transient(m2, n) <=> Transient(m, n)
  BY <1>5 DEF Transient
<1>7. CASE leave
  <2>1. /\ ManagerCore(m3) /\ Open(m3) = Open(m2) \ {m.current}
        /\ \A n \in Open(m2) \ {m.current} : m3.buffers[n] = m2.buffers[n]
        /\ m3.current = name
    BY <1>1, <1>3, <1>4, <1>5, <1>7, DropCore
  <2>2. ASSUME TransientOnlyCurrent(m), NEW n \in Open(m3), Transient(m3, n)
        PROVE  n = m3.current
    <3>1. n \in Open(m2) \ {m.current} /\ Transient(m2, n)
      BY <2>1, <2>2 DEF Transient
    <3> QED
      BY <1>1, <1>5, <1>6, <2>1, <2>2, <3>1 DEF TransientOnlyCurrent
  <2>3. TransientOnlyCurrent(m) => TransientOnlyCurrent(m3)
    BY <2>2 DEF TransientOnlyCurrent
  <2> QED
    BY <1>5, <1>7, <2>1, <2>3 DEF m3
<1>8. CASE ~leave
  <2>1. m3 = m2
    BY <1>3, <1>8
  <2>2. TransientOnlyCurrent(m) => TransientOnlyCurrent(m2)
    BY <1>1, <1>4, <1>5, <1>6, <1>8 DEF TransientOnlyCurrent
  <2> QED
    BY <1>4, <1>5, <2>1, <2>2 DEF m3
<1> QED
  BY <1>7, <1>8

=============================================================================

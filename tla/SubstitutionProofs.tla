------------------------- MODULE SubstitutionProofs -------------------------
(***************************************************************************)
(* Patterns and S, for every alphabet, every set of patterns of bounded    *)
(* length, every line and every replacement.                               *)
(*                                                                         *)
(* The parser answers with a tree for each pattern it accepts              *)
(* (PatternRead).  For each tree the matcher finds the ends of the texts   *)
(* that the tree stands for (EndsAreWhatTreesStandFor): the sets of        *)
(* positions of a sequence are the ways to cut the text, those of a        *)
(* repetition the least set that its operand leads no further from, and    *)
(* the rest is induction over the height of the tree.  From both, the loop *)
(* of substitute_all() keeps Searched: what lies before searchFrom is      *)
(* written as it should be.                                                *)
(***************************************************************************)
EXTENDS PatternMeaning, Recursion, FiniteSetTheorems

-----------------------------------------------------------------------------
(* The trees. No recursive definition is taken on trust: each is shown   *)
(* to have a solution before its equation is used.                       *)

\* The trees of height n or less.
Height(n) == TreesByHeight[n]

\* TreesByHeight is a recursive function that exists: the trees of height n are made
\* of those of height n - 1.
LEMMA TreesOfHeight ==
    ASSUME NEW n \in 0 .. LongestPattern
    PROVE  Height(n) = TreesOver(IF n = 0 THEN {} ELSE Height(n - 1))
<1> DEFINE T == 0 .. LongestPattern
           Body(f, i) == TreesOver(IF i = 0 THEN {} ELSE f[i - 1])
           Good(k, f) == \A i \in 0 .. k : f[i] = Body(f, i)
           S == { k \in T : \E f : Good(k, f) }
<1>0. LongestPattern \in Nat
  BY PatternMatcherAssumption
<1>1. 0 \in S
  <2> DEFINE g == [i \in T |-> TreesOver({})]
  <2>2. \A i \in 0 .. 0 : g[i] = Body(g, i)
    <3>1. 0 \in T /\ g[0] = TreesOver({}) /\ Body(g, 0) = TreesOver({})
      BY <1>0
    <3> QED
      BY <3>1
  <2>3. Good(0, g)
    BY <2>2
  <2> HIDE DEF Good, g
  <2> QED
    BY <1>0, <2>3
<1>2. ASSUME NEW k \in 1 .. LongestPattern, k - 1 \in S
      PROVE  k \in S
  <2>1. PICK f : Good(k - 1, f)
    BY <1>2
  <2> DEFINE g == [i \in T |-> IF i = k THEN Body(f, k) ELSE f[i]]
  <2>3. ASSUME NEW i \in 0 .. k PROVE g[i] = Body(g, i)
    <3>1. k \in T /\ i \in T
      BY <1>0, <1>2
    <3>2. i # 0 => i - 1 \in T /\ i - 1 # k /\ g[i - 1] = f[i - 1]
      BY <1>0, <1>2, <3>1
    <3>3. Body(g, i) = Body(f, i)
      <4> HIDE DEF g
      <4>1. (IF i = 0 THEN {} ELSE g[i - 1]) = (IF i = 0 THEN {} ELSE f[i - 1])
        BY <3>2
      <4> QED
        BY <4>1
    <3>4. i # k => f[i] = Body(f, i)
      <4>1. i # k => i \in 0 .. k - 1
        BY <1>0, <1>2
      <4> HIDE DEF Body, g
      <4> QED
        BY <2>1, <4>1
    <3>5. g[i] = Body(f, i)
      <4> HIDE DEF Body
      <4> QED
        BY <3>1, <3>4
    <3> QED
      BY <3>3, <3>5
  <2> HIDE DEF g
  <2>4. Good(k, g)
    BY <2>3
  <2> HIDE DEF Good
  <2> QED
    BY <1>0, <2>4
<1>3. \A k \in T : k \in S
  <2> HIDE DEF S
  <2> QED
    BY <1>0, <1>1, <1>2, BoundedInduction
<1>4. \E f : f = [i \in T |-> Body(f, i)]
  <2>1. PICK f : Good(LongestPattern, f)
    BY <1>0, <1>3
  <2> DEFINE h == [i \in T |-> f[i]]
  <2>2. ASSUME NEW i \in T PROVE f[i] = Body(h, i)
    <3>1. i # 0 => i - 1 \in T /\ h[i - 1] = f[i - 1]
      BY <1>0
    <3>2. Body(h, i) = Body(f, i)
      <4> HIDE DEF h
      <4>1. (IF i = 0 THEN {} ELSE h[i - 1]) = (IF i = 0 THEN {} ELSE f[i - 1])
        BY <3>1
      <4> QED
        BY <4>1
    <3> HIDE DEF Body, h
    <3> QED
      BY <1>0, <2>1, <3>2
  <2>3. h = [i \in T |-> Body(h, i)]
    <3> HIDE DEF Body
    <3> QED
      BY <2>2
  <2> HIDE DEF h
  <2> QED
    BY <2>3
<1>5. TreesByHeight = [i \in T |-> Body(TreesByHeight, i)]
  BY <1>4 DEF TreesByHeight
<1>6. TreesByHeight[n] = Body(TreesByHeight, n)
  <2> HIDE DEF Body
  <2> QED
    BY <1>5
<1> QED
  BY <1>6 DEF Height

\* What is made of more parts is more.
LEMMA TreesGrow ==
    ASSUME NEW A, NEW B, A \subseteq B
    PROVE  TreesOver(A) \subseteq TreesOver(B)
<1>1. Seq(A) \subseteq Seq(B)
  OBVIOUS
<1> QED
  BY <1>1 DEF TreesOver

\* A tree of some height counts as one of every greater height.
LEMMA HeightsGrow ==
    ASSUME NEW m \in 0 .. LongestPattern, NEW n \in 0 .. m
    PROVE  Height(n) \subseteq Height(m)
<1> DEFINE S == { k \in 0 .. LongestPattern : \A i \in 0 .. k : Height(i) \subseteq Height(k) }
<1>0. LongestPattern \in Nat
  BY PatternMatcherAssumption
<1>1. 0 \in S
  BY <1>0
<1>2. ASSUME NEW k \in 1 .. LongestPattern, k - 1 \in S
      PROVE  k \in S
  <2>1. Height(k - 1) \subseteq Height(k)
    <3>1. k \in 0 .. LongestPattern /\ k - 1 \in 0 .. LongestPattern
          /\ (k - 1 # 0 => (k - 1) - 1 \in 0 .. k - 1)
      BY <1>0, <1>2
    <3>2. Height(k) = TreesOver(Height(k - 1))
      BY <3>1, TreesOfHeight
    <3>3. Height(k - 1) = TreesOver(IF k - 1 = 0 THEN {} ELSE Height((k - 1) - 1))
      BY <3>1, TreesOfHeight
    <3>4. (IF k - 1 = 0 THEN {} ELSE Height((k - 1) - 1)) \subseteq Height(k - 1)
      BY <1>2, <3>1
    <3> QED
      BY <3>2, <3>3, <3>4, TreesGrow
  <2>2. ASSUME NEW i \in 0 .. k PROVE Height(i) \subseteq Height(k)
    <3>1. i = k \/ i \in 0 .. k - 1
      OBVIOUS
    <3> QED
      BY <1>2, <2>1, <3>1
  <2> QED
    BY <2>2
<1>3. \A k \in 0 .. LongestPattern : k \in S
  <2> HIDE DEF S
  <2> QED
    BY <1>0, <1>1, <1>2, BoundedInduction
<1> QED
  BY <1>3

-----------------------------------------------------------------------------
(* Reading the characters of a pattern.                                  *)

\* What is typed.
SourceCharacters == [value : Bytes, as : Interpretations]
IsSource(s) == s \in Seq(SourceCharacters) /\ Len(s) <= LongestPattern

\* Every character of a source has a byte and an interpretation.
LEMMA SourceCharacter ==
    ASSUME NEW s, IsSource(s), NEW p \in 1 .. Len(s)
    PROVE  s[p] \in SourceCharacters /\ s[p].value \in Bytes
<1>1. s[p] \in SourceCharacters
  BY DEF IsSource
<1> QED
  BY <1>1 DEF SourceCharacters

\* The answers of a rule that reads a V and stops between two places.
Results(V, from, to) == { Refused } \cup [ok : {TRUE}, node : V, next : from .. to]

\* A result that is not refused has a value and the place behind it.
LEMMA ReadIsResult ==
    ASSUME NEW V, NEW from, NEW to, NEW r \in Results(V, from, to), r.ok
    PROVE  r \in [ok : {TRUE}, node : V, next : from .. to]
<1>1. r # Refused
  <2>1. ~Refused.ok
    BY DEF Refused
  <2> QED
    BY <2>1, Zenon
<1> QED
  BY <1>1, Zenon DEF Results

\* Parsed makes a result.
LEMMA ParsedIsResult ==
    ASSUME NEW V, NEW from, NEW to, NEW v \in V, NEW n \in from .. to
    PROVE  Parsed(v, n) \in Results(V, from, to)
<1>1. Parsed(v, n) \in [ok : {TRUE}, node : V, next : from .. to]
  BY DEF Parsed
<1> QED
  BY <1>1, Zenon DEF Results

\* So does a throw.
LEMMA RefusedIsResult ==
    ASSUME NEW V, NEW from, NEW to
    PROVE  Refused \in Results(V, from, to)
BY DEF Results

\* A character that is looked at and found is inside the source.
LEMMA AheadIsInside ==
    ASSUME NEW s, IsSource(s), NEW p \in Nat \ {0}, NEW v, Ahead(s, p, v)
    PROVE  p \in 1 .. Len(s) /\ s[p].value = v /\ v \in Bytes
<1>1. p \in 1 .. Len(s) /\ s[p].value = v
  BY DEF Ahead, IsSpecial, AtEnd, IsSource
<1> QED
  BY <1>1, SourceCharacter

\* The character of a class that parse_character_class() (PatternParser.cpp) reads is a byte,
\* and it goes forward.
LEMMA ClassCharacterRead ==
    ASSUME NEW s, IsSource(s), NEW p \in Nat \ {0}
    PROVE  ClassCharacter(s, p) \in Results(Bytes, p + 1, Len(s) + 1)
<1> DEFINE q == IF Ahead(s, p, "\\") THEN p + 1 ELSE p
<1>1. Len(s) \in Nat
  BY DEF IsSource
<1>2. CASE AtEnd(s, p) \/ Ahead(s, p, "]") \/ AtEnd(s, q)
  BY <1>2, RefusedIsResult DEF ClassCharacter
<1>3. CASE ~(AtEnd(s, p) \/ Ahead(s, p, "]") \/ AtEnd(s, q))
  <2>0. q = p \/ q = p + 1
    OBVIOUS
  <2>1. q \in 1 .. Len(s) /\ q + 1 \in p + 1 .. Len(s) + 1
    <3> HIDE DEF q
    <3> QED
      BY <1>1, <1>3, <2>0 DEF AtEnd
  <2>2. s[q].value \in Bytes
    <3> HIDE DEF q
    <3> QED
      BY <2>1, SourceCharacter
  <2>3. ClassCharacter(s, p) = Parsed(s[q].value, q + 1)
    BY <1>3 DEF ClassCharacter
  <2> HIDE DEF q
  <2> QED
    BY <2>1, <2>2, <2>3, ParsedIsResult
<1> QED
  BY <1>2, <1>3

\* One range of a class has two bytes, and is read forward.
LEMMA RangeRead ==
    ASSUME NEW s, IsSource(s), NEW p \in Nat \ {0}
    PROVE  RangeAt(s, p) \in Results(Bytes \X Bytes, p + 1, Len(s) + 1)
<1> DEFINE first == ClassCharacter(s, p)
           isRange == /\ Ahead(s, first.next, "-")
                      /\ ~AtEnd(s, first.next + 1)
                      /\ ~Ahead(s, first.next + 1, "]")
           last == IF isRange THEN ClassCharacter(s, first.next + 1) ELSE first
<1>1. RangeAt(s, p) = IF ~first.ok THEN Refused
                      ELSE IF ~last.ok THEN Refused
                      ELSE Parsed(<<first.node, last.node>>, last.next)
  BY DEF RangeAt
<1>2. CASE first.ok /\ last.ok
  <2>1. first \in [ok : {TRUE}, node : Bytes, next : p + 1 .. Len(s) + 1]
    BY <1>2, ClassCharacterRead, ReadIsResult
  <2>2. last.ok => last \in [ok : {TRUE}, node : Bytes, next : p + 1 .. Len(s) + 1]
    <3>1. CASE isRange
      <4>1. Len(s) \in Nat
        BY DEF IsSource
      <4>2. first.next + 1 \in Nat \ {0} /\ first.next + 1 > p
        BY <2>1, <4>1
      <4>3. last = ClassCharacter(s, first.next + 1)
        BY <3>1
      <4> HIDE DEF first, last, isRange
      <4>4. last \in Results(Bytes, (first.next + 1) + 1, Len(s) + 1)
        BY <4>2, <4>3, ClassCharacterRead
      <4>5. last.ok => last \in [ok : {TRUE}, node : Bytes, next : (first.next + 1) + 1 .. Len(s) + 1]
        BY <4>4, ReadIsResult
      <4>6. (first.next + 1) + 1 .. Len(s) + 1 \subseteq p + 1 .. Len(s) + 1
        BY <4>1, <4>2
      <4> QED
        BY <4>5, <4>6
    <3>2. CASE ~isRange
      <4>1. last = first
        BY <3>2
      <4> HIDE DEF first, last, isRange
      <4> QED
        BY <2>1, <4>1
    <3> QED
      BY <3>1, <3>2
  <2> HIDE DEF first, last, isRange
  <2>3. /\ <<first.node, last.node>> \in Bytes \X Bytes
        /\ last.next \in p + 1 .. Len(s) + 1
    BY <1>2, <2>1, <2>2
  <2>4. RangeAt(s, p) = Parsed(<<first.node, last.node>>, last.next)
    BY <1>1, <1>2
  <2> QED
    BY <2>3, <2>4, ParsedIsResult
<1>3. CASE ~(first.ok /\ last.ok)
  <2> HIDE DEF first, last
  <2>1. RangeAt(s, p) = Refused
    BY <1>1, <1>3
  <2> QED
    BY <2>1, RefusedIsResult
<1> QED
  BY <1>2, <1>3

\* What parse_character_class() reads.
Ranges == Seq(Bytes \X Bytes)

\* What a step needs of the others is what stands behind its place.
LEMMA RangesRead ==
    ASSUME NEW s, IsSource(s), NEW p \in Places(s), NEW ranges,
           \A q \in Places(s) : q > p => ranges[q] \in Results(Ranges, q, Len(s) + 1)
    PROVE  RangesAt(s, ranges, p) \in Results(Ranges, p, Len(s) + 1)
<1>0. Len(s) \in Nat /\ p \in Nat \ {0} /\ p <= Len(s) + 1
  BY DEF IsSource, Places
<1>1. CASE AtEnd(s, p) \/ Ahead(s, p, "]")
  <2>1. <<>> \in Ranges /\ p \in p .. Len(s) + 1
    BY <1>0 DEF Ranges
  <2> QED
    BY <1>1, <2>1, ParsedIsResult DEF RangesAt
<1>2. CASE ~(AtEnd(s, p) \/ Ahead(s, p, "]")) /\ RangeAt(s, p).ok
  <2> DEFINE first == RangeAt(s, p)
             others == ranges[first.next]
  <2>1. first \in [ok : {TRUE}, node : Bytes \X Bytes, next : p + 1 .. Len(s) + 1]
    BY <1>0, <1>2, RangeRead, ReadIsResult
  <2>2. RangesAt(s, ranges, p) = InFront(first, others)
    BY <1>2 DEF RangesAt, RangesBehind
  <2>3. first.next \in Places(s) /\ first.next > p
    BY <1>0, <2>1 DEF Places
  <2>4. others \in Results(Ranges, first.next, Len(s) + 1)
    BY <2>3
  <2> HIDE DEF first, others
  <2>5. CASE others.ok
    <3>1. others \in [ok : {TRUE}, node : Ranges, next : first.next .. Len(s) + 1]
      BY <2>4, <2>5, ReadIsResult
    <3>2. <<first.node>> \o others.node \in Ranges
      BY <2>1, <3>1 DEF Ranges
    <3>3. others.next \in p .. Len(s) + 1
      BY <1>0, <2>3, <3>1 DEF Places
    <3> QED
      BY <2>2, <2>5, <3>2, <3>3, ParsedIsResult DEF InFront
  <2>6. CASE ~others.ok
    BY <2>2, <2>6, RefusedIsResult DEF InFront
  <2> QED
    BY <2>5, <2>6
<1>3. CASE ~(AtEnd(s, p) \/ Ahead(s, p, "]")) /\ ~RangeAt(s, p).ok
  BY <1>3, RefusedIsResult DEF RangesAt, RangesBehind
<1> QED
  BY <1>1, <1>2, <1>3

\* Reading ranges looks only at ranges read further on.
LEMMA RangesNeedLater ==
    ASSUME NEW s, IsSource(s), NEW p \in Places(s), NEW f, NEW g,
           \A q \in Places(s) : q > p => f[q] = g[q]
    PROVE  RangesAt(s, f, p) = RangesAt(s, g, p)
<1>0. Len(s) \in Nat /\ p \in Nat \ {0} /\ p <= Len(s) + 1
  BY DEF IsSource, Places
<1>1. ASSUME RangeAt(s, p).ok PROVE f[RangeAt(s, p).next] = g[RangeAt(s, p).next]
  <2> DEFINE first == RangeAt(s, p)
  <2>1. first \in Results(Bytes \X Bytes, p + 1, Len(s) + 1)
    BY <1>0, RangeRead
  <2> HIDE DEF first
  <2>2. first \in [ok : {TRUE}, node : Bytes \X Bytes, next : p + 1 .. Len(s) + 1]
    BY <1>1, <2>1, ReadIsResult DEF first
  <2>3. f[first.next] = g[first.next]
    BY <1>0, <2>2 DEF Places
  <2> QED
    BY <2>3 DEF first
<1> QED
  BY <1>1 DEF RangesAt, RangesBehind

\* The loop of parse_character_class() comes to its end: the ranges from any place are a list of
\* pairs of bytes.
LEMMA ClassRangesRead ==
    ASSUME NEW s, IsSource(s), NEW p \in Places(s)
    PROVE  ClassRanges(s)[p] \in Results(Ranges, p, Len(s) + 1)
<1> DEFINE T == Places(s)
           L == Len(s) + 1
           Typed(f, i) == f[i] \in Results(Ranges, i, Len(s) + 1)
           Good(k, f) == \A i \in T : i > L - k => f[i] = RangesAt(s, f, i) /\ Typed(f, i)
           S == { k \in 0 .. L : \E f : Good(k, f) }
<1>0. Len(s) \in Nat /\ L \in Nat /\ T = 1 .. L
  BY DEF IsSource, Places
<1>1. 0 \in S
  <2>1. \A f : Good(0, f)
    BY <1>0
  <2> HIDE DEF Good
  <2> QED
    BY <1>0, <2>1
<1>2. ASSUME NEW k \in 1 .. L, k - 1 \in S
      PROVE  k \in S
  <2>1. PICK f : Good(k - 1, f)
    BY <1>2
  <2> DEFINE j == L - (k - 1)
             g == [i \in T |-> IF i = j THEN RangesAt(s, f, j) ELSE f[i]]
  <2>2. j \in T
    BY <1>0
  <2>3. \A i \in T : i > j => g[i] = f[i] /\ f[i] = RangesAt(s, f, i) /\ Typed(f, i)
    BY <1>0, <2>1
  <2>4. g[j] = RangesAt(s, f, j)
    BY <2>2
  <2>5. RangesAt(s, f, j) \in Results(Ranges, j, Len(s) + 1)
    <3> HIDE DEF g, j
    <3> QED
      BY <2>2, <2>3, RangesRead
  <2>6. ASSUME NEW i \in T, i >= j PROVE RangesAt(s, g, i) = RangesAt(s, f, i)
    <3>1. \A q \in T : q > i => g[q] = f[q]
      BY <1>0, <2>2, <2>3, <2>6
    <3> HIDE DEF g
    <3> QED
      BY <3>1, RangesNeedLater
  <2>7. ASSUME NEW i \in T, i > L - k PROVE g[i] = RangesAt(s, g, i) /\ Typed(g, i)
    <3>1. i = j \/ i > j
      BY <1>0, <2>7
    <3>2. RangesAt(s, g, i) = RangesAt(s, f, i)
      BY <1>0, <2>6, <3>1
    <3> HIDE DEF g
    <3> QED
      BY <2>3, <2>4, <2>5, <3>1, <3>2
  <2>8. Good(k, g)
    <3> HIDE DEF g, j, Typed
    <3> QED
      BY <2>7
  <2> HIDE DEF g, j, Good
  <2> QED
    BY <1>0, <2>8
<1>3. \A k \in 0 .. L : k \in S
  <2> HIDE DEF S
  <2> QED
    BY <1>0, <1>1, <1>2, BoundedInduction
<1>4. PICK f : Good(L, f)
  <2>1. L \in S
    BY <1>0, <1>3
  <2> HIDE DEF Good
  <2> QED
    BY <2>1
<1> DEFINE h == [i \in T |-> f[i]]
<1>5. ASSUME NEW i \in T PROVE f[i] = RangesAt(s, h, i) /\ Typed(f, i)
  <2>1. \A q \in T : q > i => h[q] = f[q]
    OBVIOUS
  <2>2. RangesAt(s, h, i) = RangesAt(s, f, i)
    <3> HIDE DEF h
    <3> QED
      BY <2>1, RangesNeedLater
  <2>3. i > L - L
    BY <1>0
  <2> QED
    BY <1>4, <2>2, <2>3
<1>6. h = [i \in T |-> RangesAt(s, h, i)]
  BY <1>5
<1>7. \E r : r = [i \in T |-> RangesAt(s, r, i)]
  <2> HIDE DEF h
  <2> QED
    BY <1>6
<1>8. ClassRanges(s) = [i \in T |-> RangesAt(s, ClassRanges(s), i)]
  BY <1>7 DEF ClassRanges
<1> DEFINE D == { k \in 0 .. L : \A i \in T : i > L - k => Typed(ClassRanges(s), i) }
<1>9. 0 \in D
  BY <1>0
<1>10. ASSUME NEW k \in 1 .. L, k - 1 \in D
       PROVE  k \in D
  <2> DEFINE j == L - (k - 1)
  <2>1. j \in T /\ \A q \in T : q > j => Typed(ClassRanges(s), q)
    BY <1>0, <1>10
  <2>2. ClassRanges(s)[j] = RangesAt(s, ClassRanges(s), j)
    <3> HIDE DEF j
    <3> QED
      BY <1>8, <2>1
  <2>3. Typed(ClassRanges(s), j)
    <3> HIDE DEF j
    <3> QED
      BY <2>1, <2>2, RangesRead
  <2>4. \A i \in T : i > L - k => i = j \/ i > j
    BY <1>0
  <2> HIDE DEF j, Typed
  <2> QED
    BY <2>1, <2>3, <2>4
<1>11. \A k \in 0 .. L : k \in D
  <2> HIDE DEF D
  <2> QED
    BY <1>0, <1>9, <1>10, BoundedInduction
<1>12. p \in T /\ p > L - L
  BY <1>0
<1>13. Typed(ClassRanges(s), p)
  <2> HIDE DEF Typed
  <2> QED
    BY <1>0, <1>11, <1>12
<1> QED
  BY <1>13

-----------------------------------------------------------------------------
(* What each rule of the parser answers, if the lists behind it are      *)
(* good.                                                                 *)

\* Every node the parser builds is a tree when its parts are trees.
LEMMA NodesAreTrees ==
    ASSUME NEW A
    PROVE  /\ \A v \in Bytes : LiteralNode(v) \in TreesOver(A)
           /\ AnyCharacter \in TreesOver(A)
           /\ StartOfLine \in TreesOver(A)
           /\ EndOfLine \in TreesOver(A)
           /\ \A negated \in BOOLEAN, ranges \in Ranges :
                 CharacterClass(negated, ranges) \in TreesOver(A)
           /\ \A list \in Seq(A) : SequenceOf(list) \in TreesOver(A)
           /\ \A list \in Seq(A) : AlternationOf(list) \in TreesOver(A)
           /\ \A tree \in A, type \in {"*", "+"} : Repetition(tree, type) \in TreesOver(A)
           /\ \A tree \in A : Group(tree) \in TreesOver(A)
<1>1. \A v \in Bytes : LiteralNode(v) \in TreesOver(A)
  BY DEF LiteralNode, TreesOver
<1>2. /\ AnyCharacter \in TreesOver(A)
      /\ StartOfLine \in TreesOver(A)
      /\ EndOfLine \in TreesOver(A)
  BY Zenon DEF TreesOver
<1>3. \A negated \in BOOLEAN, ranges \in Ranges :
          CharacterClass(negated, ranges) \in TreesOver(A)
  <2> SUFFICES ASSUME NEW negated \in BOOLEAN, NEW ranges \in Seq(Bytes \X Bytes)
               PROVE  CharacterClass(negated, ranges) \in TreesOver(A)
    BY Zenon DEF Ranges
  <2>1. CharacterClass(negated, ranges)
          \in [kind : {"class"}, negated : BOOLEAN, ranges : Seq(Bytes \X Bytes)]
    BY DEF CharacterClass
  <2> QED
    BY <2>1, Zenon DEF TreesOver
<1>4. ASSUME NEW list \in Seq(A)
      PROVE  SequenceOf(list) \in TreesOver(A) /\ AlternationOf(list) \in TreesOver(A)
  <2>1. /\ SequenceOf(list) \in [kind : {"sequence"}, elements : Seq(A)]
        /\ AlternationOf(list) \in [kind : {"alternation"}, alternatives : Seq(A)]
    BY DEF SequenceOf, AlternationOf
  <2> QED
    BY <2>1, Zenon DEF TreesOver
<1>5. ASSUME NEW tree \in A, NEW type \in {"*", "+"}
      PROVE  Repetition(tree, type) \in TreesOver(A)
  <2>1. Repetition(tree, type) \in [kind : {"repetition"}, operand : A, type : {"*", "+"}]
    BY DEF Repetition
  <2> QED
    BY <2>1, Zenon DEF TreesOver
<1>6. ASSUME NEW tree \in A PROVE Group(tree) \in TreesOver(A)
  <2>1. Group(tree) \in [kind : {"group"}, expression : A]
    BY DEF Group
  <2> QED
    BY <2>1, Zenon DEF TreesOver
<1> QED
  BY <1>1, <1>2, <1>3, <1>4, <1>5, <1>6, Zenon

\* One more level makes trees of trees.
LEMMA HigherTrees ==
    ASSUME NEW n \in 1 .. LongestPattern
    PROVE  /\ Height(n) = TreesOver(Height(n - 1))
           /\ Height(n - 1) \subseteq Height(n)
<1>1. n \in 0 .. LongestPattern /\ n # 0 /\ n - 1 \in 0 .. n
  BY PatternMatcherAssumption
<1> QED
  BY <1>1, TreesOfHeight, HeightsGrow

\* The results of the rules, by the characters they take: a tree is no higher
\* than that.
AtomOK(s, p, r) ==
    \/ r = Refused
    \/ \E node, next : /\ r = Parsed(node, next)
                       /\ next \in p + 1 .. Len(s) + 1
                       /\ node \in Height((next - p) - 1)

TreeOK(s, p, r) ==
    \/ r = Refused
    \/ \E node, next : /\ r = Parsed(node, next)
                       /\ next \in p .. Len(s) + 1
                       /\ node \in Height(next - p)

ElementsOK(s, p, r) ==
    \/ r = Refused
    \/ \E list, next : /\ r = Parsed(list, next)
                       /\ next \in p .. Len(s) + 1
                       /\ \/ list = <<>>
                          \/ next > p /\ list \in Seq(Height((next - p) - 1))

AlternativesOK(s, p, r) ==
    \/ r = Refused
    \/ \E list, next : /\ r = Parsed(list, next)
                       /\ next \in p .. Len(s) + 1
                       /\ Len(list) >= 1
                       /\ \/ Len(list) = 1 /\ list \in Seq(Height(next - p))
                          \/ next > p /\ list \in Seq(Height((next - p) - 1))

\* The fields of a result.
LEMMA ParsedFields ==
    ASSUME NEW node, NEW next
    PROVE  Parsed(node, next).ok /\ Parsed(node, next).node = node /\ Parsed(node, next).next = next
BY DEF Parsed

\* A list that is not empty has a first member.
LEMMA FirstOfList ==
    ASSUME NEW A, NEW list \in Seq(A), Len(list) >= 1
    PROVE  list[1] \in A
OBVIOUS

\* Refused is not accepted.
LEMMA RefusedNotOk == ~Refused.ok
BY DEF Refused

\* No place of a source is further on than the trees are high.
LEMMA PlaceHeights ==
    ASSUME NEW s, IsSource(s), NEW p \in Places(s), NEW next \in p .. Len(s) + 1
    PROVE  /\ next - p \in 0 .. LongestPattern
           /\ next > p => next - p \in 1 .. LongestPattern /\ (next - p) - 1 \in 0 .. LongestPattern
           /\ p \in Nat \ {0} /\ next \in Nat \ {0} /\ Len(s) \in Nat
           /\ next \in Places(s)
<1>1. Len(s) \in Nat /\ Len(s) <= LongestPattern /\ LongestPattern \in Nat
  BY PatternMatcherAssumption DEF IsSource
<1> QED
  BY <1>1 DEF Places

\* parse_character_class() answers with an atom, or throws.
LEMMA ClassRead ==
    ASSUME NEW s, IsSource(s), NEW p \in 1 .. Len(s)
    PROVE  AtomOK(s, p, ParseClass(s, p))
<1> DEFINE negated == Ahead(s, p + 1, "^")
           q == IF negated THEN p + 2 ELSE p + 1
           inside == ClassRanges(s)[q]
<1>0. Len(s) \in Nat /\ Len(s) <= LongestPattern /\ LongestPattern \in Nat
  BY PatternMatcherAssumption DEF IsSource
<1>1. ParseClass(s, p) = ClassOf(s, negated, inside)
  BY DEF ParseClass
<1>2. q \in Places(s) /\ q > p
  <2>1. negated => p + 1 \in 1 .. Len(s)
    BY <1>0, AheadIsInside
  <2>2. (q = p + 2 /\ negated) \/ q = p + 1
    OBVIOUS
  <2> HIDE DEF q, negated
  <2> QED
    BY <1>0, <2>1, <2>2 DEF Places
<1>3. inside \in Results(Ranges, q, Len(s) + 1)
  <2> HIDE DEF q
  <2> QED
    BY <1>2, ClassRangesRead
<1>4. negated \in BOOLEAN
  BY DEF Ahead
<1> HIDE DEF negated, q, inside
<1>5. CASE inside.ok /\ Ahead(s, inside.next, "]") /\ inside.node # <<>>
  <2>1. inside \in [ok : {TRUE}, node : Ranges, next : q .. Len(s) + 1]
    BY <1>3, <1>5, ReadIsResult
  <2>2. inside.next \in Nat \ {0} /\ inside.next > p
    BY <1>0, <1>2, <2>1 DEF Places
  <2>3. inside.next \in 1 .. Len(s)
    BY <1>5, <2>2, AheadIsInside
  <2> DEFINE node == CharacterClass(negated, inside.node)
             next == inside.next + 1
  <2>4. (next - p) - 1 \in 0 .. LongestPattern /\ 0 \in 0 .. (next - p) - 1
        /\ 0 \in 0 .. LongestPattern /\ next \in p + 1 .. Len(s) + 1
    BY <1>0, <2>2, <2>3
  <2>5. node \in Height(0)
    <3>1. Height(0) = TreesOver({})
      BY <2>4, TreesOfHeight
    <3>2. inside.node \in Ranges
      BY <2>1
    <3> QED
      BY <1>4, <3>1, <3>2, NodesAreTrees
  <2>6. node \in Height((next - p) - 1)
    <3> HIDE DEF node, next
    <3> QED
      BY <2>4, <2>5, HeightsGrow
  <2>7. ParseClass(s, p) = Parsed(node, next)
    BY <1>1, <1>5 DEF ClassOf
  <2> HIDE DEF node, next
  <2> QED
    BY <2>4, <2>6, <2>7 DEF AtomOK
<1>6. CASE ~(inside.ok /\ Ahead(s, inside.next, "]") /\ inside.node # <<>>)
  BY <1>1, <1>6 DEF ClassOf, AtomOK
<1> QED
  BY <1>5, <1>6

\* parse_sequence() answers with a tree no higher than what it has read.
LEMMA SequenceRead ==
    ASSUME NEW s, IsSource(s), NEW p \in Places(s), NEW read,
           ElementsOK(s, p, read[<<"elements", p>>])
    PROVE  TreeOK(s, p, ParseSequence(read, p))
<1> DEFINE r == read[<<"elements", p>>]
<1>1. CASE r = Refused
  BY <1>1, RefusedNotOk DEF ParseSequence, TreeOK
<1>2. CASE r # Refused
  <2>1. PICK list, next : /\ r = Parsed(list, next)
                          /\ next \in p .. Len(s) + 1
                          /\ \/ list = <<>>
                             \/ next > p /\ list \in Seq(Height((next - p) - 1))
    BY <1>2 DEF ElementsOK
  <2> DEFINE node == Simplified(list, SequenceOf(list))
  <2>2. ParseSequence(read, p) = Parsed(node, next)
    <3>1. r.ok /\ r.node = list /\ r.next = next
      BY <2>1, ParsedFields
    <3> QED
      BY <3>1, Zenon DEF ParseSequence
  <2>3. next - p \in 0 .. LongestPattern
    BY <2>1, PlaceHeights
  <2>4. node \in Height(next - p)
    <3>1. CASE list = <<>>
      <4>1. node = SequenceOf(<<>>)
        BY <3>1 DEF Simplified
      <4>2. <<>> \in Seq(IF next - p = 0 THEN {} ELSE Height((next - p) - 1))
        OBVIOUS
      <4>3. Height(next - p) = TreesOver(IF next - p = 0 THEN {} ELSE Height((next - p) - 1))
        BY <2>3, TreesOfHeight
      <4> QED
        BY <4>1, <4>2, <4>3, NodesAreTrees
    <3>2. CASE next > p /\ list \in Seq(Height((next - p) - 1))
      <4>1. next - p \in 1 .. LongestPattern
        BY <2>1, <3>2, PlaceHeights
      <4>2. CASE Len(list) = 1
        <5>1. node = list[1]
          BY <4>2 DEF Simplified
        <5>2. list[1] \in Height((next - p) - 1)
          <6>1. Len(list) >= 1
            BY <4>2
          <6> QED
            BY <3>2, <6>1, FirstOfList
        <5> QED
          BY <4>1, <5>1, <5>2, HigherTrees
      <4>3. CASE Len(list) # 1
        <5>1. node = SequenceOf(list)
          BY <4>3 DEF Simplified
        <5> QED
          BY <3>2, <4>1, <5>1, HigherTrees, NodesAreTrees
      <4> QED
        BY <4>2, <4>3
    <3> QED
      BY <2>1, <3>1, <3>2
  <2> HIDE DEF node, r
  <2> QED
    BY <2>1, <2>2, <2>4 DEF TreeOK
<1> QED
  BY <1>1, <1>2

\* So does parse_alternation().
LEMMA AlternationRead ==
    ASSUME NEW s, IsSource(s), NEW p \in Places(s), NEW read,
           AlternativesOK(s, p, read[<<"alternatives", p>>])
    PROVE  TreeOK(s, p, ParseAlternation(read, p))
<1> DEFINE r == read[<<"alternatives", p>>]
<1>1. CASE r = Refused
  BY <1>1, RefusedNotOk DEF ParseAlternation, TreeOK
<1>2. CASE r # Refused
  <2>1. PICK list, next : /\ r = Parsed(list, next)
                          /\ next \in p .. Len(s) + 1
                          /\ Len(list) >= 1
                          /\ \/ Len(list) = 1 /\ list \in Seq(Height(next - p))
                             \/ next > p /\ list \in Seq(Height((next - p) - 1))
    BY <1>2 DEF AlternativesOK
  <2> DEFINE node == Simplified(list, AlternationOf(list))
  <2>2. ParseAlternation(read, p) = Parsed(node, next)
    <3>1. r.ok /\ r.node = list /\ r.next = next
      BY <2>1, ParsedFields
    <3> QED
      BY <3>1, Zenon DEF ParseAlternation
  <2>3. next - p \in 0 .. LongestPattern
    BY <2>1, PlaceHeights
  <2>4. node \in Height(next - p)
    <3>1. CASE Len(list) = 1 /\ list \in Seq(Height(next - p))
      <4>1. node = list[1]
        BY <3>1 DEF Simplified
      <4>2. list[1] \in Height(next - p)
        BY <2>1, <3>1, FirstOfList
      <4> QED
        BY <4>1, <4>2
    <3>2. CASE next > p /\ list \in Seq(Height((next - p) - 1))
      <4>1. next - p \in 1 .. LongestPattern
        BY <2>1, <3>2, PlaceHeights
      <4>2. CASE Len(list) = 1
        <5>1. node = list[1]
          BY <4>2 DEF Simplified
        <5>2. list[1] \in Height((next - p) - 1)
          <6>1. Len(list) >= 1
            BY <4>2
          <6> QED
            BY <3>2, <6>1, FirstOfList
        <5> QED
          BY <4>1, <5>1, <5>2, HigherTrees
      <4>3. CASE Len(list) # 1
        <5>1. node = AlternationOf(list)
          BY <4>3 DEF Simplified
        <5> QED
          BY <3>2, <4>1, <5>1, HigherTrees, NodesAreTrees
      <4> QED
        BY <4>2, <4>3
    <3> QED
      BY <2>1, <3>1, <3>2
  <2> HIDE DEF node, r
  <2> QED
    BY <2>1, <2>2, <2>4 DEF TreeOK
<1> QED
  BY <1>1, <1>2

-----------------------------------------------------------------------------
(* The rules that read lists.                                            *)

\* What the rules need of the lists read behind a place.
ListOK(s, at, r) ==
    IF at[1] = "elements" THEN ElementsOK(s, at[2], r) ELSE AlternativesOK(s, at[2], r)
\* The lists read behind p are good.
ListsBehind(s, read, p) ==
    \A q \in Places(s) : q > p => /\ ElementsOK(s, q, read[<<"elements", q>>])
                                  /\ AlternativesOK(s, q, read[<<"alternatives", q>>])

\* parse_group() answers with an atom, or throws.
LEMMA GroupRead ==
    ASSUME NEW s, IsSource(s), NEW p \in 1 .. Len(s), NEW read, ListsBehind(s, read, p)
    PROVE  AtomOK(s, p, ParseGroup(s, read, p))
<1> DEFINE inside == ParseAlternation(read, p + 1)
<1>0. Len(s) \in Nat /\ Len(s) <= LongestPattern /\ LongestPattern \in Nat
      /\ p + 1 \in Places(s) /\ p + 1 > p
  BY PatternMatcherAssumption DEF IsSource, Places
<1>1. TreeOK(s, p + 1, inside)
  BY <1>0, AlternationRead DEF ListsBehind
<1> HIDE DEF inside
<1>2. CASE ~Ahead(s, p + 1, ")") /\ inside.ok /\ Ahead(s, inside.next, ")")
  <2>1. inside # Refused
    BY <1>2, RefusedNotOk, Zenon
  <2>2. PICK tree, q : /\ inside = Parsed(tree, q)
                       /\ q \in p + 1 .. Len(s) + 1
                       /\ tree \in Height(q - (p + 1))
    BY <1>1, <2>1 DEF TreeOK
  <2>3. inside.node = tree /\ inside.next = q
    BY <2>2, ParsedFields
  <2>4. q \in 1 .. Len(s)
    BY <1>0, <1>2, <2>2, <2>3, AheadIsInside
  <2> DEFINE node == Group(tree)
             next == q + 1
  <2>5. ParseGroup(s, read, p) = Parsed(node, next)
    BY <1>2, <2>3 DEF ParseGroup, GroupOf, inside
  <2>6. /\ (next - p) - 1 \in 1 .. LongestPattern
        /\ ((next - p) - 1) - 1 = q - (p + 1)
        /\ next \in p + 1 .. Len(s) + 1
    BY <1>0, <2>2, <2>4
  <2>7. node \in Height((next - p) - 1)
    <3>1. node \in TreesOver(Height(q - (p + 1)))
      BY <2>2, NodesAreTrees
    <3> HIDE DEF node, next
    <3> QED
      BY <2>6, <3>1, HigherTrees
  <2> HIDE DEF node, next
  <2> QED
    BY <2>5, <2>6, <2>7 DEF AtomOK
<1>3. CASE ~(~Ahead(s, p + 1, ")") /\ inside.ok /\ Ahead(s, inside.next, ")"))
  BY <1>3 DEF ParseGroup, GroupOf, AtomOK, inside
<1> QED
  BY <1>2, <1>3

\* A node without parts is an atom, of whatever it has read.
LEMMA LeafIsAtom ==
    ASSUME NEW s, IsSource(s), NEW p \in 1 .. Len(s), NEW n \in 1 .. 2, p + n <= Len(s) + 1,
           NEW node, \A A : node \in TreesOver(A)
    PROVE  AtomOK(s, p, Parsed(node, p + n))
<1> DEFINE next == p + n
<1>1. /\ (next - p) - 1 \in 0 .. LongestPattern
      /\ next \in p + 1 .. Len(s) + 1
  BY PatternMatcherAssumption DEF IsSource
<1>2. node \in Height((next - p) - 1)
  <2> HIDE DEF next
  <2> QED
    BY <1>1, TreesOfHeight
<1> HIDE DEF next
<1>3. AtomOK(s, p, Parsed(node, next))
  BY <1>1, <1>2 DEF AtomOK
<1> QED
  BY <1>3 DEF next

\* parse_atom() answers with an atom, or throws, whatever character it meets.
LEMMA AtomRead ==
    ASSUME NEW s, IsSource(s), NEW p \in Places(s), NEW read, ListsBehind(s, read, p)
    PROVE  AtomOK(s, p, ParseAtom(s, read, p))
<1>0. Len(s) \in Nat /\ p \in Nat \ {0}
  BY DEF IsSource, Places
<1>1. CASE AtEnd(s, p)
  BY <1>1 DEF ParseAtom, AtomOK
<1>2. CASE ~AtEnd(s, p)
  <2>1. p \in 1 .. Len(s) /\ 1 \in 1 .. 2 /\ p + 1 <= Len(s) + 1
    BY <1>0, <1>2 DEF AtEnd
  <2>2. s[p].value \in Bytes
    BY <2>1, SourceCharacter
  <2>3. ASSUME NEW v \in Bytes
        PROVE  \A A : LiteralNode(v) \in TreesOver(A)
    BY NodesAreTrees
  <2>4. AtomOK(s, p, Parsed(LiteralNode(s[p].value), p + 1))
    BY <2>1, <2>2, <2>3, LeafIsAtom
  <2>5. /\ AtomOK(s, p, Parsed(AnyCharacter, p + 1))
        /\ AtomOK(s, p, Parsed(StartOfLine, p + 1))
        /\ AtomOK(s, p, Parsed(EndOfLine, p + 1))
    BY <2>1, NodesAreTrees, LeafIsAtom
  <2>6. AtomOK(s, p, ParseGroup(s, read, p))
    BY <2>1, GroupRead
  <2>7. AtomOK(s, p, ParseClass(s, p))
    BY <2>1, ClassRead
  <2>8. AtomOK(s, p, IF AtEnd(s, p + 1) THEN Refused
                     ELSE Parsed(LiteralNode(s[p + 1].value), p + 2))
    <3>1. CASE AtEnd(s, p + 1)
      BY <3>1 DEF AtomOK
    <3>2. CASE ~AtEnd(s, p + 1)
      <4>1. p + 1 \in 1 .. Len(s) /\ 2 \in 1 .. 2 /\ p + 2 <= Len(s) + 1
        BY <1>0, <3>2 DEF AtEnd
      <4>2. s[p + 1].value \in Bytes
        BY <4>1, SourceCharacter
      <4>3. AtomOK(s, p, Parsed(LiteralNode(s[p + 1].value), p + 2))
        BY <2>1, <2>3, <4>1, <4>2, LeafIsAtom
      <4> QED
        BY <3>2, <4>3
    <3> QED
      BY <3>1, <3>2
  <2>9. AtomOK(s, p, Refused)
    BY DEF AtomOK
  <2> HIDE DEF AtomOK
  <2> QED
    BY <1>2, <2>4, <2>5, <2>6, <2>7, <2>8, <2>9 DEF ParseAtom
<1> QED
  BY <1>1, <1>2

\* So does parse_repetition(), with one operator or none.
LEMMA RepetitionRead ==
    ASSUME NEW s, IsSource(s), NEW p \in Places(s), NEW read, ListsBehind(s, read, p)
    PROVE  AtomOK(s, p, ParseRepetition(s, read, p))
<1> DEFINE atom == ParseAtom(s, read, p)
<1>0. Len(s) \in Nat /\ p \in Nat \ {0} /\ Len(s) <= LongestPattern /\ LongestPattern \in Nat
  BY PatternMatcherAssumption DEF IsSource, Places
<1>1. AtomOK(s, p, atom)
  BY AtomRead
<1>2. ParseRepetition(s, read, p) = WithOperator(s, atom)
  BY DEF ParseRepetition
<1> HIDE DEF atom
<1>3. CASE ~atom.ok
  BY <1>2, <1>3 DEF WithOperator, AtomOK
<1>4. CASE atom.ok /\ ~Operator(s, atom.next)
  BY <1>1, <1>2, <1>4 DEF WithOperator
<1>5. CASE atom.ok /\ Operator(s, atom.next) /\ Operator(s, atom.next + 1)
  BY <1>2, <1>5 DEF WithOperator, AtomOK
<1>6. CASE atom.ok /\ Operator(s, atom.next) /\ ~Operator(s, atom.next + 1)
  <2>1. atom # Refused
    BY <1>6, RefusedNotOk, Zenon
  <2>2. PICK tree, q : /\ atom = Parsed(tree, q)
                       /\ q \in p + 1 .. Len(s) + 1
                       /\ tree \in Height((q - p) - 1)
    BY <1>1, <2>1 DEF AtomOK
  <2>3. atom.node = tree /\ atom.next = q
    BY <2>2, ParsedFields
  <2>4. q \in Nat \ {0}
    BY <1>0, <2>2
  <2>5. q \in 1 .. Len(s) /\ s[q].value \in {"*", "+"}
    <3>1. Ahead(s, q, "*") \/ Ahead(s, q, "+")
      BY <1>6, <2>3 DEF Operator
    <3>2. CASE Ahead(s, q, "*")
      BY <2>4, <3>2, AheadIsInside
    <3>3. CASE Ahead(s, q, "+")
      BY <2>4, <3>3, AheadIsInside
    <3> QED
      BY <3>1, <3>2, <3>3
  <2> DEFINE node == Repetition(tree, s[q].value)
             next == q + 1
  <2>6. ParseRepetition(s, read, p) = Parsed(node, next)
    BY <1>2, <1>6, <2>3 DEF WithOperator
  <2>7. /\ (next - p) - 1 \in 1 .. LongestPattern
        /\ ((next - p) - 1) - 1 = (q - p) - 1
        /\ next \in p + 1 .. Len(s) + 1
    BY <1>0, <2>2, <2>5
  <2>8. node \in Height((next - p) - 1)
    <3>1. node \in TreesOver(Height((q - p) - 1))
      BY <2>2, <2>5, NodesAreTrees
    <3> HIDE DEF node, next
    <3> QED
      BY <2>7, <3>1, HigherTrees
  <2> HIDE DEF node, next
  <2> QED
    BY <2>6, <2>7, <2>8 DEF AtomOK
<1> QED
  BY <1>3, <1>4, <1>5, <1>6

\* A list of one member.
LEMMA OneElement ==
    ASSUME NEW B, NEW x \in B
    PROVE  <<x>> \in Seq(B) /\ Len(<<x>>) = 1
OBVIOUS

\* One member in front of a list.
LEMMA OneMore ==
    ASSUME NEW A, NEW B, A \subseteq B, NEW x \in B, NEW list \in Seq(A)
    PROVE  <<x>> \o list \in Seq(B) /\ Len(<<x>> \o list) = Len(list) + 1
<1>1. list \in Seq(B)
  OBVIOUS
<1> QED
  BY <1>1

\* The loop of parse_sequence() reads elements that are trees.
LEMMA ElementsRead ==
    ASSUME NEW s, NEW d, IsSource(s), NEW p \in Places(s), NEW read, ListsBehind(s, read, p)
    PROVE  ElementsOK(s, p, ElementsAt(s, d, read, p))
<1> DEFINE first == ParseRepetition(s, read, p)
<1>0. Len(s) \in Nat /\ p \in Nat \ {0} /\ Len(s) <= LongestPattern /\ LongestPattern \in Nat
      /\ p \in p .. Len(s) + 1
  BY PatternMatcherAssumption DEF IsSource, Places
<1>1. AtomOK(s, p, first)
  BY RepetitionRead
<1>2. CASE OperandEnds(s, d, p)
  BY <1>0, <1>2 DEF ElementsAt, ElementsOK
<1>3. CASE ~OperandEnds(s, d, p)
  <2>0. ElementsAt(s, d, read, p) = ElementsBehind(read, first)
    BY <1>3 DEF ElementsAt
  <2> HIDE DEF first
  <2>1. CASE first = Refused
    BY <2>0, <2>1, RefusedNotOk DEF ElementsBehind, ElementsOK
  <2>2. CASE first # Refused
    <3>1. PICK tree, q : /\ first = Parsed(tree, q)
                         /\ q \in p + 1 .. Len(s) + 1
                         /\ tree \in Height((q - p) - 1)
      BY <1>1, <2>2 DEF AtomOK
    <3> DEFINE others == read[<<"elements", q>>]
    <3>2. first.ok /\ first.node = tree /\ first.next = q
      BY <3>1, ParsedFields
    <3>3. ElementsAt(s, d, read, p) = InFront(first, others)
      BY <2>0, <3>2 DEF ElementsBehind
    <3>4. q \in Places(s) /\ q > p
      BY <1>0, <3>1 DEF Places
    <3>5. ElementsOK(s, q, others)
      BY <3>4 DEF ListsBehind
    <3> HIDE DEF others
    <3>6. CASE others = Refused
      BY <3>3, <3>6, RefusedNotOk DEF InFront, ElementsOK
    <3>7. CASE others # Refused
      <4>1. PICK list, next : /\ others = Parsed(list, next)
                              /\ next \in q .. Len(s) + 1
                              /\ \/ list = <<>>
                                 \/ next > q /\ list \in Seq(Height((next - q) - 1))
        BY <3>5, <3>7 DEF ElementsOK
      <4>2. others.ok /\ others.node = list /\ others.next = next
        BY <4>1, ParsedFields
      <4>3. ElementsAt(s, d, read, p) = Parsed(<<tree>> \o list, next)
        BY <3>2, <3>3, <4>2 DEF InFront
      <4>4. next \in p .. Len(s) + 1 /\ next > p /\ (next - p) - 1 \in 0 .. LongestPattern
            /\ (q - p) - 1 \in 0 .. (next - p) - 1
        BY <1>0, <3>1, <3>4, <4>1
      <4>5. tree \in Height((next - p) - 1)
        BY <3>1, <4>4, HeightsGrow
      <4>6. \E A : A \subseteq Height((next - p) - 1) /\ list \in Seq(A)
        <5>1. CASE list = <<>>
          <6>1. {} \subseteq Height((next - p) - 1) /\ list \in Seq({})
            BY <5>1
          <6> QED
            BY <6>1
        <5>2. CASE next > q /\ list \in Seq(Height((next - q) - 1))
          <6>1. (next - q) - 1 \in 0 .. (next - p) - 1
            BY <1>0, <3>1, <4>1, <5>2
          <6> QED
            BY <4>4, <5>2, <6>1, HeightsGrow
        <5> QED
          BY <4>1, <5>1, <5>2
      <4>7. <<tree>> \o list \in Seq(Height((next - p) - 1))
        BY <4>5, <4>6, OneMore
      <4> QED
        BY <4>3, <4>4, <4>7 DEF ElementsOK
    <3> QED
      BY <3>6, <3>7
  <2> QED
    BY <2>1, <2>2
<1> QED
  BY <1>2, <1>3

\* The loop of parse_alternation() reads alternatives that are trees.
LEMMA AlternativesRead ==
    ASSUME NEW s, NEW d, IsSource(s), NEW p \in Places(s), NEW read, ListsBehind(s, read, p),
           ElementsOK(s, p, read[<<"elements", p>>])
    PROVE  AlternativesOK(s, p, AlternativesAt(s, d, read, p))
<1> DEFINE first == ParseSequence(read, p)
<1>0. Len(s) \in Nat /\ p \in Nat \ {0} /\ Len(s) <= LongestPattern /\ LongestPattern \in Nat
  BY PatternMatcherAssumption DEF IsSource, Places
<1>1. TreeOK(s, p, first)
  BY SequenceRead
<1>2. AlternativesAt(s, d, read, p) = AlternativesBehind(s, d, read, first)
  BY DEF AlternativesAt
<1> HIDE DEF first
<1>3. CASE first = Refused
  BY <1>2, <1>3, RefusedNotOk DEF AlternativesBehind, AlternativesOK
<1>4. CASE first # Refused
  <2>1. PICK tree, q : /\ first = Parsed(tree, q)
                       /\ q \in p .. Len(s) + 1
                       /\ tree \in Height(q - p)
    BY <1>1, <1>4 DEF TreeOK
  <2>2. first.ok /\ first.node = tree /\ first.next = q
    BY <2>1, ParsedFields
  <2>3. q \in Nat \ {0}
    BY <1>0, <2>1
  <2>4. CASE ~Ahead(s, q, "|")
    <3>1. AlternativesAt(s, d, read, p) = Parsed(<<tree>>, q)
      BY <1>2, <2>2, <2>4 DEF AlternativesBehind
    <3>2. <<tree>> \in Seq(Height(q - p)) /\ Len(<<tree>>) = 1
      BY <2>1, OneElement
    <3> DEFINE list == <<tree>>
    <3>3. /\ AlternativesAt(s, d, read, p) = Parsed(list, q)
          /\ Len(list) = 1 /\ Len(list) >= 1 /\ list \in Seq(Height(q - p))
      BY <3>1, <3>2
    <3> HIDE DEF list
    <3> QED
      BY <2>1, <3>3 DEF AlternativesOK
  <2>5. CASE Ahead(s, q, "|") /\ OperandEnds(s, d, q + 1)
    BY <1>2, <2>2, <2>5 DEF AlternativesBehind, AlternativesOK
  <2>6. CASE Ahead(s, q, "|") /\ ~OperandEnds(s, d, q + 1)
    <3> DEFINE others == read[<<"alternatives", q + 1>>]
    <3>1. AlternativesAt(s, d, read, p) = InFront(first, others)
      BY <1>2, <2>2, <2>6 DEF AlternativesBehind
    <3>2. q \in 1 .. Len(s)
      BY <2>3, <2>6, AheadIsInside
    <3>3. q + 1 \in Places(s) /\ q + 1 > p
      BY <1>0, <2>1, <3>2 DEF Places
    <3>4. AlternativesOK(s, q + 1, others)
      BY <3>3 DEF ListsBehind
    <3> HIDE DEF others
    <3>5. CASE others = Refused
      BY <3>1, <3>5, RefusedNotOk DEF InFront, AlternativesOK
    <3>6. CASE others # Refused
      <4>1. PICK list, next :
               /\ others = Parsed(list, next)
               /\ next \in q + 1 .. Len(s) + 1
               /\ Len(list) >= 1
               /\ \/ Len(list) = 1 /\ list \in Seq(Height(next - (q + 1)))
                  \/ next > q + 1 /\ list \in Seq(Height((next - (q + 1)) - 1))
        BY <3>4, <3>6 DEF AlternativesOK
      <4>2. others.ok /\ others.node = list /\ others.next = next
        BY <4>1, ParsedFields
      <4>3. AlternativesAt(s, d, read, p) = Parsed(<<tree>> \o list, next)
        BY <2>2, <3>1, <4>2 DEF InFront
      <4>4. next \in p .. Len(s) + 1 /\ next > p /\ (next - p) - 1 \in 0 .. LongestPattern
            /\ q - p \in 0 .. (next - p) - 1 /\ next - (q + 1) \in 0 .. (next - p) - 1
        BY <1>0, <2>1, <3>2, <4>1
      <4>5. tree \in Height((next - p) - 1)
        BY <2>1, <4>4, HeightsGrow
      <4>6. \E A : A \subseteq Height((next - p) - 1) /\ list \in Seq(A)
        <5>1. CASE list \in Seq(Height(next - (q + 1)))
          BY <4>4, <5>1, HeightsGrow
        <5>2. CASE next > q + 1 /\ list \in Seq(Height((next - (q + 1)) - 1))
          <6>1. (next - (q + 1)) - 1 \in 0 .. (next - p) - 1
            BY <1>0, <2>1, <3>2, <4>1, <5>2
          <6> QED
            BY <4>4, <5>2, <6>1, HeightsGrow
        <5> QED
          BY <4>1, <5>1, <5>2
      <4>7. <<tree>> \o list \in Seq(Height((next - p) - 1)) /\ Len(<<tree>> \o list) = Len(list) + 1
        BY <4>5, <4>6, OneMore
      <4>8. Len(<<tree>> \o list) >= 1
        <5>1. Len(list) \in Nat
          BY <4>6
        <5> QED
          BY <4>7, <5>1
      <4> QED
        BY <4>3, <4>4, <4>7, <4>8 DEF AlternativesOK
    <3> QED
      BY <3>5, <3>6
  <2> QED
    BY <2>4, <2>5, <2>6
<1> QED
  BY <1>3, <1>4

-----------------------------------------------------------------------------
(* The parser as a whole: every pattern that it accepts is a tree.       *)

\* An atom looks only at lists read further on.
LEMMA AtomNeedsLater ==
    ASSUME NEW s, IsSource(s), NEW p \in Places(s), NEW f, NEW g,
           \A q \in Places(s) : q > p => f[<<"alternatives", q>>] = g[<<"alternatives", q>>]
    PROVE  ParseAtom(s, f, p) = ParseAtom(s, g, p)
<1>0. Len(s) \in Nat /\ p \in Nat \ {0}
  BY DEF IsSource, Places
<1>1. CASE AtEnd(s, p)
  BY <1>1 DEF ParseAtom
<1>2. CASE ~AtEnd(s, p)
  <2>1. p + 1 \in Places(s) /\ p + 1 > p
    BY <1>0, <1>2 DEF AtEnd, Places
  <2>2. ParseAlternation(f, p + 1) = ParseAlternation(g, p + 1)
    BY <2>1 DEF ParseAlternation
  <2>3. ParseGroup(s, f, p) = ParseGroup(s, g, p)
    BY <2>2 DEF ParseGroup
  <2> QED
    BY <1>2, <2>3 DEF ParseAtom
<1> QED
  BY <1>1, <1>2

\* Elements look only at lists read further on.
LEMMA ElementsNeedLater ==
    ASSUME NEW s, NEW d, IsSource(s), NEW p \in Places(s), NEW f, NEW g, ListsBehind(s, f, p),
           \A q \in Places(s) : q > p => /\ f[<<"elements", q>>] = g[<<"elements", q>>]
                                         /\ f[<<"alternatives", q>>] = g[<<"alternatives", q>>]
    PROVE  ElementsAt(s, d, f, p) = ElementsAt(s, d, g, p)
<1> DEFINE first == ParseRepetition(s, f, p)
<1>0. Len(s) \in Nat /\ p \in Nat \ {0}
  BY DEF IsSource, Places
<1>1. ParseRepetition(s, g, p) = first
  <2>1. ParseAtom(s, f, p) = ParseAtom(s, g, p)
    BY AtomNeedsLater
  <2> QED
    BY <2>1 DEF ParseRepetition
<1>2. AtomOK(s, p, first)
  BY RepetitionRead
<1>3. ElementsBehind(f, first) = ElementsBehind(g, first)
  <2> HIDE DEF first
  <2>1. CASE first = Refused
    BY <2>1, RefusedNotOk DEF ElementsBehind
  <2>2. CASE first # Refused
    <3>1. PICK tree, q : first = Parsed(tree, q) /\ q \in p + 1 .. Len(s) + 1
      BY <1>2, <2>2 DEF AtomOK
    <3>2. first.next = q /\ q \in Places(s) /\ q > p
      BY <1>0, <3>1, ParsedFields DEF Places
    <3> QED
      BY <3>2 DEF ElementsBehind
  <2> QED
    BY <2>1, <2>2
<1> HIDE DEF first
<1> QED
  BY <1>1, <1>3 DEF ElementsAt, first

\* Alternatives look only at the elements at the same place, and at lists read further on.
LEMMA AlternativesNeedLater ==
    ASSUME NEW s, NEW d, IsSource(s), NEW p \in Places(s), NEW f, NEW g,
           ElementsOK(s, p, f[<<"elements", p>>]),
           f[<<"elements", p>>] = g[<<"elements", p>>],
           \A q \in Places(s) : q > p => f[<<"alternatives", q>>] = g[<<"alternatives", q>>]
    PROVE  AlternativesAt(s, d, f, p) = AlternativesAt(s, d, g, p)
<1> DEFINE first == ParseSequence(f, p)
<1>0. Len(s) \in Nat /\ p \in Nat \ {0}
  BY DEF IsSource, Places
<1>1. ParseSequence(g, p) = first
  BY DEF ParseSequence
<1>2. TreeOK(s, p, first)
  BY SequenceRead
<1>3. AlternativesBehind(s, d, f, first) = AlternativesBehind(s, d, g, first)
  <2> HIDE DEF first
  <2>1. CASE first = Refused
    BY <2>1, RefusedNotOk DEF AlternativesBehind
  <2>2. CASE first # Refused
    <3>1. PICK tree, q : first = Parsed(tree, q) /\ q \in p .. Len(s) + 1
      BY <1>2, <2>2 DEF TreeOK
    <3>2. first.next = q /\ q \in Nat \ {0}
      BY <1>0, <3>1, ParsedFields
    <3>3. ASSUME Ahead(s, first.next, "|")
          PROVE  f[<<"alternatives", first.next + 1>>] = g[<<"alternatives", first.next + 1>>]
      <4>1. q \in 1 .. Len(s)
        BY <3>2, <3>3, AheadIsInside
      <4>2. q + 1 \in Places(s) /\ q + 1 > p
        BY <1>0, <3>1, <4>1 DEF Places
      <4> QED
        BY <3>2, <4>2
    <3> QED
      BY <3>3 DEF AlternativesBehind
  <2> QED
    BY <2>1, <2>2
<1> HIDE DEF first
<1> QED
  BY <1>1, <1>3 DEF AlternativesAt, first

\* The lists in the order in which they are read: a list needs the later ones,
\* and the alternatives at a place the elements there.
Order(at) == 2 * at[2] + (IF at[1] = "elements" THEN 1 ELSE 0)

\* The lists read before the one at hand are good, or the same.
LaterListsOK(s, f, at) ==
    \A b \in ListRules \X Places(s) : Order(b) > Order(at) => ListOK(s, b, f[b])
LaterListsSame(s, f, g, at) ==
    \A b \in ListRules \X Places(s) : Order(b) > Order(at) => f[b] = g[b]

\* The order in which the lists are read.
LEMMA LaterLists ==
    ASSUME NEW s, IsSource(s), NEW at \in ListRules \X Places(s)
    PROVE  /\ \A q \in Places(s) : q > at[2] =>
                /\ <<"elements", q>> \in ListRules \X Places(s)
                /\ <<"alternatives", q>> \in ListRules \X Places(s)
                /\ Order(<<"elements", q>>) > Order(at)
                /\ Order(<<"alternatives", q>>) > Order(at)
           /\ at[1] # "elements" =>
                /\ <<"elements", at[2]>> \in ListRules \X Places(s)
                /\ Order(<<"elements", at[2]>>) > Order(at)
           /\ at[1] \in {"alternatives", "elements"}
           /\ at[2] \in Places(s) /\ at[2] \in Nat
           /\ Order(at) \in 1 .. 2 * (Len(s) + 1) + 1
<1>1. PICK rule \in ListRules, p \in Places(s) : at = <<rule, p>>
  OBVIOUS
<1>2. Len(s) \in Nat /\ p \in Nat \ {0} /\ p <= Len(s) + 1
  BY DEF IsSource, Places
<1>3. \A q \in Places(s) : q \in Nat
  BY DEF Places
<1>4. at[1] = rule /\ at[2] = p /\ rule \in {"alternatives", "elements"}
  BY <1>1 DEF ListRules
<1>5. \A q \in Places(s) : /\ <<"elements", q>> \in ListRules \X Places(s)
                           /\ <<"alternatives", q>> \in ListRules \X Places(s)
  BY DEF ListRules
<1>6. /\ \A q \in Nat : Order(<<"elements", q>>) = 2 * q + 1 /\ Order(<<"alternatives", q>>) = 2 * q
      /\ rule = "elements" => Order(at) = 2 * p + 1
      /\ rule # "elements" => Order(at) = 2 * p
  BY <1>2, <1>4 DEF Order
<1> QED
  BY <1>2, <1>3, <1>4, <1>5, <1>6

\* Each list that is read from good ones is good.
LEMMA ListRead ==
    ASSUME NEW s, NEW d, IsSource(s), NEW at \in ListRules \X Places(s), NEW f,
           LaterListsOK(s, f, at)
    PROVE  ListOK(s, at, ListAt(s, d, f, at))
<1>1. ListsBehind(s, f, at[2])
  <2> SUFFICES ASSUME NEW q \in Places(s), q > at[2]
               PROVE  /\ ElementsOK(s, q, f[<<"elements", q>>])
                      /\ AlternativesOK(s, q, f[<<"alternatives", q>>])
    BY DEF ListsBehind
  <2>1. /\ ListOK(s, <<"elements", q>>, f[<<"elements", q>>])
        /\ ListOK(s, <<"alternatives", q>>, f[<<"alternatives", q>>])
    BY LaterLists DEF LaterListsOK
  <2> QED
    BY <2>1 DEF ListOK
<1>2. at[2] \in Places(s)
  BY LaterLists
<1>3. CASE at[1] = "elements"
  <2>1. ElementsOK(s, at[2], ElementsAt(s, d, f, at[2]))
    BY <1>1, <1>2, ElementsRead
  <2> QED
    BY <1>3, <2>1 DEF ListOK, ListAt
<1>4. CASE at[1] # "elements"
  <2>1. ListOK(s, <<"elements", at[2]>>, f[<<"elements", at[2]>>])
    BY <1>4, LaterLists DEF LaterListsOK
  <2>2. ElementsOK(s, at[2], f[<<"elements", at[2]>>])
    BY <2>1 DEF ListOK
  <2>3. AlternativesOK(s, at[2], AlternativesAt(s, d, f, at[2]))
    BY <1>1, <1>2, <2>2, AlternativesRead
  <2> QED
    BY <1>4, <2>3 DEF ListOK, ListAt
<1> QED
  BY <1>3, <1>4

\* Each list needs only the ones behind it.
LEMMA ListNeedsLater ==
    ASSUME NEW s, NEW d, IsSource(s), NEW at \in ListRules \X Places(s), NEW f, NEW g,
           LaterListsOK(s, f, at), LaterListsSame(s, f, g, at)
    PROVE  ListAt(s, d, f, at) = ListAt(s, d, g, at)
<1>1. \A q \in Places(s) : q > at[2] =>
         /\ f[<<"elements", q>>] = g[<<"elements", q>>]
         /\ f[<<"alternatives", q>>] = g[<<"alternatives", q>>]
  BY LaterLists DEF LaterListsSame
<1>2. at[2] \in Places(s)
  BY LaterLists
<1>3. CASE at[1] = "elements"
  <2>1. ListsBehind(s, f, at[2])
    <3> SUFFICES ASSUME NEW q \in Places(s), q > at[2]
                 PROVE  /\ ElementsOK(s, q, f[<<"elements", q>>])
                        /\ AlternativesOK(s, q, f[<<"alternatives", q>>])
      BY DEF ListsBehind
    <3>1. /\ ListOK(s, <<"elements", q>>, f[<<"elements", q>>])
          /\ ListOK(s, <<"alternatives", q>>, f[<<"alternatives", q>>])
      BY LaterLists DEF LaterListsOK
    <3> QED
      BY <3>1 DEF ListOK
  <2>2. ElementsAt(s, d, f, at[2]) = ElementsAt(s, d, g, at[2])
    BY <1>1, <1>2, <2>1, ElementsNeedLater
  <2> QED
    BY <1>3, <2>2 DEF ListAt
<1>4. CASE at[1] # "elements"
  <2>1. ListOK(s, <<"elements", at[2]>>, f[<<"elements", at[2]>>])
    BY <1>4, LaterLists DEF LaterListsOK
  <2>2. ElementsOK(s, at[2], f[<<"elements", at[2]>>])
    BY <2>1 DEF ListOK
  <2>3. f[<<"elements", at[2]>>] = g[<<"elements", at[2]>>]
    BY <1>4, LaterLists DEF LaterListsSame
  <2>4. \A q \in Places(s) : q > at[2] => f[<<"alternatives", q>>] = g[<<"alternatives", q>>]
    BY <1>1
  <2>5. AlternativesAt(s, d, f, at[2]) = AlternativesAt(s, d, g, at[2])
    <3> DEFINE p == at[2]
    <3> HIDE DEF p
    <3>1. AlternativesAt(s, d, f, p) = AlternativesAt(s, d, g, p)
      BY <1>2, <2>2, <2>3, <2>4, AlternativesNeedLater DEF p
    <3> QED
      BY <3>1 DEF p
  <2> QED
    BY <1>4, <2>5 DEF ListAt
<1> QED
  BY <1>3, <1>4

\* The parser comes to its end: at every place both loops read a good list.
LEMMA ListsRead ==
    ASSUME NEW s, NEW d, IsSource(s), NEW at \in ListRules \X Places(s)
    PROVE  ListOK(s, at, Lists(s, d)[at])
<1> DEFINE T == ListRules \X Places(s)
           L == 2 * (Len(s) + 1) + 1
           Good(k, f) == \A i \in T : Order(i) > L - k =>
                            f[i] = ListAt(s, d, f, i) /\ ListOK(s, i, f[i])
           S == { k \in 0 .. L : \E f : Good(k, f) }
<1>0. L \in Nat /\ \A i \in T : Order(i) \in 1 .. L
  <2>1. Len(s) \in Nat
    BY DEF IsSource
  <2>2. \A i \in T : Order(i) \in 1 .. 2 * (Len(s) + 1) + 1
    BY LaterLists
  <2>3. 2 * (Len(s) + 1) + 1 \in Nat
    BY <2>1
  <2> QED
    BY <2>2, <2>3
<1> HIDE DEF L
<1>1. 0 \in S
  <2>1. \A f : Good(0, f)
    BY <1>0
  <2> HIDE DEF Good
  <2> QED
    BY <1>0, <2>1
<1>2. ASSUME NEW k \in 1 .. L, k - 1 \in S
      PROVE  k \in S
  <2>1. PICK f : Good(k - 1, f)
    BY <1>2
  <2> DEFINE j == L - (k - 1)
             g == [i \in T |-> IF Order(i) = j THEN ListAt(s, d, f, i) ELSE f[i]]
  <2>2. j \in Nat
    BY <1>0
  <2>3. \A i \in T : Order(i) > j => /\ g[i] = f[i] /\ f[i] = ListAt(s, d, f, i)
                                     /\ ListOK(s, i, f[i])
    BY <1>0, <2>1
  <2>4. \A i \in T : Order(i) = j => g[i] = ListAt(s, d, f, i)
    OBVIOUS
  <2>5. ASSUME NEW i \in T, Order(i) >= j
        PROVE  LaterListsOK(s, f, i) /\ LaterListsSame(s, f, g, i)
    <3> SUFFICES ASSUME NEW b \in T, Order(b) > Order(i)
                 PROVE  ListOK(s, b, f[b]) /\ f[b] = g[b]
      BY DEF LaterListsOK, LaterListsSame
    <3>1. Order(b) > j
      BY <1>0, <2>2, <2>5
    <3> HIDE DEF g, j
    <3> QED
      BY <2>3, <3>1
  <2>6. ASSUME NEW i \in T, Order(i) > L - k
        PROVE  g[i] = ListAt(s, d, g, i) /\ ListOK(s, i, g[i])
    <3>1. Order(i) = j \/ Order(i) > j
      BY <1>0, <2>6
    <3>2. LaterListsOK(s, f, i) /\ LaterListsSame(s, f, g, i)
      <4>1. Order(i) >= j
        BY <1>0, <2>2, <3>1
      <4> HIDE DEF g, j
      <4> QED
        BY <2>5, <4>1
    <3>3. ListAt(s, d, f, i) = ListAt(s, d, g, i) /\ ListOK(s, i, ListAt(s, d, f, i))
      <4> HIDE DEF g
      <4> QED
        BY <3>2, ListRead, ListNeedsLater
    <3> HIDE DEF g, j
    <3> QED
      BY <2>3, <2>4, <3>1, <3>3
  <2>7. Good(k, g)
    <3> HIDE DEF g, j
    <3> QED
      BY <2>6
  <2> HIDE DEF g, j, Good
  <2> QED
    BY <1>0, <2>7
<1>3. \A k \in 0 .. L : k \in S
  <2> HIDE DEF S
  <2> QED
    BY <1>0, <1>1, <1>2, BoundedInduction
<1>4. PICK f : Good(L, f)
  <2>1. L \in S
    <3> HIDE DEF S
    <3> QED
      BY <1>0, <1>3
  <2> HIDE DEF Good
  <2> QED
    BY <2>1
<1> DEFINE h == [i \in T |-> f[i]]
<1>5. ASSUME NEW i \in T PROVE f[i] = ListAt(s, d, h, i)
  <2>1. \A b \in T : h[b] = f[b]
    OBVIOUS
  <2>2. \A b \in T : Order(b) > L - L
    BY <1>0
  <2>3. \A b \in T : f[b] = ListAt(s, d, f, b) /\ ListOK(s, b, f[b])
    BY <1>4, <2>2
  <2> HIDE DEF h
  <2>4. LaterListsOK(s, f, i) /\ LaterListsSame(s, f, h, i)
    BY <2>1, <2>3 DEF LaterListsOK, LaterListsSame
  <2>5. ListAt(s, d, f, i) = ListAt(s, d, h, i)
    BY <2>4, ListNeedsLater
  <2> QED
    BY <2>3, <2>5
<1>6. h = [i \in T |-> ListAt(s, d, h, i)]
  BY <1>5
<1>7. \E r : r = [i \in T |-> ListAt(s, d, r, i)]
  <2> HIDE DEF h
  <2> QED
    BY <1>6
<1>8. Lists(s, d) = [i \in T |-> ListAt(s, d, Lists(s, d), i)]
  BY <1>7 DEF Lists
<1> DEFINE D == { k \in 0 .. L : \A i \in T : Order(i) > L - k => ListOK(s, i, Lists(s, d)[i]) }
<1>9. 0 \in D
  BY <1>0
<1>10. ASSUME NEW k \in 1 .. L, k - 1 \in D
       PROVE  k \in D
  <2>1. ASSUME NEW i \in T, Order(i) > L - k
        PROVE  ListOK(s, i, Lists(s, d)[i])
    <3>1. \A b \in T : Order(b) > Order(i) => Order(b) > L - (k - 1)
      BY <1>0, <2>1
    <3>2. LaterListsOK(s, Lists(s, d), i)
      BY <1>10, <3>1 DEF LaterListsOK
    <3>3. Lists(s, d)[i] = ListAt(s, d, Lists(s, d), i)
      BY <1>8
    <3> QED
      BY <3>2, <3>3, ListRead
  <2> QED
    BY <1>0, <2>1
<1>11. \A k \in 0 .. L : k \in D
  <2> HIDE DEF D
  <2> QED
    BY <1>0, <1>9, <1>10, BoundedInduction
<1>12. at \in T /\ Order(at) > L - L /\ L \in D
  BY <1>0, <1>11
<1> QED
  BY <1>12

\* The trees of patterns that are no longer than the longest are trees.
LEMMA PatternRead ==
    ASSUME NEW s, IsSource(s), ParsePattern(s).ok
    PROVE  ParsePattern(s).node \in Trees
<1> DEFINE inside == ParseAlternation(Lists(s, s[1].value), 2)
<1>0. Len(s) \in Nat /\ Len(s) <= LongestPattern /\ LongestPattern \in Nat
  BY PatternMatcherAssumption DEF IsSource
<1>1. s # <<>> /\ ParsePattern(s) = WholeOf(s, inside)
  BY RefusedNotOk DEF ParsePattern
<1>2. 2 \in Places(s)
  <2>1. Len(s) # 0
    BY <1>1 DEF IsSource
  <2> QED
    BY <1>0, <2>1 DEF Places
<1>3. TreeOK(s, 2, inside)
  <2>1. <<"alternatives", 2>> \in ListRules \X Places(s)
    BY <1>2 DEF ListRules
  <2>2. AlternativesOK(s, 2, Lists(s, s[1].value)[<<"alternatives", 2>>])
    BY <2>1, ListsRead DEF ListOK
  <2> QED
    BY <1>2, <2>2, AlternationRead
<1> HIDE DEF inside
<1>4. inside.ok /\ ParsePattern(s) = Parsed(inside.node, inside.next + 1)
  BY <1>1, RefusedNotOk DEF WholeOf
<1>5. inside # Refused
  BY <1>4, RefusedNotOk, Zenon
<1>6. PICK tree, q : /\ inside = Parsed(tree, q)
                     /\ q \in 2 .. Len(s) + 1
                     /\ tree \in Height(q - 2)
  BY <1>3, <1>5 DEF TreeOK
<1>7. inside.node = tree
  BY <1>6, ParsedFields
<1>8. q - 2 \in 0 .. LongestPattern /\ LongestPattern \in 0 .. LongestPattern
  BY <1>0, <1>6
<1>9. tree \in Height(LongestPattern)
  BY <1>6, <1>8, HeightsGrow
<1> QED
  BY <1>4, <1>7, <1>9, ParsedFields DEF Trees, Height

-----------------------------------------------------------------------------
(* Sequences.                                                            *)

\* What matches begins before it ends.
Onward(N) == { ends \in [0 .. N -> SUBSET (0 .. N)] : \A p \in 0 .. N : ends[p] \subseteq p .. N }

\* The ends of a match are at or behind its beginning, and inside the text.
LEMMA OnwardEnds ==
    ASSUME NEW N \in Nat, NEW ends \in Onward(N), NEW p \in 0 .. N
    PROVE  ends[p] \in SUBSET (0 .. N) /\ ends[p] \subseteq p .. N
BY DEF Onward

\* So are the ends of several.
LEMMA UnionOfEnds ==
    ASSUME NEW N \in Nat, NEW ends \in Onward(N), NEW P \in SUBSET (0 .. N)
    PROVE  UNION { ends[q] : q \in P } \in SUBSET (0 .. N)
BY OnwardEnds

\* A set of positions has a greatest member.
LEMMA GreatestOf ==
    ASSUME NEW N \in Nat, NEW S \in SUBSET (0 .. N), S # {}
    PROVE  \E n \in S : \A m \in S : m <= n
<1> DEFINE U == { N - x : x \in S }
<1>1. U \in SUBSET Nat /\ U # {}
  <2>1. \A x \in S : x \in 0 .. N /\ N - x \in Nat
    OBVIOUS
  <2> QED
    BY <2>1
<1>2. PICK u \in U : \A v \in U : u <= v
  <2> HIDE DEF U
  <2> QED
    BY <1>1, LeastNatural
<1>3. PICK n \in S : u = N - n
  BY <1>2
<1>4. \A m \in S : u <= N - m
  BY <1>2
<1> QED
  BY <1>3, <1>4

\* The places between elements, of a text from p to j of which i elements are seen.
Cut(ends, i, p, j, cuts) ==
    /\ cuts \in [0 .. i -> p .. j]
    /\ cuts[0] = p /\ cuts[i] = j
    /\ \A k \in 1 .. i : cuts[k] \in ends[k][cuts[k - 1]]

CanCut(ends, i, p, j) == \E cuts : Cut(ends, i, p, j, cuts)

\* Cuts that rise one by one are all at or before the last.
LEMMA CutsRise ==
    ASSUME NEW n \in Nat, NEW cuts \in [0 .. n -> Nat],
           \A k \in 1 .. n : cuts[k - 1] <= cuts[k]
    PROVE  \A k \in 0 .. n : cuts[k] <= cuts[n]
<1> DEFINE S == { m \in 0 .. n : \A k \in 0 .. m : cuts[k] <= cuts[m] }
<1>1. 0 \in S
  OBVIOUS
<1>2. ASSUME NEW m \in 1 .. n, m - 1 \in S PROVE m \in S
  <2>1. ASSUME NEW k \in 0 .. m PROVE cuts[k] <= cuts[m]
    <3>1. cuts[m - 1] <= cuts[m] /\ cuts[k] \in Nat /\ cuts[m] \in Nat /\ cuts[m - 1] \in Nat
      OBVIOUS
    <3>2. k = m \/ k \in 0 .. m - 1
      OBVIOUS
    <3> QED
      BY <1>2, <3>1, <3>2
  <2> QED
    BY <2>1
<1>3. \A m \in 0 .. n : m \in S
  <2> HIDE DEF S
  <2> QED
    BY <1>1, <1>2, BoundedInduction
<1> QED
  BY <1>3

\* A text is cut into i pieces when it is cut into i - 1, and one more behind them.
LEMMA CutLonger ==
    ASSUME NEW N \in Nat, NEW i \in Nat \ {0}, NEW ends, \A k \in 1 .. i : ends[k] \in Onward(N),
           NEW p \in 0 .. N, NEW j \in p .. N
    PROVE  CanCut(ends, i, p, j)
           <=> \E q \in p .. N : j \in ends[i][q] /\ CanCut(ends, i - 1, p, q)
<1>1. ASSUME NEW q \in p .. N, j \in ends[i][q], NEW c, Cut(ends, i - 1, p, q, c)
      PROVE  \E cuts : Cut(ends, i, p, j, cuts)
  <2> DEFINE cuts == [k \in 0 .. i |-> IF k = i THEN j ELSE c[k]]
  <2>1. q <= j
    <3>1. ends[i] \in Onward(N)
      OBVIOUS
    <3>2. ends[i][q] \subseteq q .. N
      BY <3>1, OnwardEnds
    <3> QED
      BY <1>1, <3>2
  <2>2. c \in [0 .. i - 1 -> p .. q] /\ c[0] = p /\ c[i - 1] = q
        /\ \A k \in 1 .. i - 1 : c[k] \in ends[k][c[k - 1]]
    BY <1>1 DEF Cut
  <2>3. cuts \in [0 .. i -> p .. j]
    BY <2>1, <2>2
  <2>4. cuts[0] = p /\ cuts[i] = j
    BY <2>2
  <2>5. ASSUME NEW k \in 1 .. i PROVE cuts[k] \in ends[k][cuts[k - 1]]
    <3>1. cuts[k - 1] = c[k - 1]
      OBVIOUS
    <3>2. CASE k = i
      BY <1>1, <2>2, <3>1, <3>2
    <3>3. CASE k # i
      <4>1. k \in 1 .. i - 1 /\ cuts[k] = c[k]
        BY <3>3
      <4> QED
        BY <2>2, <3>1, <4>1
    <3> QED
      BY <3>2, <3>3
  <2> HIDE DEF cuts
  <2> QED
    BY <2>3, <2>4, <2>5 DEF Cut
<1>2. ASSUME NEW c, Cut(ends, i, p, j, c)
      PROVE  \E q \in p .. N : j \in ends[i][q] /\ \E cuts : Cut(ends, i - 1, p, q, cuts)
  <2> DEFINE q == c[i - 1]
             cuts == [k \in 0 .. i - 1 |-> c[k]]
  <2>1. c \in [0 .. i -> p .. j] /\ c[0] = p /\ c[i] = j
        /\ \A k \in 1 .. i : c[k] \in ends[k][c[k - 1]]
    BY <1>2 DEF Cut
  <2>2. \A k \in 0 .. i : c[k] \in p .. j /\ c[k] \in 0 .. N
    BY <2>1
  <2>3. q \in p .. N /\ j \in ends[i][q]
    <3>1. i - 1 \in 0 .. i /\ i \in 1 .. i
      OBVIOUS
    <3> QED
      BY <2>1, <2>2, <3>1
  <2>4. ASSUME NEW k \in 1 .. i - 1 PROVE c[k - 1] <= c[k]
    <3>1. ends[k] \in Onward(N) /\ c[k - 1] \in 0 .. N
      BY <2>2
    <3>2. ends[k][c[k - 1]] \subseteq c[k - 1] .. N
      BY <3>1, OnwardEnds
    <3>3. k \in 1 .. i
      OBVIOUS
    <3>4. c[k] \in c[k - 1] .. N
      BY <2>1, <3>2, <3>3
    <3>5. c[k - 1] \in 0 .. N
      BY <3>1
    <3> QED
      BY <3>4, <3>5
  <2>5. \A k \in 0 .. i - 1 : cuts[k] <= cuts[i - 1]
    <3>1. cuts \in [0 .. i - 1 -> Nat]
      BY <2>2
    <3>2. \A k \in 1 .. i - 1 : cuts[k - 1] <= cuts[k]
      BY <2>4
    <3>3. i - 1 \in Nat
      OBVIOUS
    <3> HIDE DEF cuts
    <3> QED
      BY <3>1, <3>2, <3>3, CutsRise
  <2>6. cuts \in [0 .. i - 1 -> p .. q]
    <3>1. \A k \in 0 .. i - 1 : cuts[k] = c[k] /\ k \in 0 .. i /\ i - 1 \in 0 .. i - 1
      OBVIOUS
    <3>2. \A k \in 0 .. i - 1 : c[k] \in p .. j /\ c[k] <= q
      BY <2>2, <2>5, <3>1
    <3>3. \A k \in 0 .. i - 1 : c[k] \in p .. q
      <4>1. q \in p .. N
        BY <2>3
      <4> HIDE DEF q
      <4> QED
        BY <3>2, <4>1
    <3> HIDE DEF q
    <3> QED
      BY <3>3
  <2>7. cuts[0] = p /\ cuts[i - 1] = q
    BY <2>1
  <2>8. \A k \in 1 .. i - 1 : cuts[k] \in ends[k][cuts[k - 1]]
    BY <2>1
  <2>9. Cut(ends, i - 1, p, q, cuts)
    <3> HIDE DEF cuts, q
    <3> QED
      BY <2>6, <2>7, <2>8 DEF Cut
  <2> HIDE DEF cuts, q
  <2> QED
    BY <2>3, <2>9
<1> QED
  BY <1>1, <1>2, Zenon DEF CanCut

\* A sequence: the sets of positions that match_from() (PatternMatcher.cpp) carries
\* from element to element end with all the ways to cut the text.
LEMMA SequenceEnds ==
    ASSUME NEW N \in Nat, NEW ends \in Seq(Onward(N)), NEW p \in 0 .. N
    PROVE  EndsOfSequence(ends, p) = { j \in p .. N : StandForAll(ends, p, j) }
<1> DEFINE L == Len(ends)
           V == SUBSET (0 .. N)
           From(i, P) == UNION { ends[i][q] : q \in P }
           step == [i \in 1 .. L |-> [P \in V |-> From(i, P)]]
           positions == CHOOSE f : f = [i \in 0 .. L |-> IF i = 0 THEN {p} ELSE From(i, f[i - 1])]
<1>0. L \in Nat /\ \A k \in 1 .. L : ends[k] \in Onward(N)
  OBVIOUS
<1>1. EndsOfSequence(ends, p) = positions[L]
  BY DEF EndsOfSequence
<1>2. \A i \in 1 .. L, P \in V : From(i, P) \in V
  BY <1>0, UnionOfEnds
<1>3. \E f : f = [i \in 0 .. L |-> IF i = 0 THEN {p} ELSE From(i, f[i - 1])]
  <2>1. step \in Steps(V, L) /\ {p} \in V
    <3> HIDE DEF V, From, L
    <3>1. step \in Steps(V, L)
      BY <1>2 DEF Steps
    <3>2. {p} \in V
      BY DEF V
    <3> QED
      BY <3>1, <3>2
  <2>2. PICK f : FollowsSteps(f, V, L, {p}, step)
    <3> HIDE DEF V, step, L
    <3> QED
      BY <1>0, <2>1, RecursiveFunctionExists
  <2>3. f \in [0 .. L -> V] /\ f[0] = {p} /\ \A n \in 1 .. L : f[n] = step[n][f[n - 1]]
    BY <2>2 DEF FollowsSteps
  <2>4. ASSUME NEW i \in 0 .. L PROVE f[i] = IF i = 0 THEN {p} ELSE From(i, f[i - 1])
    <3> HIDE DEF V, From, L
    <3>1. CASE i = 0
      BY <2>3, <3>1
    <3>2. CASE i # 0
      <4>1. i \in 1 .. L /\ i - 1 \in 0 .. L
        BY <1>0, <3>2
      <4>2. f[i - 1] \in V
        BY <2>3, <4>1
      <4>3. step[i][f[i - 1]] = From(i, f[i - 1])
        BY <4>1, <4>2
      <4> QED
        BY <2>3, <3>2, <4>1, <4>3
    <3> QED
      BY <3>1, <3>2
  <2>5. f = [i \in 0 .. L |-> IF i = 0 THEN {p} ELSE From(i, f[i - 1])]
    <3> HIDE DEF V, From, L, step
    <3> QED
      BY <2>3, <2>4
  <2> HIDE DEF From, L
  <2> QED
    BY <2>5
<1>4. positions = [i \in 0 .. L |-> IF i = 0 THEN {p} ELSE From(i, positions[i - 1])]
  <2> HIDE DEF From, L
  <2> QED
    BY <1>3
<1> HIDE DEF positions
<1>4a. ASSUME NEW i \in 1 .. L PROVE positions[i] = From(i, positions[i - 1])
  <2> DEFINE F(f) == [k \in 0 .. L |-> IF k = 0 THEN {p} ELSE From(k, f[k - 1])]
  <2>1. F(positions)[i] = From(i, positions[i - 1])
    <3>1. i \in 0 .. L /\ i # 0
      BY <1>0
    <3> HIDE DEF From, L
    <3> QED
      BY <3>1
  <2>2. positions = F(positions)
    BY <1>4
  <2> HIDE DEF F, From, L
  <2>3. positions[i] = F(positions)[i]
    BY <2>2, Zenon
  <2> QED
    BY <2>1, <2>3
<1> DEFINE Seen(i) == { j \in p .. N : CanCut(ends, i, p, j) }
           S == { i \in 0 .. L : positions[i] = Seen(i) }
<1>5. 0 \in S
  <2>1. positions[0] = {p}
    BY <1>0, <1>4
  <2>2. ASSUME NEW j \in p .. N, NEW cuts, Cut(ends, 0, p, j, cuts) PROVE j = p
    BY <2>2 DEF Cut
  <2>3. Cut(ends, 0, p, p, [k \in 0 .. 0 |-> p])
    BY DEF Cut
  <2>4. Seen(0) = {p}
    BY <2>2, <2>3 DEF CanCut
  <2>5. 0 \in 0 .. L
    BY <1>0
  <2>6. positions[0] = Seen(0)
    BY <2>1, <2>4, Zenon
  <2> HIDE DEF Seen, L
  <2> QED
    BY <2>5, <2>6
<1>6. ASSUME NEW i \in 1 .. L, i - 1 \in S PROVE i \in S
  <2>1. i \in 0 .. L /\ i # 0 /\ i \in Nat \ {0} /\ \A k \in 1 .. i : ends[k] \in Onward(N)
    BY <1>0
  <2>2. positions[i] = From(i, Seen(i - 1))
    <3>1. positions[i - 1] = Seen(i - 1)
      BY <1>6
    <3> HIDE DEF Seen, From, L
    <3> QED
      BY <1>4a, <3>1, Zenon
  <2>3. \A j \in p .. N : j \in Seen(i) <=> j \in From(i, Seen(i - 1))
    <3> SUFFICES ASSUME NEW j \in p .. N
                 PROVE  j \in Seen(i) <=> j \in From(i, Seen(i - 1))
      OBVIOUS
    <3>1. j \in From(i, Seen(i - 1)) <=> \E q \in Seen(i - 1) : j \in ends[i][q]
      <4> HIDE DEF Seen
      <4> QED
        OBVIOUS
    <3>2. (\E q \in Seen(i - 1) : j \in ends[i][q])
          <=> \E q \in p .. N : j \in ends[i][q] /\ CanCut(ends, i - 1, p, q)
      BY Zenon
    <3>3. CanCut(ends, i, p, j)
          <=> \E q \in p .. N : j \in ends[i][q] /\ CanCut(ends, i - 1, p, q)
      <4>1. i \in Nat \ {0} /\ \A k \in 1 .. i : ends[k] \in Onward(N)
        BY <2>1
      <4> QED
        BY <4>1, CutLonger
    <3> QED
      BY <3>1, <3>2, <3>3, Zenon
  <2>4. From(i, Seen(i - 1)) \subseteq p .. N
    <3> SUFFICES ASSUME NEW q \in Seen(i - 1), NEW j \in ends[i][q] PROVE j \in p .. N
      OBVIOUS
    <3>1. q \in p .. N /\ ends[i] \in Onward(N)
      BY <2>1
    <3>2. ends[i][q] \subseteq q .. N
      BY <3>1, OnwardEnds
    <3> QED
      BY <3>1, <3>2
  <2>5. Seen(i) \subseteq p .. N
    OBVIOUS
  <2>6. Seen(i) = From(i, Seen(i - 1))
    <3> HIDE DEF Seen, From
    <3> QED
      BY <2>3, <2>4, <2>5
  <2> HIDE DEF Seen, From
  <2> QED
    BY <2>1, <2>2, <2>6
<1>7. \A i \in 0 .. L : i \in S
  <2> HIDE DEF S, L
  <2> QED
    BY <1>0, <1>5, <1>6, BoundedInduction
<1>8. positions[L] = Seen(L)
  BY <1>0, <1>7
<1>9. ASSUME NEW j \in p .. N
      PROVE  CanCut(ends, L, p, j) <=> StandForAll(ends, p, j)
  <2>1. DOMAIN ends = 1 .. L
    OBVIOUS
  <2> QED
    BY <2>1, Zenon DEF CanCut, Cut, StandForAll
<1> QED
  BY <1>1, <1>8, <1>9

-----------------------------------------------------------------------------
(* Repetitions.                                                          *)

\* A set of positions that is gone on from no further.
Closed(ends, C) == \A q \in C : ends[q] \subseteq C

\* There are only so many positions, and a larger set of them has more.
LEMMA PositionsAreFew ==
    ASSUME NEW N \in Nat, NEW S \in SUBSET (0 .. N)
    PROVE  /\ IsFiniteSet(S) /\ Cardinality(S) \in Nat /\ Cardinality(S) <= N + 1
           /\ \A T \in SUBSET (0 .. N) : T # {} /\ T \cap S = {} =>
                 Cardinality(S) < Cardinality(S \cup T)
<1>1. IsFiniteSet(0 .. N) /\ Cardinality(0 .. N) = N + 1
  BY FS_Interval
<1>2. \A U \in SUBSET (0 .. N) : IsFiniteSet(U) /\ Cardinality(U) \in Nat /\ Cardinality(U) <= N + 1
  <2> SUFFICES ASSUME NEW U \in SUBSET (0 .. N)
               PROVE  IsFiniteSet(U) /\ Cardinality(U) \in Nat /\ Cardinality(U) <= N + 1
    OBVIOUS
  <2>1. IsFiniteSet(U) /\ Cardinality(U) <= Cardinality(0 .. N)
    BY <1>1, FS_Subset
  <2> QED
    BY <1>1, <2>1, FS_CardinalityType
<1>3. ASSUME NEW T \in SUBSET (0 .. N), T # {}, T \cap S = {}
      PROVE  Cardinality(S) < Cardinality(S \cup T)
  <2>1. S \cup T \in SUBSET (0 .. N) /\ S \subseteq S \cup T /\ S # S \cup T
    BY <1>3
  <2>2. IsFiniteSet(S \cup T)
    BY <1>2, <2>1
  <2>3. Cardinality(S) <= Cardinality(S \cup T)
        /\ (Cardinality(S) = Cardinality(S \cup T) => S = S \cup T)
    BY <2>1, <2>2, FS_Subset
  <2>4. Cardinality(S) \in Nat /\ Cardinality(S \cup T) \in Nat
    BY <1>2, <2>1
  <2> QED
    BY <2>1, <2>3, <2>4
<1> QED
  BY <1>2, <1>3

\* match_repetition() comes to an end, because each turn adds a position or is the last,
\* and answers with the least set that has the first ends and is gone on from no further.
LEMMA RepeatedIsLeast ==
    ASSUME NEW N \in Nat, NEW ends \in Onward(N), NEW once \in SUBSET (0 .. N)
    PROVE  /\ Repeated(ends, once) \in SUBSET (0 .. N)
           /\ once \subseteq Repeated(ends, once)
           /\ Closed(ends, Repeated(ends, once))
           /\ \A C \in SUBSET (0 .. N) :
                 once \subseteq C /\ Closed(ends, C) => Repeated(ends, once) \subseteq C
<1> DEFINE D == SUBSET (0 .. N)
           T == D \X D
           Room(R) == (N + 1) - Cardinality(R)
           size == [at \in T |-> 2 * Room(at[1]) + (IF at[2] = {} THEN 0 ELSE 1)]
           G == [f \in [T -> D] |-> [at \in T |-> Met(ends, f, at[1], at[2])]]
           New(R, F) == (UNION { ends[q] : q \in F }) \ R
<1>0. DOMAIN ends = 0 .. N
  BY DEF Onward
<1>1. \A R, F \in D : New(R, F) \in D /\ R \cup New(R, F) \in D
  <2> SUFFICES ASSUME NEW R \in D, NEW F \in D
               PROVE  New(R, F) \in D
    OBVIOUS
  <2> QED
    BY UnionOfEnds
<1>2. \A f \in [T -> D], R, F \in D :
         Met(ends, f, R, F) = IF F = {} THEN R ELSE f[<<R \cup New(R, F), New(R, F)>>]
  BY DEF Met
<1>3. \A R \in D : Room(R) \in Nat
  BY PositionsAreFew
<1>4. size \in [T -> Nat]
  <2>1. \A at \in T : at[1] \in D /\ at[2] \in D
    OBVIOUS
  <2>2. \A at \in T : 2 * Room(at[1]) + (IF at[2] = {} THEN 0 ELSE 1) \in Nat
    <3> HIDE DEF Room, D, T
    <3> QED
      BY <1>3, <2>1
  <2> HIDE DEF Room, D, T
  <2> QED
    BY <2>2
<1>5. \A R, F \in D : <<R, F>> \in T
                      /\ size[<<R, F>>] = 2 * Room(R) + (IF F = {} THEN 0 ELSE 1)
  <2> HIDE DEF Room, D
  <2> QED
    OBVIOUS
<1>6. ASSUME NEW R \in D, NEW F \in D, F # {}
      PROVE  /\ <<R \cup New(R, F), New(R, F)>> \in T
             /\ size[<<R \cup New(R, F), New(R, F)>>] < size[<<R, F>>]
  <2> DEFINE W == New(R, F)
  <2>1. W \in D /\ R \cup W \in D /\ W \cap R = {}
    <3>1. W \in D /\ R \cup W \in D
      BY <1>1, Zenon
    <3>2. \A q \in W : q \notin R
      OBVIOUS
    <3> QED
      BY <3>1, <3>2
  <2> HIDE DEF W
  <2>2. size[<<R, F>>] = 2 * Room(R) + 1 /\ Room(R) \in Nat /\ Room(R \cup W) \in Nat
    <3>1. Room(R) \in Nat /\ Room(R \cup W) \in Nat
      BY <1>3, <2>1
    <3>2. size[<<R, F>>] = 2 * Room(R) + 1
      <4> HIDE DEF Room, D, size
      <4>1. size[<<R, F>>] = 2 * Room(R) + (IF F = {} THEN 0 ELSE 1)
        BY <1>5
      <4> QED
        BY <1>6, <4>1, Zenon
    <3> QED
      BY <3>1, <3>2
  <2>3. size[<<R \cup W, W>>] = 2 * Room(R \cup W) + (IF W = {} THEN 0 ELSE 1)
    <3> HIDE DEF Room, D, size
    <3> QED
      BY <1>5, <2>1
  <2>4. size[<<R \cup W, W>>] < size[<<R, F>>]
    <3>1. CASE W = {}
      <4>1. R \cup W = R
        BY <3>1
      <4> HIDE DEF Room, D, size
      <4> QED
        BY <2>2, <2>3, <3>1, <4>1
    <3>2. CASE W # {}
      <4>1. Cardinality(R) < Cardinality(R \cup W)
        BY <2>1, <3>2, PositionsAreFew
      <4>2. Cardinality(R) \in Nat /\ Cardinality(R \cup W) \in Nat
        BY <2>1, PositionsAreFew
      <4>3. Room(R \cup W) < Room(R)
        BY <4>1, <4>2
      <4> HIDE DEF Room, D, size
      <4> QED
        BY <2>2, <2>3, <3>2, <4>3
    <3> QED
      BY <3>1, <3>2
  <2>5. <<R \cup W, W>> \in T
    BY <2>1
  <2> HIDE DEF size, T
  <2> QED
    BY <2>4, <2>5 DEF W
<1> HIDE DEF New, size, Room
<1>7. G \in [[T -> D] -> [T -> D]]
  <2> SUFFICES ASSUME NEW f \in [T -> D], NEW at \in T
               PROVE  Met(ends, f, at[1], at[2]) \in D
    <3> HIDE DEF T, D
    <3> QED
      OBVIOUS
  <2>1. at[1] \in D /\ at[2] \in D
    OBVIOUS
  <2>2. <<at[1] \cup New(at[1], at[2]), New(at[1], at[2])>> \in T
    BY <1>1, <2>1
  <2> HIDE DEF D, T
  <2>3. Met(ends, f, at[1], at[2])
        = IF at[2] = {} THEN at[1]
          ELSE f[<<at[1] \cup New(at[1], at[2]), New(at[1], at[2])>>]
    BY <1>2, <2>1
  <2> QED
    BY <2>1, <2>2, <2>3
<1>8. ASSUME NEW f \in [T -> D], NEW g \in [T -> D], NEW x \in T,
             \A t \in T : size[t] < size[x] => f[t] = g[t]
      PROVE  G[f][x] = G[g][x]
  <2>1. PICK R \in D, F \in D : x = <<R, F>>
    OBVIOUS
  <2>2. G[f][x] = Met(ends, f, R, F) /\ G[g][x] = Met(ends, g, R, F)
    <3>1. x[1] = R /\ x[2] = F
      BY <2>1
    <3> HIDE DEF D, T
    <3> QED
      BY <3>1
  <2> HIDE DEF D, T, G
  <2>3. CASE F = {}
    <3>1. Met(ends, f, R, F) = R /\ Met(ends, g, R, F) = R
      BY <2>3 DEF Met
    <3> QED
      BY <2>2, <3>1
  <2>4. CASE F # {}
    <3>1. f[<<R \cup New(R, F), New(R, F)>>] = g[<<R \cup New(R, F), New(R, F)>>]
      BY <1>6, <1>8, <2>1, <2>4
    <3> QED
      BY <1>2, <2>2, <2>4, <3>1
  <2> QED
    BY <2>3, <2>4
<1>9. \E f \in [T -> D] : f = G[f]
  <2>1. D # {}
    OBVIOUS
  <2> HIDE DEF D, T, G
  <2>2. Descends(G, T, D, size)
    BY <1>4, <1>7, <1>8, <2>1 DEF Descends
  <2> QED
    BY <2>2, RecursionExists
<1>10. \E f : f = [at \in T |-> Met(ends, f, at[1], at[2])]
  <2>1. PICK f \in [T -> D] : f = G[f]
    BY <1>9
  <2>2. G[f] = [at \in T |-> Met(ends, f, at[1], at[2])]
    <3> HIDE DEF D, T
    <3> QED
      OBVIOUS
  <2>3. f = [at \in T |-> Met(ends, f, at[1], at[2])]
    <3> HIDE DEF G
    <3> QED
      BY <2>1, <2>2, Zenon
  <2> HIDE DEF T, D, G
  <2> QED
    BY <2>3
<1> DEFINE repeated == CHOOSE f : f = [at \in T |-> Met(ends, f, at[1], at[2])]
<1>11. Repeated(ends, once) = repeated[<<once, once>>]
  BY <1>0 DEF Repeated
<1> DEFINE H(f) == [at \in T |-> Met(ends, f, at[1], at[2])]
<1>12. repeated = H(repeated)
  <2> HIDE DEF T
  <2> QED
    BY <1>10
<1> HIDE DEF repeated
<1>13. \A R, F \in D : repeated[<<R, F>>] =
          IF F = {} THEN R ELSE repeated[<<R \cup New(R, F), New(R, F)>>]
  <2> SUFFICES ASSUME NEW R \in D, NEW F \in D
               PROVE  repeated[<<R, F>>] =
                         IF F = {} THEN R ELSE repeated[<<R \cup New(R, F), New(R, F)>>]
    OBVIOUS
  <2>1. H(repeated)[<<R, F>>] = Met(ends, repeated, R, F)
    <3>1. <<R, F>> \in T
      OBVIOUS
    <3> HIDE DEF T, D
    <3> QED
      BY <3>1
  <2>2. Met(ends, repeated, R, F) = IF F = {} THEN R ELSE repeated[<<R \cup New(R, F), New(R, F)>>]
    BY DEF Met, New
  <2> HIDE DEF H
  <2> QED
    BY <1>12, <2>1, <2>2, Zenon
<1> DEFINE Fits(R, F) == F \subseteq R /\ \A q \in R \ F : ends[q] \subseteq R
           Least(R, A) == /\ A \in D /\ R \subseteq A /\ Closed(ends, A)
                          /\ \A C \in D : R \subseteq C /\ Closed(ends, C) => A \subseteq C
           S == { at \in T : Fits(at[1], at[2]) => Least(at[1], repeated[at]) }
<1>14. ASSUME NEW R \in D, NEW F \in D, Fits(R, F), F # {}
       PROVE  /\ Fits(R \cup New(R, F), New(R, F))
              /\ \A A : Least(R \cup New(R, F), A) => Least(R, A)
  <2>1. Fits(R \cup New(R, F), New(R, F))
    <3> DEFINE U == UNION { ends[q] : q \in F }
    <3>1. R \cup New(R, F) = R \cup U
      BY DEF New
    <3>2. ASSUME NEW q \in (R \cup New(R, F)) \ New(R, F)
          PROVE  ends[q] \subseteq R \cup U
      <4>1. q \in R
        OBVIOUS
      <4>2. CASE q \in F
        <5>1. ends[q] \subseteq U
          BY <4>2
        <5> QED
          BY <5>1
      <4>3. CASE q \notin F
        BY <1>14, <4>1, <4>3
      <4> QED
        BY <4>2, <4>3
    <3> HIDE DEF U
    <3>3. \A q \in (R \cup New(R, F)) \ New(R, F) : ends[q] \subseteq R \cup New(R, F)
      BY <3>1, <3>2, Zenon
    <3> QED
      BY <3>3
  <2>2. \A C \in D : R \subseteq C /\ Closed(ends, C) => R \cup New(R, F) \subseteq C
    BY <1>14 DEF New, Closed
  <2> QED
    BY <2>1, <2>2
<1>15. ASSUME NEW x \in T, \A t \in T : size[t] < size[x] => t \in S
       PROVE  x \in S
  <2>1. PICK R \in D, F \in D : x = <<R, F>>
    OBVIOUS
  <2>2. x[1] = R /\ x[2] = F
    BY <2>1
  <2>3. SUFFICES ASSUME Fits(R, F) PROVE Least(R, repeated[<<R, F>>])
    <3> HIDE DEF Fits, Least
    <3> QED
      BY <2>1, <2>2
  <2>4. CASE F = {}
    <3>1. repeated[<<R, F>>] = R
      BY <1>13, <2>4
    <3>2. Least(R, R)
      BY <2>3, <2>4 DEF Closed
    <3> HIDE DEF Least
    <3> QED
      BY <3>1, <3>2
  <2>5. CASE F # {}
    <3> DEFINE W == New(R, F)
               y == <<R \cup W, W>>
    <3>1. y \in S
      <4> HIDE DEF S, T, D
      <4> QED
        BY <1>6, <1>15, <2>1, <2>5
    <3>2. Fits(R \cup W, W) /\ \A A : Least(R \cup W, A) => Least(R, A)
      <4> HIDE DEF Fits, Least
      <4> QED
        BY <1>14, <2>3, <2>5
    <3>3. Fits(R \cup W, W) => Least(R \cup W, repeated[y])
      <4>1. y[1] = R \cup W /\ y[2] = W
        OBVIOUS
      <4> HIDE DEF Fits, Least, y, W
      <4> QED
        BY <3>1, <4>1
    <3>4. repeated[<<R, F>>] = repeated[y]
      <4> HIDE DEF D
      <4> QED
        BY <1>13, <2>5
    <3> HIDE DEF Fits, Least, y, W
    <3> QED
      BY <3>2, <3>3, <3>4
  <2> QED
    BY <2>4, <2>5
<1>16. T \subseteq S
  <2> HIDE DEF S, T
  <2> QED
    BY <1>4, <1>15, SizeInduction
<1>17. <<once, once>> \in T /\ Fits(once, once)
  OBVIOUS
<1>18. Least(once, repeated[<<once, once>>])
  <2> DEFINE at == <<once, once>>
  <2>1. at[1] = once /\ at[2] = once
    OBVIOUS
  <2>2. at \in S
    <3> HIDE DEF S, T
    <3> QED
      BY <1>16, <1>17
  <2> HIDE DEF Fits, Least, at
  <2>3. Fits(at[1], at[2]) => Least(at[1], repeated[at])
    BY <2>2
  <2> QED
    BY <1>17, <2>1, <2>3 DEF at
<1> QED
  BY <1>11, <1>18


\* What a repetition stands for, if its operand stands for what it matches.
RepeatsFrom(ends, once, p, N) ==
    { j \in p .. N : (j = p /\ p \in once) \/ StandForRepeats(ends, p, j) }

\* One piece.
LEMMA OneRepeat ==
    ASSUME NEW N \in Nat, NEW ends \in Onward(N), NEW p \in 0 .. N, NEW j \in ends[p], p < j
    PROVE  StandForRepeats(ends, p, j)
<1> DEFINE cuts == {p, j}
<1>1. j \in p .. N
  BY OnwardEnds
<1>2. cuts \in SUBSET (p .. j) /\ {p, j} \subseteq cuts
  BY <1>1
<1>3. ASSUME NEW a \in cuts, NEW b \in cuts, Adjacent(cuts, a, b) PROVE b \in ends[a]
  <2>1. a < b
    BY <1>3 DEF Adjacent
  <2>2. a = p /\ b = j
    BY <1>1, <2>1
  <2> QED
    BY <2>2
<1> HIDE DEF cuts
<1> QED
  BY <1>2, <1>3 DEF StandForRepeats

\* One more piece behind others.
LEMMA AnotherRepeat ==
    ASSUME NEW N \in Nat, NEW ends \in Onward(N), NEW p \in 0 .. N, NEW q \in p .. N,
           StandForRepeats(ends, p, q), NEW j \in ends[q], q < j
    PROVE  StandForRepeats(ends, p, j)
<1>1. p < q
  BY DEF StandForRepeats
<1>2. PICK cuts \in SUBSET (p .. q) :
         {p, q} \subseteq cuts /\ \A a, b \in cuts : Adjacent(cuts, a, b) => b \in ends[a]
  BY DEF StandForRepeats
<1> DEFINE more == cuts \cup {j}
<1>3. q \in 0 .. N /\ j \in q .. N
  <2>1. q \in 0 .. N
    OBVIOUS
  <2> QED
    BY <2>1, OnwardEnds
<1>4. more \in SUBSET (p .. j) /\ {p, j} \subseteq more
  BY <1>2, <1>3
<1>5. ASSUME NEW a \in more, NEW b \in more, Adjacent(more, a, b) PROVE b \in ends[a]
  <2>1. a < b /\ \A c \in more : ~(a < c /\ c < b)
    BY <1>5 DEF Adjacent
  <2>2. \A c \in cuts : c \in p .. q /\ c < j /\ c \in more
    BY <1>2, <1>3
  <2>3. a \in p .. j /\ b \in p .. j
    BY <1>4
  <2>4. CASE b = j
    <3>1. a \in cuts
      BY <2>1, <2>4
    <3>2. ~(a < q /\ q < j)
      BY <1>2, <2>1, <2>4
    <3>3. a = q
      BY <1>3, <2>2, <3>1, <3>2
    <3> QED
      BY <2>4, <3>3
  <2>5. CASE b # j
    <3>1. b \in cuts /\ b < j
      BY <2>2, <2>5
    <3>2. a \in cuts
      <4>1. a # j
        BY <1>3, <2>1, <2>3, <3>1
      <4> QED
        BY <4>1
    <3>3. Adjacent(cuts, a, b)
      BY <2>1, <2>2 DEF Adjacent
    <3> QED
      BY <1>2, <3>1, <3>2, <3>3
  <2> QED
    BY <2>4, <2>5
<1>6. p < j
  BY <1>1, <1>3
<1> HIDE DEF more
<1> QED
  BY <1>4, <1>5, <1>6 DEF StandForRepeats

\* What a repetition stands for has the first ends, and is gone on from no further.
LEMMA RepeatsAreClosed ==
    ASSUME NEW N \in Nat, NEW ends \in Onward(N), NEW p \in 0 .. N, NEW once \in SUBSET (0 .. N),
           once = {p} \/ once = ends[p]
    PROVE  /\ RepeatsFrom(ends, once, p, N) \in SUBSET (0 .. N)
           /\ once \subseteq RepeatsFrom(ends, once, p, N)
           /\ Closed(ends, RepeatsFrom(ends, once, p, N))
<1> DEFINE W == RepeatsFrom(ends, once, p, N)
<1>1. W \in SUBSET (0 .. N)
  BY DEF RepeatsFrom
<1>2. ASSUME NEW j \in once PROVE j \in W
  <2>1. j \in p .. N
    BY OnwardEnds
  <2>2. CASE j = p
    BY <2>1, <2>2 DEF RepeatsFrom
  <2>3. CASE j # p
    <3>1. j \in ends[p] /\ p < j
      BY <2>1, <2>3
    <3> QED
      BY <2>1, <3>1, OneRepeat DEF RepeatsFrom
  <2> QED
    BY <2>2, <2>3
<1>3. ASSUME NEW q \in W, NEW j \in ends[q] PROVE j \in W
  <2>1. q \in p .. N /\ q \in 0 .. N
    BY DEF RepeatsFrom
  <2>2. j \in q .. N
    BY <2>1, OnwardEnds
  <2>3. CASE j = q
    BY <2>3
  <2>4. CASE j # q /\ q = p
    <3>1. StandForRepeats(ends, p, j)
      <4>1. p < j /\ j \in ends[p]
        BY <2>1, <2>2, <2>4
      <4> QED
        BY <4>1, OneRepeat
    <3> QED
      BY <2>2, <2>4, <3>1 DEF RepeatsFrom
  <2>5. CASE j # q /\ q # p
    <3>1. StandForRepeats(ends, p, q)
      BY <2>5 DEF RepeatsFrom
    <3>2. q < j
      BY <2>1, <2>2, <2>5
    <3>3. StandForRepeats(ends, p, j)
      BY <2>1, <3>1, <3>2, AnotherRepeat
    <3>4. j \in p .. N
      BY <2>1, <2>2
    <3> QED
      BY <3>3, <3>4 DEF RepeatsFrom
  <2> QED
    BY <2>3, <2>4, <2>5
<1> HIDE DEF W
<1>4. once \subseteq W /\ Closed(ends, W)
  BY <1>2, <1>3 DEF Closed
<1> QED
  BY <1>1, <1>4 DEF W

\* A set that has the first cut's neighbour, and is gone on from no further, has every cut.
LEMMA CutsAreReached ==
    ASSUME NEW N \in Nat, NEW ends \in Onward(N), NEW p \in 0 .. N, NEW j \in p .. N,
           NEW R \in SUBSET (0 .. N), ends[p] \subseteq R, Closed(ends, R),
           StandForRepeats(ends, p, j)
    PROVE  j \in R
<1>1. PICK cuts \in SUBSET (p .. j) :
         {p, j} \subseteq cuts /\ \A a, b \in cuts : Adjacent(cuts, a, b) => b \in ends[a]
  BY DEF StandForRepeats
<1> DEFINE Missed == { c \in cuts : p < c /\ c \notin R }
<1>2. p < j
  BY DEF StandForRepeats
<1> SUFFICES ASSUME j \notin R PROVE FALSE
  OBVIOUS
<1>2a. \A c \in cuts : c \in Nat /\ c \in 0 .. N
  BY <1>1
<1>2b. p \in cuts /\ j \in cuts
  BY <1>1
<1>3. j \in Missed /\ Missed \in SUBSET Nat
  BY <1>2, <1>2a, <1>2b
<1>4. PICK b \in Missed : \A c \in Missed : b <= c
  <2> HIDE DEF Missed
  <2> QED
    BY <1>3, LeastNatural
<1> DEFINE Before == { c \in cuts : c < b }
<1>5. b \in cuts /\ p < b /\ b \notin R /\ b \in 0 .. N
  BY <1>1
<1>6. Before \in SUBSET (0 .. N) /\ p \in Before
  BY <1>2a, <1>2b, <1>5
<1>7. PICK a \in Before : \A c \in Before : c <= a
  <2> HIDE DEF Before
  <2> QED
    BY <1>6, GreatestOf
<1>8. a \in cuts /\ a < b /\ a \in 0 .. N
  BY <1>6
<1>9. Adjacent(cuts, a, b)
  <2> SUFFICES ASSUME NEW c \in cuts, a < c, c < b PROVE FALSE
    BY <1>8 DEF Adjacent
  <2>1. c \in Before /\ c \in 0 .. N
    BY <1>1
  <2>2. c <= a
    BY <1>7, <2>1
  <2> QED
    BY <1>8, <2>1, <2>2
<1>10. b \in ends[a]
  BY <1>1, <1>5, <1>8, <1>9
<1>11. CASE a = p
  BY <1>5, <1>10, <1>11
<1>12. CASE a # p
  <2>1. p < a
    BY <1>1, <1>8, <1>12
  <2>2. a \in R
    <3> SUFFICES ASSUME a \notin R PROVE FALSE
      OBVIOUS
    <3>1. a \in Missed
      BY <1>8, <2>1
    <3>2. b <= a
      BY <1>4, <3>1
    <3> QED
      BY <1>5, <1>8, <3>2
  <2> QED
    BY <1>5, <1>10, <2>2 DEF Closed
<1> QED
  BY <1>11, <1>12

\* A repetition: match_repetition() finds all the ways to cut the text into pieces.
LEMMA RepeatedEnds ==
    ASSUME NEW N \in Nat, NEW ends \in Onward(N), NEW p \in 0 .. N, NEW once \in SUBSET (0 .. N),
           once = {p} \/ once = ends[p]
    PROVE  Repeated(ends, once) = RepeatsFrom(ends, once, p, N)
<1> DEFINE R == Repeated(ends, once)
           W == RepeatsFrom(ends, once, p, N)
<1>1. /\ R \in SUBSET (0 .. N) /\ once \subseteq R /\ Closed(ends, R)
      /\ \A C \in SUBSET (0 .. N) : once \subseteq C /\ Closed(ends, C) => R \subseteq C
  BY RepeatedIsLeast
<1>2. W \in SUBSET (0 .. N) /\ once \subseteq W /\ Closed(ends, W)
  BY RepeatsAreClosed
<1> HIDE DEF R
<1>3. R \subseteq W
  <2> HIDE DEF W
  <2> QED
    BY <1>1, <1>2
<1>4. ends[p] \subseteq R
  BY <1>1 DEF Closed
<1>5. ASSUME NEW j \in W PROVE j \in R
  <2>1. j \in p .. N /\ ((j = p /\ p \in once) \/ StandForRepeats(ends, p, j))
    BY DEF RepeatsFrom
  <2>2. CASE j = p /\ p \in once
    BY <1>1, <2>2
  <2>3. CASE StandForRepeats(ends, p, j)
    BY <1>1, <1>4, <2>1, <2>3, CutsAreReached
  <2> QED
    BY <2>1, <2>2, <2>3
<1>6. R = W
  <2> HIDE DEF W
  <2> QED
    BY <1>3, <1>5
<1> QED
  BY <1>6 DEF R

-----------------------------------------------------------------------------
(* The matcher as a whole, by induction over the height of the tree.     *)

\* The kinds of nodes (PatternNodes.hpp).
NodeKinds == {"literal", "any", "start", "end", "class", "sequence", "alternation", "repetition", "group"}

\* The parts that each kind of tree has.
LEMMA TreeShapes ==
    ASSUME NEW A, NEW t \in TreesOver(A)
    PROVE  /\ t.kind \in NodeKinds
           /\ t.kind = "sequence" => t.elements \in Seq(A)
           /\ t.kind = "alternation" => t.alternatives \in Seq(A)
           /\ t.kind = "repetition" => t.operand \in A /\ t.type \in {"*", "+"}
           /\ t.kind = "group" => t.expression \in A
<1>1. CASE t \in [kind : {"literal"}, value : Bytes]
  BY <1>1 DEF NodeKinds
<1>2. CASE t \in { AnyCharacter, StartOfLine, EndOfLine }
  BY <1>2 DEF NodeKinds, AnyCharacter, StartOfLine, EndOfLine
<1>3. CASE t \in [kind : {"class"}, negated : BOOLEAN, ranges : Seq(Bytes \X Bytes)]
  BY <1>3 DEF NodeKinds
<1>4. CASE t \in [kind : {"sequence"}, elements : Seq(A)]
  BY <1>4 DEF NodeKinds
<1>5. CASE t \in [kind : {"alternation"}, alternatives : Seq(A)]
  BY <1>5 DEF NodeKinds
<1>6. CASE t \in [kind : {"repetition"}, operand : A, type : {"*", "+"}]
  BY <1>6 DEF NodeKinds
<1>7. CASE t \in [kind : {"group"}, expression : A]
  BY <1>7 DEF NodeKinds
<1> QED
  BY <1>1, <1>2, <1>3, <1>4, <1>5, <1>6, <1>7, Zenon DEF TreesOver

\* The height of a tree.
Tall == [t \in Trees |-> CHOOSE n \in 0 .. LongestPattern :
            t \in Height(n) /\ \A m \in 0 .. LongestPattern : t \in Height(m) => n <= m]

\* Every tree has a least height.
LEMMA TreesHaveHeights ==
    ASSUME NEW t \in Trees
    PROVE  /\ Tall[t] \in 0 .. LongestPattern
           /\ t \in Height(Tall[t])
           /\ \A m \in 0 .. LongestPattern : t \in Height(m) => Tall[t] <= m
<1> DEFINE S == { n \in 0 .. LongestPattern : t \in Height(n) }
<1>0. LongestPattern \in Nat
  BY PatternMatcherAssumption
<1>1. LongestPattern \in S /\ S \in SUBSET Nat
  BY <1>0 DEF Height, Trees
<1>2. \E n \in S : \A m \in S : n <= m
  <2> HIDE DEF S
  <2> QED
    BY <1>1, LeastNatural
<1>3. \E n \in 0 .. LongestPattern :
         t \in Height(n) /\ \A m \in 0 .. LongestPattern : t \in Height(m) => n <= m
  BY <1>2
<1> QED
  BY <1>3 DEF Tall

\* What the recursion goes down to.
IsPart(c, t) ==
    \/ t.kind = "sequence" /\ \E k \in DOMAIN t.elements : c = t.elements[k]
    \/ t.kind = "alternation" /\ \E k \in DOMAIN t.alternatives : c = t.alternatives[k]
    \/ t.kind = "repetition" /\ c = t.operand
    \/ t.kind = "group" /\ c = t.expression

\* The parts of a tree are trees of less height.
LEMMA PartsAreLower ==
    ASSUME NEW t \in Trees, NEW c, IsPart(c, t)
    PROVE  c \in Trees /\ Tall[c] < Tall[t]
<1> DEFINE n == Tall[t]
           A == IF n = 0 THEN {} ELSE Height(n - 1)
<1>0. LongestPattern \in Nat
  BY PatternMatcherAssumption
<1>1. n \in 0 .. LongestPattern /\ t \in Height(n)
  BY TreesHaveHeights
<1>2. t \in TreesOver(A)
  <2> HIDE DEF n
  <2> QED
    BY <1>1, TreesOfHeight
<1>3. c \in A
  <2> HIDE DEF A
  <2>1. /\ t.kind = "sequence" => t.elements \in Seq(A)
        /\ t.kind = "alternation" => t.alternatives \in Seq(A)
        /\ t.kind = "repetition" => t.operand \in A
        /\ t.kind = "group" => t.expression \in A
    BY <1>2, TreeShapes
  <2>2. \A list \in Seq(A) : \A k \in DOMAIN list : list[k] \in A
    OBVIOUS
  <2> QED
    BY <2>1, <2>2 DEF IsPart
<1>4. n # 0 /\ c \in Height(n - 1)
  <2> HIDE DEF n
  <2> QED
    BY <1>3
<1>5. n - 1 \in 0 .. LongestPattern
  <2> HIDE DEF n
  <2> QED
    BY <1>0, <1>1, <1>4
<1>6. c \in Trees
  <2>1. LongestPattern \in 0 .. LongestPattern
    BY <1>0
  <2>2. Height(n - 1) \subseteq Height(LongestPattern)
    <3> HIDE DEF n
    <3> QED
      BY <1>5, <2>1, HeightsGrow
  <2> QED
    BY <1>4, <2>2 DEF Trees, Height
<1>7. Tall[c] <= n - 1 /\ Tall[c] \in 0 .. LongestPattern
  <2> HIDE DEF n
  <2> QED
    BY <1>4, <1>5, <1>6, TreesHaveHeights
<1> QED
  BY <1>0, <1>1, <1>6, <1>7

\* The kinds of trees.
LEMMA TreeKinds ==
    ASSUME NEW t \in Trees
    PROVE  /\ t.kind \in NodeKinds
           /\ t.kind = "sequence" => t.elements \in Seq(Trees)
           /\ t.kind = "alternation" => t.alternatives \in Seq(Trees)
           /\ t.kind = "repetition" => t.type \in {"*", "+"}
<1> DEFINE A == IF LongestPattern = 0 THEN {} ELSE Height(LongestPattern - 1)
<1>0. LongestPattern \in Nat /\ LongestPattern \in 0 .. LongestPattern
  BY PatternMatcherAssumption
<1>1. t \in TreesOver(A)
  BY <1>0, TreesOfHeight DEF Trees, Height
<1>2. A \subseteq Trees
  <2>1. LongestPattern # 0 => LongestPattern - 1 \in 0 .. LongestPattern
    BY <1>0
  <2> QED
    BY <1>0, <2>1, HeightsGrow DEF Trees, Height
<1> HIDE DEF A
<1>3. Seq(A) \subseteq Seq(Trees)
  BY <1>2
<1> QED
  BY <1>1, <1>3, TreeShapes

\* Every part of the node matches from a position to no earlier one.
PartsOnward(node, f, N) == \A c : IsPart(c, node) => f[c] \in Onward(N)

\* What a tree stands for depends on its parts alone.
LEMMA StandsNeedsParts ==
    ASSUME NEW node \in Trees, NEW f, NEW g, \A c : IsPart(c, node) => f[c] = g[c],
           NEW t, NEW i, NEW j
    PROVE  Stands(node, f, t, i, j) = Stands(node, g, t, i, j)
<1>1. CASE node.kind = "sequence"
  <2>1. [k \in DOMAIN node.elements |-> f[node.elements[k]]]
        = [k \in DOMAIN node.elements |-> g[node.elements[k]]]
    BY <1>1 DEF IsPart
  <2> DEFINE F == [k \in DOMAIN node.elements |-> f[node.elements[k]]]
             H == [k \in DOMAIN node.elements |-> g[node.elements[k]]]
  <2>2. Stands(node, f, t, i, j) = StandForAll(F, i, j) /\ Stands(node, g, t, i, j) = StandForAll(H, i, j)
    BY <1>1 DEF Stands
  <2> HIDE DEF F, H
  <2> QED
    BY <2>1, <2>2 DEF F, H
<1>2. CASE node.kind = "alternation"
  <2>1. \A k \in DOMAIN node.alternatives : f[node.alternatives[k]] = g[node.alternatives[k]]
    BY <1>2 DEF IsPart
  <2> QED
    BY <1>2, <2>1 DEF Stands
<1>3. CASE node.kind = "repetition"
  <2>1. f[node.operand] = g[node.operand]
    BY <1>3 DEF IsPart
  <2> QED
    BY <1>3, <2>1 DEF Stands
<1>4. CASE node.kind = "group"
  <2>1. f[node.expression] = g[node.expression]
    BY <1>4 DEF IsPart
  <2> QED
    BY <1>4, <2>1 DEF Stands
<1>5. CASE node.kind \in {"literal", "any", "start", "end", "class"}
  BY <1>5 DEF Stands
<1> QED
  BY <1>1, <1>2, <1>3, <1>4, <1>5, TreeKinds DEF NodeKinds


\* A node that takes one byte.
LEMMA LeafEnds ==
    ASSUME NEW N \in Nat, NEW p \in 0 .. N, NEW b \in BOOLEAN
    PROVE  (IF p < N /\ b THEN {p + 1} ELSE {}) = { j \in p .. N : j = p + 1 /\ b }
OBVIOUS


\* One node, if its parts match from a position to no earlier one: match_from()
\* answers with what the node stands for.
LEMMA NodeEnds ==
    ASSUME NEW t \in Seq(Bytes), NEW node \in Trees, NEW f, PartsOnward(node, f, Len(t)),
           NEW p \in 0 .. Len(t)
    PROVE  EndsOf(node, f, t, p) = { j \in p .. Len(t) : Stands(node, f, t, p, j) }
<1> DEFINE N == Len(t)
<1>0. N \in Nat
  OBVIOUS
<1>1. CASE node.kind = "literal"
  <2> DEFINE b == t[p + 1] = node.value
  <2>1. EndsOf(node, f, t, p) = IF p < N /\ b THEN {p + 1} ELSE {}
    BY <1>1 DEF EndsOf, Takes
  <2>2. \A j \in p .. N : Stands(node, f, t, p, j) <=> j = p + 1 /\ b
    BY <1>1 DEF Stands
  <2>3. b \in BOOLEAN
    OBVIOUS
  <2> HIDE DEF N, b
  <2> QED
    BY <1>0, <2>1, <2>2, <2>3, LeafEnds DEF N
<1>2. CASE node.kind = "any"
  <2>1. EndsOf(node, f, t, p) = IF p < N /\ TRUE THEN {p + 1} ELSE {}
    BY <1>2 DEF EndsOf, Takes
  <2>2. \A j \in p .. N : Stands(node, f, t, p, j) <=> j = p + 1
    BY <1>2 DEF Stands
  <2> QED
    BY <1>0, <2>1, <2>2
<1>3. CASE node.kind = "class"
  <2> DEFINE b == InClass(node, t[p + 1])
  <2>1. EndsOf(node, f, t, p) = IF p < N /\ b THEN {p + 1} ELSE {}
    BY <1>3 DEF EndsOf, Takes
  <2>2. \A j \in p .. N : Stands(node, f, t, p, j) <=> j = p + 1 /\ b
    BY <1>3 DEF Stands
  <2>3. b \in BOOLEAN
    BY DEF InClass
  <2> HIDE DEF N, b
  <2> QED
    BY <1>0, <2>1, <2>2, <2>3, LeafEnds DEF N
<1>4. CASE node.kind = "start"
  <2>1. EndsOf(node, f, t, p) = IF p = 0 THEN {p} ELSE {}
    BY <1>4 DEF EndsOf
  <2>2. \A j \in p .. N : Stands(node, f, t, p, j) <=> p = j /\ p = 0
    BY <1>4 DEF Stands
  <2> QED
    BY <1>0, <2>1, <2>2
<1>5. CASE node.kind = "end"
  <2>1. EndsOf(node, f, t, p) = IF p = N THEN {p} ELSE {}
    BY <1>5 DEF EndsOf
  <2>2. \A j \in p .. N : Stands(node, f, t, p, j) <=> p = j /\ p = N
    BY <1>5 DEF Stands
  <2> QED
    BY <1>0, <2>1, <2>2
<1>6. CASE node.kind = "sequence"
  <2> DEFINE list == [k \in DOMAIN node.elements |-> f[node.elements[k]]]
  <2>1. EndsOf(node, f, t, p) = EndsOfSequence(list, p)
    BY <1>6 DEF EndsOf
  <2>2. \A j \in p .. N : Stands(node, f, t, p, j) <=> StandForAll(list, p, j)
    BY <1>6 DEF Stands
  <2>3. list \in Seq(Onward(N))
    <3>1. node.elements \in Seq(Trees)
      BY <1>6, TreeKinds
    <3>2. \A k \in DOMAIN node.elements : f[node.elements[k]] \in Onward(N)
      BY <1>6 DEF PartsOnward, IsPart
    <3> QED
      BY <3>1, <3>2
  <2>4. EndsOfSequence(list, p) = { j \in p .. N : StandForAll(list, p, j) }
    <3> HIDE DEF list, N
    <3> QED
      BY <1>0, <2>3, SequenceEnds DEF N
  <2> HIDE DEF list
  <2> QED
    BY <2>1, <2>2, <2>4
<1>7. CASE node.kind = "alternation"
  <2> DEFINE a == node.alternatives
  <2>1. EndsOf(node, f, t, p) = UNION { f[a[k]][p] : k \in DOMAIN a }
    BY <1>7 DEF EndsOf
  <2>2. \A j \in p .. N : Stands(node, f, t, p, j) <=> \E k \in DOMAIN a : j \in f[a[k]][p]
    BY <1>7 DEF Stands
  <2>3. \A k \in DOMAIN a : f[a[k]][p] \subseteq p .. N
    <3>1. \A k \in DOMAIN a : f[a[k]] \in Onward(N)
      BY <1>7 DEF PartsOnward, IsPart
    <3> HIDE DEF a, N
    <3> QED
      BY <1>0, <3>1, OnwardEnds DEF N
  <2> HIDE DEF a, N
  <2> QED
    BY <2>1, <2>2, <2>3 DEF N
<1>8. CASE node.kind = "repetition"
  <2> DEFINE e == f[node.operand]
             once == IF node.type = "*" THEN {p} ELSE e[p]
  <2>1. EndsOf(node, f, t, p) = Repeated(e, once)
    BY <1>8 DEF EndsOf
  <2>2. e \in Onward(N)
    BY <1>8 DEF PartsOnward, IsPart
  <2>3. once \in SUBSET (0 .. N) /\ (once = {p} \/ once = e[p])
    <3>1. e[p] \in SUBSET (0 .. N)
      <4> HIDE DEF e, N
      <4> QED
        BY <1>0, <2>2, OnwardEnds DEF N
    <3> HIDE DEF e
    <3> QED
      BY <3>1
  <2>4. Repeated(e, once) = RepeatsFrom(e, once, p, N)
    <3> HIDE DEF e, once, N
    <3> QED
      BY <1>0, <2>2, <2>3, RepeatedEnds DEF N
  <2>5. \A j \in p .. N : Stands(node, f, t, p, j)
           <=> (p = j /\ (node.type = "*" \/ j \in e[p])) \/ StandForRepeats(e, p, j)
    BY <1>8 DEF Stands
  <2>6. \A j \in p .. N : (p = j /\ (node.type = "*" \/ j \in e[p])) <=> (j = p /\ p \in once)
    <3> HIDE DEF e
    <3> QED
      OBVIOUS
  <2>7. RepeatsFrom(e, once, p, N) = { j \in p .. N : (j = p /\ p \in once) \/ StandForRepeats(e, p, j) }
    BY Zenon DEF RepeatsFrom
  <2> HIDE DEF e, once
  <2> QED
    BY <2>1, <2>4, <2>5, <2>6, <2>7
<1>9. CASE node.kind = "group"
  <2>1. EndsOf(node, f, t, p) = f[node.expression][p]
    BY <1>9 DEF EndsOf
  <2>2. \A j \in p .. N : Stands(node, f, t, p, j) <=> j \in f[node.expression][p]
    BY <1>9 DEF Stands
  <2>3. f[node.expression][p] \subseteq p .. N
    <3>1. f[node.expression] \in Onward(N)
      BY <1>9 DEF PartsOnward, IsPart
    <3> HIDE DEF N
    <3> QED
      BY <1>0, <3>1, OnwardEnds DEF N
  <2> QED
    BY <2>1, <2>2, <2>3
<1> QED
  BY <1>1, <1>2, <1>3, <1>4, <1>5, <1>6, <1>7, <1>8, <1>9, TreeKinds DEF NodeKinds

\* What a node stands for, and what it matches, when the answers of its parts are f.
NodeStands(node, f, t) == [i \in 0 .. Len(t) |-> { j \in i .. Len(t) : Stands(node, f, t, i, j) }]
NodeMatches(node, f, t) == [p \in 0 .. Len(t) |-> EndsOf(node, f, t, p)]

\* No text that a node stands for ends before it begins.
LEMMA NodeStandsOnward ==
    ASSUME NEW t \in Seq(Bytes), NEW node, NEW f
    PROVE  NodeStands(node, f, t) \in Onward(Len(t))
<1> DEFINE E(i) == { j \in i .. Len(t) : Stands(node, f, t, i, j) }
<1>1. \A i \in 0 .. Len(t) : E(i) \in SUBSET (0 .. Len(t)) /\ E(i) \subseteq i .. Len(t)
  OBVIOUS
<1>2. NodeStands(node, f, t) = [i \in 0 .. Len(t) |-> E(i)]
  BY DEF NodeStands
<1> HIDE DEF E
<1> QED
  BY <1>1, <1>2 DEF Onward

\* The same for all positions.
LEMMA NodeMatchesStands ==
    ASSUME NEW t \in Seq(Bytes), NEW node \in Trees, NEW f, PartsOnward(node, f, Len(t))
    PROVE  NodeMatches(node, f, t) = NodeStands(node, f, t)
BY NodeEnds DEF NodeMatches, NodeStands

\* And for all positions what a tree stands for depends on its parts alone.
LEMMA NodeStandsNeedsParts ==
    ASSUME NEW node \in Trees, NEW f, NEW g, \A c : IsPart(c, node) => f[c] = g[c], NEW t
    PROVE  NodeStands(node, f, t) = NodeStands(node, g, t)
<1>1. \A i, j : Stands(node, f, t, i, j) = Stands(node, g, t, i, j)
  BY StandsNeedsParts
<1> QED
  BY <1>1 DEF NodeStands

\* There is a language of the trees.
LEMMA LanguageExists ==
    ASSUME NEW t \in Seq(Bytes)
    PROVE  \E f \in [Trees -> Onward(Len(t))] : f = [node \in Trees |-> NodeStands(node, f, t)]
<1> DEFINE V == Onward(Len(t))
           G == [f \in [Trees -> V] |-> [node \in Trees |-> NodeStands(node, f, t)]]
<1>1. Tall \in [Trees -> Nat]
  <2>1. LongestPattern \in Nat
    BY PatternMatcherAssumption
  <2>2. \A x \in Trees : Tall[x] \in Nat
    BY <2>1, TreesHaveHeights
  <2> QED
    BY <2>2 DEF Tall
<1>2. V # {}
  <2>1. NodeStands(AnyCharacter, <<>>, t) \in V
    BY NodeStandsOnward
  <2> QED
    BY <2>1
<1> HIDE DEF V
<1>3. G \in [[Trees -> V] -> [Trees -> V]]
  <2>1. \A f \in [Trees -> V], node \in Trees : NodeStands(node, f, t) \in V
    BY NodeStandsOnward DEF V
  <2> QED
    BY <2>1
<1>4. ASSUME NEW f \in [Trees -> V], NEW g \in [Trees -> V], NEW x \in Trees,
             \A c \in Trees : Tall[c] < Tall[x] => f[c] = g[c]
      PROVE  G[f][x] = G[g][x]
  <2>1. \A c : IsPart(c, x) => f[c] = g[c]
    BY <1>4, PartsAreLower
  <2>2. NodeStands(x, f, t) = NodeStands(x, g, t)
    BY <2>1, NodeStandsNeedsParts
  <2>3. G[f][x] = NodeStands(x, f, t) /\ G[g][x] = NodeStands(x, g, t)
    OBVIOUS
  <2> HIDE DEF G
  <2> QED
    BY <2>2, <2>3
<1>5. PICK f \in [Trees -> V] : f = G[f]
  <2> HIDE DEF G
  <2>1. Descends(G, Trees, V, Tall)
    BY <1>1, <1>2, <1>3, <1>4 DEF Descends
  <2> QED
    BY <2>1, RecursionExists
<1>6. G[f] = [node \in Trees |-> NodeStands(node, f, t)]
  OBVIOUS
<1>7. f = [node \in Trees |-> NodeStands(node, f, t)]
  <2> HIDE DEF G
  <2> QED
    BY <1>5, <1>6, Zenon
<1> QED
  BY <1>7 DEF V

\* Language is one.
LEMMA LanguageOfNodes ==
    ASSUME NEW t \in Seq(Bytes)
    PROVE  \A node \in Trees : Language(t)[node] = NodeStands(node, Language(t), t)
<1> DEFINE Holds(f) == f = [node \in Trees |-> NodeStands(node, f, t)]
           language == CHOOSE f : Holds(f)
<1>1. Language(t) = language
  BY Zenon DEF Language, NodeStands
<1>2. Holds(language)
  <2>1. \E f : Holds(f)
    BY LanguageExists
  <2> HIDE DEF Holds
  <2> QED
    BY <2>1
<1> HIDE DEF language
<1> DEFINE F(f) == [node \in Trees |-> NodeStands(node, f, t)]
<1>3. \A node \in Trees : F(language)[node] = NodeStands(node, language, t)
  OBVIOUS
<1>4. language = F(language)
  BY <1>2
<1> HIDE DEF F, Holds
<1>5. \A node \in Trees : language[node] = NodeStands(node, language, t)
  BY <1>3, <1>4, Zenon
<1> QED
  BY <1>1, <1>5, Zenon

\* The recursion of match_from() over a tree has a result: EndsIn satisfies its equation.
LEMMA MatchesOfNodes ==
    ASSUME NEW t \in Seq(Bytes)
    PROVE  \A node \in Trees : EndsIn(t)[node] = NodeMatches(node, EndsIn(t), t)
<1> DEFINE Holds(f) == f = [node \in Trees |-> NodeMatches(node, f, t)]
           ends == CHOOSE f : Holds(f)
<1>1. EndsIn(t) = ends
  BY Zenon DEF EndsIn, NodeMatches
<1>2. Holds(ends)
  <2>1. PICK f \in [Trees -> Onward(Len(t))] : f = [node \in Trees |-> NodeStands(node, f, t)]
    BY LanguageExists
  <2>2. \A node \in Trees : NodeMatches(node, f, t) = NodeStands(node, f, t)
    <3> SUFFICES ASSUME NEW node \in Trees
                 PROVE  NodeMatches(node, f, t) = NodeStands(node, f, t)
      OBVIOUS
    <3>1. \A c : IsPart(c, node) => f[c] \in Onward(Len(t))
      <4>1. f \in [Trees -> Onward(Len(t))] /\ \A c : IsPart(c, node) => c \in Trees
        BY PartsAreLower
      <4> QED
        BY <4>1, Zenon
    <3> QED
      BY <3>1, NodeMatchesStands DEF PartsOnward
  <2>3. [node \in Trees |-> NodeStands(node, f, t)] = [node \in Trees |-> NodeMatches(node, f, t)]
    BY <2>2
  <2>4. Holds(f)
    BY <2>1, <2>3, Zenon
  <2> HIDE DEF Holds
  <2> QED
    BY <2>4
<1> HIDE DEF ends
<1> DEFINE F(f) == [node \in Trees |-> NodeMatches(node, f, t)]
<1>3. \A node \in Trees : F(ends)[node] = NodeMatches(node, ends, t)
  OBVIOUS
<1>4. ends = F(ends)
  BY <1>2
<1> HIDE DEF F, Holds
<1>5. \A node \in Trees : ends[node] = NodeMatches(node, ends, t)
  BY <1>3, <1>4, Zenon
<1> QED
  BY <1>1, <1>5, Zenon

\* The matcher's ends are the language, for every tree.
LEMMA MatcherFollowsTheLanguage ==
    ASSUME NEW t \in Seq(Bytes), NEW node \in Trees
    PROVE  EndsIn(t)[node] = Language(t)[node] /\ EndsIn(t)[node] \in Onward(Len(t))
<1> DEFINE f == EndsIn(t)
           g == Language(t)
           S == { x \in Trees : f[x] = g[x] /\ f[x] \in Onward(Len(t)) }
<1>1. Tall \in [Trees -> Nat]
  <2>1. LongestPattern \in Nat
    BY PatternMatcherAssumption
  <2>2. \A x \in Trees : Tall[x] \in Nat
    BY <2>1, TreesHaveHeights
  <2> QED
    BY <2>2 DEF Tall
<1>2. \A x \in Trees : f[x] = NodeMatches(x, f, t) /\ g[x] = NodeStands(x, g, t)
  BY MatchesOfNodes, LanguageOfNodes
<1> HIDE DEF f, g
<1>3. ASSUME NEW x \in Trees, \A c \in Trees : Tall[c] < Tall[x] => c \in S
      PROVE  x \in S
  <2>1. \A c : IsPart(c, x) => f[c] = g[c] /\ f[c] \in Onward(Len(t))
    BY <1>3, PartsAreLower
  <2>2. NodeMatches(x, f, t) = NodeStands(x, f, t)
    BY <2>1, NodeMatchesStands DEF PartsOnward
  <2>3. NodeStands(x, f, t) = NodeStands(x, g, t)
    BY <2>1, NodeStandsNeedsParts
  <2>4. NodeStands(x, f, t) \in Onward(Len(t))
    BY NodeStandsOnward
  <2>5. f[x] = g[x] /\ f[x] \in Onward(Len(t))
    BY <1>2, <2>2, <2>3, <2>4
  <2> QED
    BY <2>5
<1>4. Trees \subseteq S
  <2> HIDE DEF S
  <2> QED
    BY <1>1, <1>3, SizeInduction
<1>5. node \in S
  BY <1>4
<1> QED
  BY <1>5 DEF f, g

\* What the run checks, for every tree and every text.
LEMMA EndsAreWhatTreesStandFor ==
    ASSUME NEW t \in Seq(Bytes), NEW node \in Trees, NEW i \in 0 .. Len(t)
    PROVE  /\ Ends(node, t, i) = { j \in i .. Len(t) : StandsFor(node, t, i, j) }
           /\ Ends(node, t, i) \subseteq i .. Len(t)
           /\ \A j : j \in Ends(node, t, i) <=> StandsFor(node, t, i, j)
<1>1. EndsIn(t)[node] = Language(t)[node] /\ EndsIn(t)[node] \in Onward(Len(t))
  BY MatcherFollowsTheLanguage
<1>2. Ends(node, t, i) = Language(t)[node][i]
  BY <1>1 DEF Ends
<1>3. Ends(node, t, i) \subseteq i .. Len(t)
  BY <1>1, OnwardEnds DEF Ends
<1> QED
  BY <1>2, <1>3 DEF StandsFor

-----------------------------------------------------------------------------
(* Lines, and what a match is replaced by.                               *)

\* Strings of the line, or of what stands after the pattern.
Lines == Seq(STRING)

\* Lists of members of a larger set.
LEMMA SequencesGrow ==
    ASSUME NEW A, NEW B, A \subseteq B
    PROVE  Seq(A) \subseteq Seq(B)
OBVIOUS

\* The empty list, and a list of one member.
LEMMA ShortSequences ==
    ASSUME NEW A
    PROVE  <<>> \in Seq(A) /\ \A x \in A : <<x>> \in Seq(A)
OBVIOUS

\* A line of bytes is a line.
LEMMA BytesAreStrings == Seq(Bytes) \subseteq Lines
<1>1. Collation \in Seq(STRING)
  BY PatternMatcherAssumption
<1>2. Bytes \subseteq STRING
  BY <1>1 DEF Bytes
<1> QED
  BY <1>2, SequencesGrow DEF Lines

\* So is a part of one.
LEMMA SliceIsLine ==
    ASSUME NEW t \in Lines, NEW a \in 0 .. Len(t), NEW b \in 0 .. Len(t)
    PROVE  Slice(t, a, b) \in Lines
<1>1. a + 1 \in Nat \ {0} /\ b \in Nat /\ Len(t) \in Nat /\ \A i \in 1 .. Len(t) : t[i] \in STRING
  BY DEF Lines
<1>2. CASE a + 1 <= b
  BY <1>1, <1>2 DEF Slice, Lines
<1>3. CASE a + 1 > b
  BY <1>1, <1>3 DEF Slice, Lines
<1> QED
  BY <1>1, <1>2, <1>3

\* A part with no byte.
LEMMA EmptySlice ==
    ASSUME NEW t \in Lines, NEW a \in 0 .. Len(t)
    PROVE  Slice(t, a, a) = <<>>
BY DEF Slice, Lines

\* A part with one byte more.
LEMMA SliceLonger ==
    ASSUME NEW t \in Lines, NEW x \in Lines, NEW a \in 0 .. Len(t), NEW b \in a + 1 .. Len(t)
    PROVE  x \o Slice(t, a, b) = Append(x \o Slice(t, a, b - 1), t[b])
<1> DEFINE s == Slice(t, a, b)
           r == Slice(t, a, b - 1)
<1>1. Len(t) \in Nat /\ a \in Nat /\ b \in Nat /\ a + 1 <= b /\ b <= Len(t) /\ b - 1 \in 0 .. Len(t)
  BY DEF Lines
<1>2. r \in Lines /\ s \in Lines
  BY <1>1, SliceIsLine
<1>3. Len(s) = b - a /\ \A i \in 1 .. b - a : s[i] = t[a + i]
  BY <1>1 DEF Slice, Lines
<1>4. Len(r) = (b - 1) - a /\ \A i \in 1 .. (b - 1) - a : r[i] = t[a + i]
  BY <1>1 DEF Slice, Lines
<1> HIDE DEF s, r
<1>5. s = Append(r, t[b])
  BY <1>1, <1>2, <1>3, <1>4 DEF Lines
<1>6. x \o Append(r, t[b]) = Append(x \o r, t[b])
  BY <1>1, <1>2 DEF Lines
<1> QED
  BY <1>5, <1>6 DEF s, r

\* expand_substitution_replacement() (CommandExecutor.cpp) comes to an end, with a line.
LEMMA ExpandedIsLine ==
    ASSUME NEW r \in Lines, NEW matched \in Lines
    PROVE  Expanded(r, matched) \in Lines
<1> DEFINE T == 1 .. Len(r) + 1
           size == [i \in T |-> (Len(r) + 1) - i]
           G == [f \in [T -> Lines] |-> [i \in T |-> ExpandedAt(r, matched, f, i)]]
<1>0. Len(r) \in Nat /\ \A i \in 1 .. Len(r) : r[i] \in STRING
  BY DEF Lines
<1>1. \A x, y \in Lines : x \o y \in Lines
  BY DEF Lines
<1>2. <<>> \in Lines /\ \A x \in STRING : <<x>> \in Lines
  BY ShortSequences, Zenon DEF Lines
<1>3. ASSUME NEW f \in [T -> Lines], NEW i \in T
      PROVE  ExpandedAt(r, matched, f, i) \in Lines
  <2>1. CASE i > Len(r)
    BY <1>2, <2>1 DEF ExpandedAt
  <2>2. CASE i \in 1 .. Len(r)
    <3>1. i + 1 \in T /\ f[i + 1] \in Lines /\ <<r[i]>> \in Lines
      BY <1>0, <1>2, <2>2
    <3>2. i < Len(r) => f[i + 2] \in Lines /\ <<r[i + 1]>> \in Lines
      BY <1>0, <1>2, <2>2
    <3> HIDE DEF T
    <3> QED
      BY <1>0, <1>1, <2>2, <3>1, <3>2 DEF ExpandedAt
  <2> QED
    BY <1>0, <2>1, <2>2
<1>4. size \in [T -> Nat]
  BY <1>0
<1>5. ASSUME NEW f \in [T -> Lines], NEW g \in [T -> Lines], NEW i \in T,
             \A k \in T : size[k] < size[i] => f[k] = g[k]
      PROVE  G[f][i] = G[g][i]
  <2>1. ASSUME NEW k \in T, k > i PROVE f[k] = g[k]
    <3>1. size[k] < size[i]
      BY <1>0, <2>1
    <3> QED
      BY <1>5, <3>1
  <2>2. ExpandedAt(r, matched, f, i) = ExpandedAt(r, matched, g, i)
    <3>1. CASE i > Len(r)
      BY <3>1 DEF ExpandedAt
    <3>2. CASE i <= Len(r)
      <4>1. i + 1 \in T /\ f[i + 1] = g[i + 1]
        BY <1>0, <2>1, <3>2
      <4>2. i < Len(r) => f[i + 2] = g[i + 2]
        BY <1>0, <2>1, <3>2
      <4> HIDE DEF T
      <4> QED
        BY <3>2, <4>1, <4>2 DEF ExpandedAt
    <3> QED
      BY <1>0, <3>1, <3>2
  <2>3. G[f][i] = ExpandedAt(r, matched, f, i) /\ G[g][i] = ExpandedAt(r, matched, g, i)
    <3> HIDE DEF T
    <3> QED
      OBVIOUS
  <2> HIDE DEF G
  <2> QED
    BY <2>2, <2>3
<1>6. G \in [[T -> Lines] -> [T -> Lines]]
  <2> HIDE DEF T
  <2> QED
    BY <1>3
<1>7. PICK f \in [T -> Lines] : f = G[f]
  <2> HIDE DEF G, T, size
  <2>1. Descends(G, T, Lines, size)
    BY <1>2, <1>4, <1>5, <1>6 DEF Descends
  <2> QED
    BY <2>1, RecursionExists
<1> DEFINE F(from) == [i \in T |-> ExpandedAt(r, matched, from, i)]
           from == CHOOSE h : h = F(h)
<1>8. \E h : h = F(h)
  <2>1. G[f] = F(f)
    <3> HIDE DEF T
    <3> QED
      OBVIOUS
  <2> HIDE DEF G, F
  <2> QED
    BY <1>7, <2>1, Zenon
<1>9. from = F(from)
  <2> HIDE DEF F
  <2> QED
    BY <1>8
<1>10. Expanded(r, matched) = from[1]
  BY Zenon DEF Expanded
<1> HIDE DEF from
<1>11. \A i \in T : from[i] = ExpandedAt(r, matched, from, i)
  <2>1. \A i \in T : F(from)[i] = ExpandedAt(r, matched, from, i)
    <3> HIDE DEF T
    <3> QED
      OBVIOUS
  <2> HIDE DEF F, T
  <2> QED
    BY <1>9, <2>1, Zenon
<1>12. ASSUME NEW i \in T, \A k \in T : k > i => from[k] \in Lines
       PROVE  from[i] \in Lines
  <2> DEFINE h == [k \in T |-> IF k > i THEN from[k] ELSE <<>>]
  <2>1. h \in [T -> Lines]
    <3> HIDE DEF T
    <3> QED
      BY <1>2, <1>12
  <2>2. ExpandedAt(r, matched, from, i) = ExpandedAt(r, matched, h, i)
    <3>1. CASE i > Len(r)
      BY <3>1 DEF ExpandedAt
    <3>2. CASE i <= Len(r)
      <4>1. from[i + 1] = h[i + 1]
        BY <1>0, <3>2
      <4>2. i < Len(r) => from[i + 2] = h[i + 2]
        BY <1>0, <3>2
      <4> HIDE DEF T, h
      <4> QED
        BY <3>2, <4>1, <4>2 DEF ExpandedAt
    <3> QED
      BY <1>0, <3>1, <3>2
  <2> HIDE DEF h
  <2>3. ExpandedAt(r, matched, h, i) \in Lines
    BY <1>3, <2>1
  <2> QED
    BY <1>11, <2>2, <2>3
<1>13. T \subseteq { i \in T : from[i] \in Lines }
  <2> DEFINE U == { i \in T : from[i] \in Lines }
  <2>1. ASSUME NEW i \in T, \A k \in T : size[k] < size[i] => k \in U
        PROVE  i \in U
    <3>1. \A k \in T : k > i => size[k] < size[i]
      BY <1>0
    <3>2. \A k \in T : k > i => from[k] \in Lines
      BY <2>1, <3>1
    <3> QED
      BY <1>12, <3>2
  <2> HIDE DEF U, T, size
  <2>2. T \subseteq U
    BY <1>4, <2>1, SizeInduction
  <2> QED
    BY <2>2 DEF U
<1>14. 1 \in T
  BY <1>0
<1> HIDE DEF T
<1> QED
  BY <1>10, <1>13, <1>14

-----------------------------------------------------------------------------
(* The line that S should make.                                          *)

\* The line that S should make, of a text t with the matches ms and the replacement r.
LineAt(t, r, ms, written, i) ==
    LET starting == { m \in ms : m.start = i - 1 }
        inside   == \E m \in ms : m.start < i /\ i <= m.end
        before   == IF starting = {} THEN written[i - 1]
                    ELSE LET m == CHOOSE m \in starting : TRUE
                         IN  written[i - 1] \o Expanded(r, Slice(t, m.start, m.end))
    IN  IF inside \/ i > Len(t) THEN before ELSE Append(before, t[i])

LineOf(t, r, ms) ==
    LET written[i \in 0 .. Len(t) + 1] == IF i = 0 THEN <<>> ELSE LineAt(t, r, ms, written, i)
    IN  written

\* The matches there can be in a text.
MatchesOf(t) == [start : 0 .. Len(t), end : 0 .. Len(t)]

\* One position, by what begins before it, whether it is inside a match, and what precedes.
LineBy(t, r, starting, inside, previous, i) ==
    LET before == IF starting = {} THEN previous
                  ELSE LET m == CHOOSE m \in starting : TRUE
                       IN  previous \o Expanded(r, Slice(t, m.start, m.end))
    IN  IF inside \/ i > Len(t) THEN before ELSE Append(before, t[i])

\* What is written at a position needs nothing else of the matches.
LEMMA LineAtBy ==
    ASSUME NEW t, NEW r, NEW ms, NEW written, NEW i
    PROVE  LineAt(t, r, ms, written, i)
           = LineBy(t, r, { m \in ms : m.start = i - 1 },
                    \E m \in ms : m.start < i /\ i <= m.end, written[i - 1], i)
BY DEF LineAt, LineBy

\* One more member behind a list.
LEMMA AppendIsSequence ==
    ASSUME NEW A, NEW x \in Seq(A), NEW e \in A
    PROVE  Append(x, e) \in Seq(A)
OBVIOUS

\* A match is replaced by a line.
LEMMA ReplacementIsLine ==
    ASSUME NEW t \in Lines, NEW r \in Lines, NEW m \in MatchesOf(t)
    PROVE  Expanded(r, Slice(t, m.start, m.end)) \in Lines
<1>1. m.start \in 0 .. Len(t) /\ m.end \in 0 .. Len(t)
  BY DEF MatchesOf
<1> QED
  BY <1>1, SliceIsLine, ExpandedIsLine

\* What is written at a position is a line.
LEMMA LineAtIsLine ==
    ASSUME NEW t \in Lines, NEW r \in Lines, NEW ms \in SUBSET MatchesOf(t),
           NEW i \in 1 .. Len(t) + 1, NEW written, written[i - 1] \in Lines
    PROVE  LineAt(t, r, ms, written, i) \in Lines
<1> DEFINE starting == { m \in ms : m.start = i - 1 }
           m == CHOOSE m \in starting : TRUE
           before == IF starting = {} THEN written[i - 1]
                     ELSE written[i - 1] \o Expanded(r, Slice(t, m.start, m.end))
           inside == \E n \in ms : n.start < i /\ i <= n.end
<1>1. before \in Lines
  <2>1. CASE starting = {}
    BY <2>1
  <2>2. CASE starting # {}
    <3>1. m \in ms
      <4>1. m \in starting
        BY <2>2
      <4> QED
        BY <4>1
    <3> HIDE DEF m
    <3>2. Expanded(r, Slice(t, m.start, m.end)) \in Lines
      BY <3>1, ReplacementIsLine
    <3>3. before = written[i - 1] \o Expanded(r, Slice(t, m.start, m.end))
      BY <2>2 DEF m
    <3> HIDE DEF before
    <3> QED
      BY <3>2, <3>3 DEF Lines
  <2> QED
    BY <2>1, <2>2
<1>2. LineAt(t, r, ms, written, i) = IF inside \/ i > Len(t) THEN before ELSE Append(before, t[i])
  BY DEF LineAt
<1> HIDE DEF before, inside
<1>3. i <= Len(t) => t[i] \in STRING
  BY DEF Lines
<1>4. Len(t) \in Nat
  BY DEF Lines
<1>5. \A x \in Lines, e \in STRING : Append(x, e) \in Lines
  BY AppendIsSequence, Zenon DEF Lines
<1>6. i > Len(t) \/ i <= Len(t)
  BY <1>4
<1> QED
  BY <1>1, <1>2, <1>3, <1>5, <1>6

\* It needs only what is written before it.
LEMMA LineNeedsBefore ==
    ASSUME NEW t, NEW r, NEW ms, NEW i, NEW f, NEW g, f[i - 1] = g[i - 1]
    PROVE  LineAt(t, r, ms, f, i) = LineAt(t, r, ms, g, i)
BY DEF LineAt

\* There is a line that S should make, and it is written position by position.
LEMMA LineSteps ==
    ASSUME NEW t \in Lines, NEW r \in Lines, NEW ms \in SUBSET MatchesOf(t)
    PROVE  /\ LineOf(t, r, ms)[0] = <<>>
           /\ \A i \in 0 .. Len(t) + 1 : LineOf(t, r, ms)[i] \in Lines
           /\ \A i \in 1 .. Len(t) + 1 :
                 LineOf(t, r, ms)[i] = LineAt(t, r, ms, LineOf(t, r, ms), i)
<1> DEFINE L == Len(t) + 1
           F(f) == [i \in 0 .. L |-> IF i = 0 THEN <<>> ELSE LineAt(t, r, ms, f, i)]
           At(i, x) == LineAt(t, r, ms, [k \in 0 .. L |-> x], i)
           step == [i \in 1 .. L |-> [x \in Lines |-> At(i, x)]]
<1>0. L \in Nat /\ <<>> \in Lines
  BY ShortSequences DEF Lines
<1>1. \A i \in 1 .. L, x \in Lines : At(i, x) \in Lines
  <2> SUFFICES ASSUME NEW i \in 1 .. L, NEW x \in Lines PROVE At(i, x) \in Lines
    OBVIOUS
  <2> DEFINE f == [k \in 0 .. L |-> x]
  <2>1. f[i - 1] \in Lines
    BY <1>0
  <2> HIDE DEF f
  <2>2. LineAt(t, r, ms, f, i) \in Lines
    BY <2>1, LineAtIsLine
  <2> QED
    BY <2>2 DEF f
<1>2. step \in Steps(Lines, L)
  <2> HIDE DEF L, At
  <2> QED
    BY <1>1 DEF Steps
<1>3. PICK f : FollowsSteps(f, Lines, L, <<>>, step)
  <2> HIDE DEF L, step
  <2> QED
    BY <1>0, <1>2, RecursiveFunctionExists
<1>4. f \in [0 .. L -> Lines] /\ f[0] = <<>> /\ \A n \in 1 .. L : f[n] = step[n][f[n - 1]]
  BY <1>3 DEF FollowsSteps
<1>5. ASSUME NEW i \in 1 .. L PROVE f[i] = LineAt(t, r, ms, f, i)
  <2> HIDE DEF L
  <2>1. i - 1 \in 0 .. L /\ f[i - 1] \in Lines
    BY <1>0, <1>4
  <2>2. f[i] = At(i, f[i - 1])
    <3> HIDE DEF At
    <3> QED
      BY <1>4, <2>1
  <2> DEFINE g == [k \in 0 .. L |-> f[i - 1]]
  <2>3. g[i - 1] = f[i - 1]
    BY <2>1
  <2> HIDE DEF g
  <2>4. LineAt(t, r, ms, g, i) = LineAt(t, r, ms, f, i)
    BY <2>3, LineNeedsBefore
  <2> QED
    BY <2>2, <2>4 DEF g
<1>6. f = F(f)
  <2> HIDE DEF L, step
  <2>1. \A i \in 0 .. L : i = 0 \/ i \in 1 .. L
    BY <1>0
  <2>2. \A i \in 0 .. L : f[i] = IF i = 0 THEN <<>> ELSE LineAt(t, r, ms, f, i)
    BY <1>4, <1>5, <2>1
  <2> QED
    BY <1>4, <2>2
<1> DEFINE written == CHOOSE h : h = F(h)
<1>7. written = F(written)
  <2> HIDE DEF F
  <2> QED
    BY <1>6
<1>8. LineOf(t, r, ms) = written
  BY Zenon DEF LineOf
<1> HIDE DEF written
<1>9. \A i \in 0 .. L : F(written)[i] = IF i = 0 THEN <<>> ELSE LineAt(t, r, ms, written, i)
  <2> HIDE DEF L
  <2> QED
    OBVIOUS
<1>10. \A i \in 0 .. L : written[i] = IF i = 0 THEN <<>> ELSE LineAt(t, r, ms, written, i)
  <2> HIDE DEF F, L
  <2> QED
    BY <1>7, <1>9, Zenon
<1>11. written[0] = <<>> /\ \A i \in 1 .. L : written[i] = LineAt(t, r, ms, written, i)
  <2> HIDE DEF L
  <2>1. \A i \in 1 .. L : i \in 0 .. L /\ i # 0
    BY <1>0
  <2>2. 0 \in 0 .. L
    BY <1>0
  <2> QED
    BY <1>10, <2>1, <2>2
<1> DEFINE S == { i \in 0 .. L : written[i] \in Lines }
<1>12. 0 \in S
  BY <1>0, <1>11
<1>13. ASSUME NEW i \in 1 .. L, i - 1 \in S PROVE i \in S
  <2>1. LineAt(t, r, ms, written, i) \in Lines
    BY <1>13, LineAtIsLine
  <2> QED
    BY <1>11, <2>1
<1>14. \A i \in 0 .. L : i \in S
  <2> HIDE DEF S, L
  <2> QED
    BY <1>0, <1>12, <1>13, BoundedInduction
<1>15. \A i \in 0 .. L : written[i] \in Lines
  <2> HIDE DEF L
  <2> QED
    BY <1>14
<1> QED
  BY <1>8, <1>11, <1>15

\* What is written up to a position does not depend on the matches behind it.
LEMMA LinesAgree ==
    ASSUME NEW t \in Lines, NEW r \in Lines,
           NEW ms \in SUBSET MatchesOf(t), NEW m \in MatchesOf(t),
           NEW k \in 0 .. Len(t) + 1, k <= m.start
    PROVE  LineOf(t, r, ms \cup {m})[k] = LineOf(t, r, ms)[k]
<1> DEFINE f == LineOf(t, r, ms)
           g == LineOf(t, r, ms \cup {m})
           S == { i \in 0 .. k : g[i] = f[i] }
<1>0. Len(t) \in Nat /\ k \in Nat /\ k <= Len(t) + 1 /\ m.start \in Nat
  BY DEF Lines, MatchesOf
<1>1. ms \cup {m} \in SUBSET MatchesOf(t)
  OBVIOUS
<1>2. f[0] = <<>> /\ g[0] = <<>>
  BY <1>1, LineSteps
<1>3. ASSUME NEW i \in 1 .. k
      PROVE  f[i] = LineAt(t, r, ms, f, i) /\ g[i] = LineAt(t, r, ms \cup {m}, g, i)
  <2>1. i \in 1 .. Len(t) + 1
    BY <1>0
  <2> QED
    BY <1>1, <2>1, LineSteps
<1> HIDE DEF f, g
<1>4. ASSUME NEW i \in 1 .. k, i - 1 \in S PROVE i \in S
  <2>1. g[i - 1] = f[i - 1]
    BY <1>4
  <2>2. m.start # i - 1 /\ ~(m.start < i)
    BY <1>0
  <2>3. { n \in ms \cup {m} : n.start = i - 1 } = { n \in ms : n.start = i - 1 }
    BY <2>2
  <2>4. (\E n \in ms \cup {m} : n.start < i /\ i <= n.end) <=> \E n \in ms : n.start < i /\ i <= n.end
    BY <2>2
  <2>5. LineAt(t, r, ms \cup {m}, g, i) = LineAt(t, r, ms, f, i)
    <3> DEFINE A == { n \in ms \cup {m} : n.start = i - 1 }
               B == { n \in ms : n.start = i - 1 }
               a == \E n \in ms \cup {m} : n.start < i /\ i <= n.end
               b == \E n \in ms : n.start < i /\ i <= n.end
    <3>1. LineAt(t, r, ms \cup {m}, g, i) = LineBy(t, r, A, a, g[i - 1], i)
      BY LineAtBy, Zenon
    <3>2. LineAt(t, r, ms, f, i) = LineBy(t, r, B, b, f[i - 1], i)
      BY LineAtBy, Zenon
    <3>3. A = B /\ a = b
      BY <2>3, <2>4
    <3> HIDE DEF A, B, a, b
    <3> QED
      BY <2>1, <3>1, <3>2, <3>3
  <2>6. g[i] = f[i]
    BY <1>3, <2>5
  <2> QED
    BY <2>6
<1>5. 0 \in S
  BY <1>0, <1>2
<1>6. \A i \in 0 .. k : i \in S
  <2> HIDE DEF S
  <2> QED
    BY <1>0, <1>4, <1>5, BoundedInduction
<1>7. k \in S
  BY <1>0, <1>6
<1> QED
  BY <1>7 DEF f, g

\* The bytes outside the matches are copied.
LEMMA LineCopies ==
    ASSUME NEW t \in Lines, NEW r \in Lines, NEW ms \in SUBSET MatchesOf(t),
           NEW a \in 0 .. Len(t), NEW b \in a .. Len(t),
           \A m \in ms : b <= m.start \/ (m.start < a /\ m.end <= a)
    PROVE  LineOf(t, r, ms)[b] = LineOf(t, r, ms)[a] \o Slice(t, a, b)
<1> DEFINE w == LineOf(t, r, ms)
           S == { k \in 0 .. b - a : w[a + k] = w[a] \o Slice(t, a, a + k) }
<1>0. Len(t) \in Nat /\ a \in Nat /\ b \in Nat /\ b - a \in Nat /\ b <= Len(t)
  BY DEF Lines
<1>1. w[a] \in Lines
  BY LineSteps
<1>2. \A i \in 1 .. Len(t) + 1 : w[i] = LineAt(t, r, ms, w, i)
  BY LineSteps
<1> HIDE DEF w
<1>3. 0 \in S
  <2>1. w[a] \o <<>> = w[a]
    BY <1>1 DEF Lines
  <2>2. Slice(t, a, a + 0) = <<>> /\ a + 0 = a /\ 0 \in 0 .. b - a
    BY <1>0, EmptySlice
  <2>3. w[a + 0] = w[a] \o Slice(t, a, a + 0)
    BY <2>1, <2>2
  <2> QED
    BY <2>2, <2>3
<1>4. ASSUME NEW k \in 1 .. b - a, k - 1 \in S PROVE k \in S
  <2> DEFINE i == a + k
  <2>1. i \in a + 1 .. b /\ i \in 1 .. Len(t) + 1 /\ i \in a + 1 .. Len(t) /\ i - 1 = a + (k - 1)
        /\ i \in Nat
    BY <1>0
  <2>2. w[i - 1] = w[a] \o Slice(t, a, i - 1)
    BY <1>4, <2>1
  <2> HIDE DEF i
  <2>3. ASSUME NEW m \in ms PROVE m.start # i - 1 /\ ~(m.start < i /\ i <= m.end)
    <3>1. m.start \in Nat /\ m.end \in Nat
      BY DEF MatchesOf
    <3> QED
      BY <1>0, <2>1, <3>1
  <2>4. { m \in ms : m.start = i - 1 } = {} /\ ~(\E m \in ms : m.start < i /\ i <= m.end)
    BY <2>3
  <2>5. ~(i > Len(t))
    BY <1>0, <2>1
  <2>6. LineAt(t, r, ms, w, i) = Append(w[i - 1], t[i])
    BY <2>4, <2>5 DEF LineAt
  <2>7. w[i] = Append(w[i - 1], t[i])
    BY <1>2, <2>1, <2>6
  <2>8. w[a] \o Slice(t, a, i) = Append(w[a] \o Slice(t, a, i - 1), t[i])
    BY <1>1, <2>1, SliceLonger
  <2>9. w[i] = w[a] \o Slice(t, a, i)
    BY <2>2, <2>7, <2>8
  <2>10. k \in 0 .. b - a
    BY <1>0
  <2> QED
    BY <2>9, <2>10 DEF i
<1>5. \A k \in 0 .. b - a : k \in S
  <2> HIDE DEF S
  <2> QED
    BY <1>0, <1>3, <1>4, BoundedInduction
<1>6. b - a \in S
  <2>1. b - a \in 0 .. b - a
    BY <1>0
  <2> HIDE DEF S
  <2> QED
    BY <1>5, <2>1
<1>7. a + (b - a) = b
  BY <1>0
<1>8. w[a + (b - a)] = w[a] \o Slice(t, a, a + (b - a))
  BY <1>6
<1> QED
  BY <1>7, <1>8 DEF w

-----------------------------------------------------------------------------
(* The end of the line, a match that is replaced, and                    *)
(* PatternMatcher::find().                                               *)

\* Nothing is written behind the last byte when no match begins there.
LEMMA LineEnds ==
    ASSUME NEW t \in Lines, NEW r \in Lines, NEW ms \in SUBSET MatchesOf(t),
           \A m \in ms : m.start # Len(t)
    PROVE  LineOf(t, r, ms)[Len(t) + 1] = LineOf(t, r, ms)[Len(t)]
<1> DEFINE w == LineOf(t, r, ms)
           i == Len(t) + 1
           A == { m \in ms : m.start = i - 1 }
           a == \E m \in ms : m.start < i /\ i <= m.end
<1>0. Len(t) \in Nat
  BY DEF Lines
<1>1. w[i] = LineAt(t, r, ms, w, i)
  <2>1. i \in 1 .. Len(t) + 1
    BY <1>0
  <2> QED
    BY <2>1, LineSteps
<1> HIDE DEF w
<1>2. LineAt(t, r, ms, w, i) = LineBy(t, r, A, a, w[i - 1], i)
  BY LineAtBy, Zenon
<1>3. A = {} /\ i > Len(t) /\ i - 1 = Len(t)
  BY <1>0
<1> HIDE DEF A, a, i
<1>4. LineBy(t, r, A, a, w[i - 1], i) = w[i - 1]
  BY <1>3 DEF LineBy
<1>5. w[i] = w[Len(t)]
  BY <1>1, <1>2, <1>3, <1>4
<1> QED
  BY <1>5 DEF w, i

\* The bytes of the last match are replaced.
LEMMA LineReplaces ==
    ASSUME NEW t \in Lines, NEW r \in Lines, NEW ms \in SUBSET MatchesOf(t),
           NEW m \in ms, m.start <= m.end,
           \A n \in ms : n = m \/ (n.start < m.start /\ n.end <= m.start)
    PROVE  LET w == LineOf(t, r, ms)
               made == w[m.start] \o Expanded(r, Slice(t, m.start, m.end))
           IN  /\ m.start = m.end /\ m.start = Len(t) => w[Len(t) + 1] = made
               /\ m.start = m.end /\ m.start # Len(t) =>
                     w[m.start + 1] = Append(made, t[m.start + 1])
               /\ m.start # m.end => w[m.end] = made
               /\ m.start # m.end /\ m.end = Len(t) => w[Len(t) + 1] = made
<1> DEFINE w == LineOf(t, r, ms)
           made == w[m.start] \o Expanded(r, Slice(t, m.start, m.end))
           p == m.start
           q == m.end
           A(i) == { n \in ms : n.start = i - 1 }
           a(i) == \E n \in ms : n.start < i /\ i <= n.end
<1>0. Len(t) \in Nat /\ p \in 0 .. Len(t) /\ q \in p .. Len(t)
  BY DEF Lines, MatchesOf
<1>1. \A n \in ms : n.start \in Nat /\ n.end \in Nat
  BY DEF MatchesOf
<1>2. \A i \in 1 .. Len(t) + 1 : w[i] = LineAt(t, r, ms, w, i)
  BY LineSteps
<1>3. \A i \in 1 .. Len(t) + 1 : w[i] = LineBy(t, r, A(i), a(i), w[i - 1], i)
  <2> HIDE DEF w
  <2>1. \A i : LineAt(t, r, ms, w, i) = LineBy(t, r, A(i), a(i), w[i - 1], i)
    BY LineAtBy, Zenon
  <2> HIDE DEF A, a
  <2> QED
    BY <1>2, <2>1
<1>4. A(p + 1) = {m}
  BY <1>0, <1>1
<1>5. LineBy(t, r, A(p + 1), a(p + 1), w[p], p + 1)
      = IF a(p + 1) \/ p + 1 > Len(t) THEN made ELSE Append(made, t[p + 1])
  <2>1. (CHOOSE n \in {m} : TRUE) = m
    OBVIOUS
  <2> HIDE DEF w, A, a
  <2> QED
    BY <1>4, <2>1 DEF LineBy
<1>6. w[p + 1] = IF a(p + 1) \/ p + 1 > Len(t) THEN made ELSE Append(made, t[p + 1])
  <2>1. p + 1 \in 1 .. Len(t) + 1 /\ (p + 1) - 1 = p
    BY <1>0
  <2> HIDE DEF w, A, a, p, made
  <2> QED
    BY <1>3, <1>5, <2>1
<1>7. ASSUME p = q
      PROVE  ~a(p + 1)
  BY <1>0, <1>1, <1>7
<1>8. ASSUME p # q
      PROVE  a(p + 1) /\ w[p + 1] = made
  <2>1. m.start < p + 1 /\ p + 1 <= m.end
    BY <1>0, <1>8
  <2>2. a(p + 1)
    BY <2>1
  <2> HIDE DEF a, made, w, p
  <2> QED
    BY <1>6, <2>2
<1>9. ASSUME p # q
      PROVE  w[q] = made
  <2> DEFINE S == { k \in 0 .. q - (p + 1) : w[(p + 1) + k] = made }
  <2>0. q - (p + 1) \in Nat
    BY <1>0, <1>9
  <2>1. 0 \in S
    <3>1. (p + 1) + 0 = p + 1 /\ 0 \in 0 .. q - (p + 1)
      BY <1>0, <2>0
    <3>2. w[(p + 1) + 0] = made
      <4> HIDE DEF made, w, p
      <4> QED
        BY <1>8, <1>9, <3>1
    <3> HIDE DEF made, w, p, q
    <3> QED
      BY <3>1, <3>2
  <2>2. ASSUME NEW k \in 1 .. q - (p + 1), k - 1 \in S PROVE k \in S
    <3> DEFINE i == (p + 1) + k
    <3>1. i \in 1 .. Len(t) + 1 /\ i - 1 = (p + 1) + (k - 1) /\ i > p + 1 /\ i <= q /\ i \in Nat
      BY <1>0
    <3>2. w[i - 1] = made
      <4> HIDE DEF made, w, p, q
      <4>1. w[(p + 1) + (k - 1)] = made
        BY <2>2
      <4> QED
        BY <3>1, <4>1
    <3> HIDE DEF i
    <3>3. A(i) = {} /\ a(i)
      <4>1. ASSUME NEW n \in ms PROVE n.start # i - 1
        <5>1. n.start <= p
          BY <1>0, <1>1
        <5> QED
          BY <1>0, <1>1, <3>1, <5>1
      <4>2. m.start < i /\ i <= m.end
        BY <1>0, <3>1
      <4>3. a(i)
        BY <4>2
      <4> QED
        BY <4>1, <4>3
    <3>4. w[i] = made
      <4> HIDE DEF made, w, p, q, A, a
      <4>1. w[i] = LineBy(t, r, A(i), a(i), w[i - 1], i)
        BY <1>3, <3>1
      <4> QED
        BY <3>2, <3>3, <4>1 DEF LineBy
    <3>5. k \in 0 .. q - (p + 1)
      BY <2>0
    <3> HIDE DEF made, w, p, q
    <3> QED
      BY <3>4, <3>5 DEF i
  <2>3. \A k \in 0 .. q - (p + 1) : k \in S
    <3> HIDE DEF S, p, q
    <3> QED
      BY <2>0, <2>1, <2>2, BoundedInduction
  <2>4. q - (p + 1) \in S
    <3>1. q - (p + 1) \in 0 .. q - (p + 1)
      BY <2>0
    <3> HIDE DEF S, p, q
    <3> QED
      BY <2>3, <3>1
  <2>5. (p + 1) + (q - (p + 1)) = q
    BY <1>0
  <2> HIDE DEF p, q, made, w
  <2>6. w[(p + 1) + (q - (p + 1))] = made
    BY <2>4
  <2> QED
    BY <2>5, <2>6
<1>10. ASSUME p # q, q = Len(t)
       PROVE  w[Len(t) + 1] = made
  <2>1. \A n \in ms : n.start # Len(t)
    BY <1>0, <1>1, <1>10
  <2>2. w[Len(t) + 1] = w[Len(t)]
    BY <2>1, LineEnds
  <2> HIDE DEF p, made, w
  <2> QED
    BY <1>9, <1>10, <2>2
<1>11. ASSUME p = q, p = Len(t)
       PROVE  w[Len(t) + 1] = made
  <2>1. p + 1 > Len(t)
    BY <1>0, <1>11
  <2> HIDE DEF p, made, w, a
  <2> QED
    BY <1>6, <1>11, <2>1
<1>12. ASSUME p = q, p # Len(t)
       PROVE  w[p + 1] = Append(made, t[p + 1])
  <2>1. ~(p + 1 > Len(t))
    BY <1>0, <1>12
  <2> HIDE DEF p, made, w, a
  <2> QED
    BY <1>6, <1>7, <1>12, <2>1
<1> QED
  BY <1>9, <1>10, <1>11, <1>12

\* PatternMatcher::find(): the match that it finds begins where the first one does, and is
\* the longest there.
LEMMA FoundMatch ==
    ASSUME NEW t \in Seq(Bytes), NEW node \in Trees, NEW from \in 0 .. Len(t),
           NEW m \in Find(node, t, from)
    PROVE  /\ m \in MatchesOf(t) /\ from <= m.start /\ m.start <= m.end
           /\ StandsFor(node, t, m.start, m.end)
           /\ \A j \in m.end + 1 .. Len(t) : ~StandsFor(node, t, m.start, j)
           /\ \A i \in from .. m.start - 1 : \A j : ~StandsFor(node, t, i, j)
<1>0. Len(t) \in Nat
  OBVIOUS
<1>1. PICK p \in from .. Len(t) : m \in [start : {p}, end : Ends(node, t, p)]
  BY DEF Find, MatchesFrom
<1>2. /\ m.start = p /\ m.end \in Ends(node, t, p)
      /\ p \in 0 .. Len(t)
  BY <1>0, <1>1
<1>3. /\ Ends(node, t, p) \subseteq p .. Len(t)
      /\ \A j : j \in Ends(node, t, p) <=> StandsFor(node, t, p, j)
  BY <1>2, EndsAreWhatTreesStandFor
<1>4. /\ m \in MatchesOf(t) /\ from <= m.start /\ m.start <= m.end
      /\ StandsFor(node, t, m.start, m.end)
  <2>1. /\ from <= p /\ m.end \in 0 .. Len(t) /\ p <= m.end
    BY <1>0, <1>2, <1>3
  <2>2. m \in [start : 0 .. Len(t), end : 0 .. Len(t)]
    BY <1>1, <1>2, <2>1
  <2> QED
    BY <1>2, <1>3, <2>1, <2>2 DEF MatchesOf
<1>6. \A i \in from .. m.start - 1 : Ends(node, t, i) = {}
  BY DEF Find
<1>7. \A j \in m.end + 1 .. Len(t) : ~StandsFor(node, t, m.start, j)
  <2>1. \A q \in Ends(node, t, p) : q <= m.end
    BY <1>2 DEF Find
  <2>2. m.end \in Nat
    BY <1>0, <1>2, <1>3
  <2> QED
    BY <1>0, <1>2, <1>3, <2>1, <2>2
<1>5. ASSUME NEW i \in from .. m.start - 1, NEW j PROVE ~StandsFor(node, t, i, j)
  <2>1. i \in 0 .. Len(t)
    BY <1>0, <1>2
  <2>2. j \in Ends(node, t, i) <=> StandsFor(node, t, i, j)
    BY <2>1, EndsAreWhatTreesStandFor
  <2> QED
    BY <1>6, <2>2
<1> QED
  BY <1>4, <1>5, <1>7

\* When it finds none there is none.
LEMMA NothingFound ==
    ASSUME NEW t \in Seq(Bytes), NEW node \in Trees, NEW from \in 0 .. Len(t),
           Find(node, t, from) = {}
    PROVE  \A i \in from .. Len(t) : \A j : ~StandsFor(node, t, i, j)
<1> DEFINE Starts == { i \in from .. Len(t) : Ends(node, t, i) # {} }
<1>0. Len(t) \in Nat
  OBVIOUS
<1> SUFFICES ASSUME NEW x \in from .. Len(t), NEW y, StandsFor(node, t, x, y) PROVE FALSE
  OBVIOUS
<1>1. x \in Starts
  <2>1. x \in 0 .. Len(t)
    BY <1>0
  <2>2. y \in Ends(node, t, x)
    BY <2>1, EndsAreWhatTreesStandFor
  <2> QED
    BY <2>2
<1>2. Starts \in SUBSET Nat
  BY <1>0
<1>3. PICK i \in Starts : \A n \in Starts : i <= n
  <2> HIDE DEF Starts
  <2> QED
    BY <1>1, <1>2, LeastNatural
<1>4. i \in from .. Len(t) /\ Ends(node, t, i) # {} /\ i \in 0 .. Len(t)
  BY <1>0
<1>5. Ends(node, t, i) \subseteq i .. Len(t)
  BY <1>4, EndsAreWhatTreesStandFor
<1>6. Ends(node, t, i) \in SUBSET (0 .. Len(t))
  BY <1>0, <1>4, <1>5
<1>7. PICK j \in Ends(node, t, i) : \A q \in Ends(node, t, i) : q <= j
  BY <1>0, <1>4, <1>6, GreatestOf
<1> DEFINE m == [start |-> i, end |-> j]
<1>8. m \in MatchesFrom(node, t, from) /\ m.start = i /\ m.end = j
  <2>1. m \in [start : {i}, end : Ends(node, t, i)]
    BY <1>7
  <2> QED
    BY <1>4, <2>1 DEF MatchesFrom
<1>9. \A p \in from .. i - 1 : Ends(node, t, p) = {}
  <2> SUFFICES ASSUME NEW p \in from .. i - 1, Ends(node, t, p) # {} PROVE FALSE
    OBVIOUS
  <2>1. p \in Starts
    BY <1>0, <1>4
  <2>2. i <= p
    BY <1>3, <2>1
  <2> QED
    BY <1>0, <1>4, <2>2
<1> HIDE DEF m
<1>10. m \in Find(node, t, from)
  BY <1>7, <1>8, <1>9 DEF Find
<1> QED
  BY <1>10

-----------------------------------------------------------------------------
(* The loop of substitute_all().                                         *)

\* IsMatch, Covered and the clauses of SubstitutionIsLeftmostLongest, of values.
MatchAt(node, t, i) == \E j \in i .. Len(t) : StandsFor(node, t, i, j)

CoveredBy(ms, t, i) ==
    \E m \in ms :
        \/ m.start = i
        \/ m.start < i /\ i < m.end
        \/ m.start < i /\ i = Len(t) /\ m.end = i

LongestMatch(node, t, m) ==
    /\ StandsFor(node, t, m.start, m.end)
    /\ \A j \in m.end + 1 .. Len(t) : ~StandsFor(node, t, m.start, j)

Apart(ms) ==
    \A m, n \in ms : m # n => m.start # n.start /\ (m.end <= n.start \/ n.end <= m.start)

\* What is so between two turns of the loop: the matches before from are all replaced.
Searched(node, t, r, from, copied, ms, made) ==
    /\ from \in 0 .. Len(t) + 1
    /\ copied = IF from > Len(t) THEN Len(t) ELSE from
    /\ ms \in SUBSET MatchesOf(t)
    /\ \A m \in ms : m.start < from /\ m.start <= m.end /\ m.end <= from
    /\ \A m \in ms : LongestMatch(node, t, m)
    /\ Apart(ms)
    /\ \A i \in 0 .. Len(t) : i < from /\ MatchAt(node, t, i) => CoveredBy(ms, t, i)
    /\ made = LineOf(t, r, ms)[from]
    /\ ms = {} => from = 0

\* Before the first turn.
LEMMA NothingSearched ==
    ASSUME NEW node \in Trees, NEW t \in Seq(Bytes), NEW r \in Lines
    PROVE  Searched(node, t, r, 0, 0, {}, <<>>)
<1>0. Len(t) \in Nat /\ t \in Lines
  BY BytesAreStrings
<1>1. LineOf(t, r, {})[0] = <<>>
  <2>1. {} \in SUBSET MatchesOf(t)
    OBVIOUS
  <2> QED
    BY <1>0, <2>1, LineSteps
<1> QED
  BY <1>0, <1>1 DEF Searched, Apart

\* One turn of the loop.
LEMMA OneMoreSearched ==
    ASSUME NEW node \in Trees, NEW t \in Seq(Bytes), NEW r \in Lines,
           NEW from, NEW copied, NEW ms, NEW made,
           Searched(node, t, r, from, copied, ms, made), from <= Len(t),
           NEW m \in Find(node, t, from), NEW next, NEW until, NEW written,
           LET replaced == made \o Slice(t, copied, m.start) \o Expanded(r, Slice(t, m.start, m.end))
           IN  \/ /\ m.end > m.start
                  /\ written = replaced /\ until = m.end
                  /\ next = IF m.end = Len(t) THEN Len(t) + 1 ELSE m.end
               \/ /\ ~(m.end > m.start) /\ m.start = Len(t)
                  /\ written = replaced /\ until = m.start /\ next = Len(t) + 1
               \/ /\ ~(m.end > m.start) /\ m.start # Len(t)
                  /\ written = Append(replaced, t[m.start + 1])
                  /\ until = m.start + 1 /\ next = m.start + 1
    PROVE  Searched(node, t, r, next, until, ms \cup {m}, written)
<1> DEFINE N == Len(t)
           p == m.start
           q == m.end
           all == ms \cup {m}
           line == LineOf(t, r, all)
           replaced == made \o Slice(t, copied, p) \o Expanded(r, Slice(t, p, q))
<1>0. N \in Nat /\ t \in Lines /\ from \in 0 .. N /\ copied = from
  BY BytesAreStrings DEF Searched
<1>1. /\ ms \in SUBSET MatchesOf(t)
      /\ \A n \in ms : n.start < from /\ n.start <= n.end /\ n.end <= from
      /\ \A n \in ms : LongestMatch(node, t, n)
      /\ Apart(ms)
      /\ \A i \in 0 .. Len(t) : i < from /\ MatchAt(node, t, i) => CoveredBy(ms, t, i)
      /\ made = LineOf(t, r, ms)[from]
  BY DEF Searched
<1>2. /\ m \in MatchesOf(t) /\ from <= p /\ p <= q
      /\ StandsFor(node, t, p, q)
      /\ \A j \in q + 1 .. N : ~StandsFor(node, t, p, j)
      /\ \A i \in from .. p - 1 : \A j : ~StandsFor(node, t, i, j)
  BY <1>0, FoundMatch
<1>3. p \in from .. N /\ q \in p .. N /\ p \in 0 .. N
  BY <1>0, <1>2 DEF MatchesOf
<1>4. all \in SUBSET MatchesOf(t)
  BY <1>1, <1>2
<1>5. \A n \in ms : n.start \in Nat /\ n.end \in Nat /\ n.start < from /\ n.start <= n.end /\ n.end <= from
  BY <1>1 DEF MatchesOf
<1>6. next \in 0 .. N + 1 /\ until = (IF next > N THEN N ELSE next) /\ p < next /\ q <= next
      /\ (next = N + 1 \/ next = q \/ (p = q /\ next = p + 1))
      /\ (p = q => next = p + 1) /\ (p # q => next = q \/ (next = N + 1 /\ q = N))
  <2>1. CASE q > p
    <3>1. until = q /\ next = IF q = N THEN N + 1 ELSE q
      BY <2>1
    <3> HIDE DEF N, p, q
    <3> QED
      BY <1>0, <1>3, <2>1, <3>1
  <2>2. CASE ~(q > p) /\ p = N
    <3>1. until = p /\ next = N + 1
      BY <2>2
    <3> HIDE DEF N, p, q
    <3> QED
      BY <1>0, <1>3, <2>2, <3>1
  <2>3. CASE ~(q > p) /\ p # N
    <3>1. until = p + 1 /\ next = p + 1
      BY <2>3
    <3> HIDE DEF N, p, q
    <3> QED
      BY <1>0, <1>3, <2>3, <3>1
  <2> QED
    BY <2>1, <2>2, <2>3
<1>7. \A n \in all : n.start < next /\ n.start <= n.end /\ n.end <= next
  <2>1. m.start < next /\ m.start <= m.end /\ m.end <= next
    BY <1>2, <1>6
  <2>2. ASSUME NEW n \in ms PROVE n.start < next /\ n.start <= n.end /\ n.end <= next
    <3> HIDE DEF N, p, q
    <3> QED
      BY <1>0, <1>3, <1>5, <1>6
  <2> QED
    BY <2>1, <2>2
<1>8. \A n \in all : LongestMatch(node, t, n)
  <2>1. LongestMatch(node, t, m)
    BY <1>2 DEF LongestMatch
  <2> QED
    BY <1>1, <2>1
<1>9. Apart(all)
  <2>1. \A n \in ms : n.start # m.start /\ n.end <= m.start
    BY <1>0, <1>3, <1>5
  <2> QED
    BY <1>1, <2>1 DEF Apart
<1>10. ASSUME NEW i \in 0 .. N, i < next, MatchAt(node, t, i)
       PROVE  CoveredBy(all, t, i)
  <2>1. CASE i < from
    <3>1. CoveredBy(ms, t, i)
      BY <1>1, <1>10, <2>1
    <3> QED
      BY <3>1 DEF CoveredBy
  <2>2. CASE i \in from .. p - 1
    BY <1>2, <1>10, <2>2 DEF MatchAt
  <2>3. CASE i >= p
    <3>1. i = p \/ (p < i /\ i < q) \/ (p < i /\ i = N /\ q = i)
      <4> HIDE DEF N, p, q
      <4> QED
        BY <1>0, <1>3, <1>6, <1>10, <2>3
    <3> QED
      BY <3>1 DEF CoveredBy
  <2>4. i < from \/ i \in from .. p - 1 \/ i >= p
    <3> HIDE DEF N, p
    <3> QED
      BY <1>0, <1>3
  <2> QED
    BY <2>1, <2>2, <2>3, <2>4
<1>11. line[p] = made \o Slice(t, copied, p)
  <2>1. from \in 0 .. N + 1 /\ from <= m.start
    BY <1>0, <1>2
  <2>2. line[from] = made
    BY <1>0, <1>1, <1>2, <2>1, LinesAgree
  <2>3. \A n \in all : p <= n.start \/ (n.start < from /\ n.end <= from)
    BY <1>3, <1>5
  <2>4. line[p] = line[from] \o Slice(t, from, p)
    BY <1>0, <1>3, <1>4, <2>3, LineCopies
  <2> HIDE DEF line
  <2> QED
    BY <1>0, <2>2, <2>4
<1>12. LET w == line
           x == w[m.start] \o Expanded(r, Slice(t, m.start, m.end))
       IN  /\ m.start = m.end /\ m.start = Len(t) => w[Len(t) + 1] = x
           /\ m.start = m.end /\ m.start # Len(t) => w[m.start + 1] = Append(x, t[m.start + 1])
           /\ m.start # m.end => w[m.end] = x
           /\ m.start # m.end /\ m.end = Len(t) => w[Len(t) + 1] = x
  <2>1. \A n \in all : n = m \/ (n.start < m.start /\ n.end <= m.start)
    BY <1>0, <1>3, <1>5
  <2>2. m \in all /\ m.start <= m.end
    BY <1>2
  <2> HIDE DEF all
  <2> QED
    BY <1>0, <1>4, <2>1, <2>2, LineReplaces
<1>13. written = line[next]
  <2> HIDE DEF line
  <2>1. line[m.start] \o Expanded(r, Slice(t, m.start, m.end)) = replaced
    BY <1>11
  <2> HIDE DEF replaced
  <2>2. CASE q > p
    <3>1. written = replaced /\ next = IF q = N THEN N + 1 ELSE q
      BY <2>2 DEF replaced
    <3>2. p # q
      BY <1>3, <2>2
    <3> QED
      BY <1>12, <2>1, <3>1, <3>2
  <2>3. CASE ~(q > p) /\ p = N
    <3>1. written = replaced /\ next = N + 1
      BY <2>3 DEF replaced
    <3>2. p = q
      BY <1>3, <2>3
    <3> QED
      BY <1>12, <2>1, <2>3, <3>1, <3>2
  <2>4. CASE ~(q > p) /\ p # N
    <3>1. written = Append(replaced, t[m.start + 1]) /\ next = m.start + 1
      BY <2>4 DEF replaced
    <3>2. p = q
      BY <1>3, <2>4
    <3> QED
      BY <1>12, <2>1, <2>4, <3>1, <3>2
  <2> QED
    BY <2>2, <2>3, <2>4
<1>14. all # {}
  OBVIOUS
<1> HIDE DEF all, line, p, q
<1>15. Searched(node, t, r, next, until, all, written)
  BY <1>4, <1>6, <1>7, <1>8, <1>9, <1>10, <1>13, <1>14 DEF Searched, line
<1> QED
  BY <1>15 DEF all

\* The end of the loop.
LEMMA AllSearched ==
    ASSUME NEW node \in Trees, NEW t \in Seq(Bytes), NEW r \in Lines,
           NEW from, NEW copied, NEW ms, NEW made,
           Searched(node, t, r, from, copied, ms, made),
           from > Len(t) \/ Find(node, t, from) = {}
    PROVE  /\ \A m \in ms : LongestMatch(node, t, m)
           /\ Apart(ms)
           /\ \A i \in 0 .. Len(t) : MatchAt(node, t, i) => CoveredBy(ms, t, i)
           /\ ms # {} <=> \E i \in 0 .. Len(t) : MatchAt(node, t, i)
           /\ ms # {} <=> Search(node, t)
           /\ made \o Slice(t, copied, Len(t)) = LineOf(t, r, ms)[Len(t) + 1]
<1> DEFINE N == Len(t)
           line == LineOf(t, r, ms)
<1>0. N \in Nat /\ t \in Lines /\ from \in 0 .. N + 1
      /\ copied = IF from > N THEN N ELSE from
  BY BytesAreStrings DEF Searched
<1>1. /\ ms \in SUBSET MatchesOf(t)
      /\ \A n \in ms : n.start < from /\ n.start <= n.end /\ n.end <= from
      /\ \A n \in ms : LongestMatch(node, t, n)
      /\ Apart(ms)
      /\ \A i \in 0 .. Len(t) : i < from /\ MatchAt(node, t, i) => CoveredBy(ms, t, i)
      /\ made = line[from]
      /\ ms = {} => from = 0
  BY DEF Searched
<1>2. ASSUME NEW i \in 0 .. N, MatchAt(node, t, i)
      PROVE  i < from /\ CoveredBy(ms, t, i)
  <2>1. i < from
    <3>1. CASE from > N
      BY <1>0, <3>1
    <3>2. CASE ~(from > N)
      <4>1. from \in 0 .. Len(t) /\ Find(node, t, from) = {}
        BY <1>0, <3>2
      <4>2. \A k \in from .. N : \A j : ~StandsFor(node, t, k, j)
        BY <4>1, NothingFound
      <4>3. i \notin from .. N
        BY <1>2, <4>2 DEF MatchAt
      <4> QED
        BY <1>0, <4>3
    <3> QED
      BY <3>1, <3>2
  <2> QED
    BY <1>1, <1>2, <2>1
<1>3. ASSUME NEW m \in ms PROVE m.start \in 0 .. N /\ MatchAt(node, t, m.start)
  <2>1. m.start \in 0 .. N /\ m.end \in m.start .. N
    BY <1>0, <1>1 DEF MatchesOf
  <2>2. StandsFor(node, t, m.start, m.end)
    BY <1>1 DEF LongestMatch
  <2> QED
    BY <2>1, <2>2 DEF MatchAt
<1>4. (ms # {}) <=> \E i \in 0 .. N : MatchAt(node, t, i)
  <2>1. ASSUME NEW i \in 0 .. N, MatchAt(node, t, i) PROVE ms # {}
    BY <1>2, <2>1 DEF CoveredBy
  <2> QED
    BY <1>3, <2>1
<1>5. Search(node, t) <=> \E i \in 0 .. N : MatchAt(node, t, i)
  <2>1. 0 \in 0 .. Len(t)
    BY <1>0
  <2>2. ASSUME NEW m \in Find(node, t, 0) PROVE \E i \in 0 .. N : MatchAt(node, t, i)
    <3>1. m \in MatchesOf(t) /\ m.start <= m.end /\ StandsFor(node, t, m.start, m.end)
      BY <2>1, FoundMatch
    <3>2. m.start \in 0 .. N /\ m.end \in m.start .. N
      BY <1>0, <3>1 DEF MatchesOf
    <3> QED
      BY <3>1, <3>2 DEF MatchAt
  <2>3. ASSUME Find(node, t, 0) = {} PROVE ~\E i \in 0 .. N : MatchAt(node, t, i)
    <3>1. \A k \in 0 .. N : \A j : ~StandsFor(node, t, k, j)
      BY <2>1, <2>3, NothingFound
    <3> QED
      BY <3>1 DEF MatchAt
  <2> QED
    BY <2>2, <2>3 DEF Search
<1>6. made \o Slice(t, copied, N) = line[N + 1]
  <2>1. CASE from > N
    <3>1. from = N + 1 /\ copied = N /\ Slice(t, N, N) = <<>>
      BY <1>0, <2>1, EmptySlice
    <3>2. line[N + 1] \in Lines
      <4>1. N + 1 \in 0 .. Len(t) + 1
        BY <1>0
      <4> QED
        BY <1>0, <1>1, <4>1, LineSteps
    <3>3. line[N + 1] \o <<>> = line[N + 1]
      <4> HIDE DEF line
      <4> QED
        BY <3>2 DEF Lines
    <3> HIDE DEF line
    <3> QED
      BY <1>1, <3>1, <3>3
  <2>2. CASE ~(from > N)
    <3>1. copied = from /\ from \in 0 .. N
      BY <1>0, <2>2
    <3>2. \A n \in ms : N <= n.start \/ (n.start < from /\ n.end <= from)
      BY <1>1
    <3>3. line[N] = line[from] \o Slice(t, from, N)
      <4>1. N \in from .. Len(t)
        BY <1>0, <3>1
      <4> QED
        BY <1>0, <1>1, <3>1, <3>2, <4>1, LineCopies
    <3>4. line[N + 1] = line[N]
      <4>1. \A n \in ms : n.start # Len(t)
        BY <1>0, <1>1, <3>1
      <4> QED
        BY <1>0, <1>1, <4>1, LineEnds
    <3> HIDE DEF line
    <3> QED
      BY <1>1, <3>1, <3>3, <3>4
  <2> QED
    BY <2>1, <2>2
<1> QED
  BY <1>1, <1>2, <1>4, <1>5, <1>6

-----------------------------------------------------------------------------
(* The invariant, and the theorems.                                      *)

\* The types, and with them that the pattern is always a tree.
SubstitutionTypeOK ==
    /\ source \in Sources
    /\ status \in {"typed", "refused", "parsed", "searching", "changed", "unchanged"}
    /\ pattern \in Trees
    /\ text \in Seq(Bytes)
    /\ replacement \in Lines

\* Before the search nothing is done.
NothingDone ==
    status \in {"typed", "refused", "parsed"} =>
        searchFrom = 0 /\ copiedUntil = 0 /\ matches = {} /\ result = <<>>

\* While it is searched, all before searchFrom is as it should be.
SearchedSoFar ==
    status = "searching" =>
        Searched(pattern, text, replacement, searchFrom, copiedUntil, matches, result)

\* The inductive invariant.
SubstitutionInv ==
    SubstitutionTypeOK /\ NothingDone /\ SearchedSoFar /\ SubstitutionIsLeftmostLongest

\* What is typed can be read.
LEMMA SourcesAreSources ==
    ASSUME NEW s \in Sources
    PROVE  IsSource(s)
<1>1. Sources \subseteq Seq(SourceCharacters) /\ Len(s) <= LongestPattern
  BY SubstitutionAssumption DEF SourceCharacters
<1> QED
  BY <1>1 DEF IsSource

\* The pattern before it is read.
LEMMA EmptyPatternIsTree == SequenceOf(<<>>) \in Trees
<1> DEFINE A == IF LongestPattern = 0 THEN {} ELSE Height(LongestPattern - 1)
<1>1. LongestPattern \in 0 .. LongestPattern
  BY PatternMatcherAssumption
<1>2. Trees = TreesOver(A)
  BY <1>1, TreesOfHeight DEF Trees, Height
<1>3. <<>> \in Seq(A)
  BY ShortSequences
<1> HIDE DEF A
<1> QED
  BY <1>2, <1>3, NodesAreTrees

\* What is said of the finished command, for one set of matches.
LEMMA Finished ==
    ASSUME NEW node, NEW t, NEW r, NEW ms, NEW made, NEW changed \in BOOLEAN,
           \A m \in ms : LongestMatch(node, t, m), Apart(ms),
           \A i \in 0 .. Len(t) : MatchAt(node, t, i) => CoveredBy(ms, t, i),
           changed <=> \E i \in 0 .. Len(t) : MatchAt(node, t, i),
           changed <=> Search(node, t),
           changed => made = LineOf(t, r, ms)[Len(t) + 1],
           pattern' = node, text' = t, replacement' = r, matches' = ms, result' = made,
           status' = IF changed THEN "changed" ELSE "unchanged"
    PROVE  SubstitutionIsLeftmostLongest'
<1>1. (status' = "changed") = changed
  OBVIOUS
<1>2. \A i : IsMatch(i)' = MatchAt(node, t, i)
  BY DEF IsMatch, MatchAt
<1>3. \A i : Covered(i)' = CoveredBy(ms, t, i)
  BY DEF Covered, CoveredBy
<1>4. Rewritten' = LineOf(t, r, ms)[Len(t) + 1]
  <2>1. Rewritten' = LineOf(text', replacement', matches')[Len(text') + 1]
    BY DEF Rewritten, Written, WrittenAt, LineOf, LineAt
  <2> QED
    BY <2>1
<1>5. /\ \A m \in matches' :
            /\ StandsFor(pattern', text', m.start, m.end)
            /\ \A j \in m.end + 1 .. Len(text') : ~StandsFor(pattern', text', m.start, j)
      /\ \A m, n \in matches' :
            m # n => m.start # n.start /\ (m.end <= n.start \/ n.end <= m.start)
  BY DEF LongestMatch, Apart
<1>6. \A i \in 0 .. Len(text') : IsMatch(i)' => Covered(i)'
  BY <1>2, <1>3
<1>7. (status' = "changed") = \E i \in 0 .. Len(text') : IsMatch(i)'
  BY <1>1, <1>2
<1>8. (status' = "changed") = Search(pattern', text')
  <2>1. Search(node, t) \in BOOLEAN
    BY DEF Search
  <2> QED
    BY <1>1, <2>1
<1>9. status' = "changed" => result' = Rewritten'
  BY <1>1, <1>4
<1> QED
  BY <1>5, <1>6, <1>7, <1>8, <1>9, Zenon DEF SubstitutionIsLeftmostLongest

\* It holds at first.
LEMMA InitHolds == Init => SubstitutionInv
<1> SUFFICES ASSUME Init PROVE SubstitutionInv
  OBVIOUS
<1> USE DEF Init
<1>1. SubstitutionTypeOK
  BY EmptyPatternIsTree, ShortSequences DEF SubstitutionTypeOK, Lines
<1> QED
  BY <1>1 DEF SubstitutionInv, NothingDone, SearchedSoFar, SubstitutionIsLeftmostLongest

\* PatternParser::parse() keeps it: the parser answers with a tree (PatternRead).
LEMMA ReadHolds == SubstitutionInv /\ Read => SubstitutionInv'
<1> SUFFICES ASSUME SubstitutionInv, Read PROVE SubstitutionInv'
  OBVIOUS
<1>1. /\ status = "typed" /\ status' \in {"parsed", "refused"}
      /\ UNCHANGED <<source, text, replacement, result, copiedUntil, searchFrom, matches>>
  BY DEF Read
<1>2. pattern' \in Trees
  <2>1. IsSource(source)
    BY SourcesAreSources DEF SubstitutionInv, SubstitutionTypeOK
  <2>2. CASE ParsePattern(source).ok
    <3>1. pattern' = ParsePattern(source).node
      BY <2>2 DEF Read
    <3> QED
      BY <2>1, <2>2, <3>1, PatternRead
  <2>3. CASE ~ParsePattern(source).ok
    BY <2>3 DEF Read, SubstitutionInv, SubstitutionTypeOK
  <2> QED
    BY <2>2, <2>3
<1>3. SubstitutionTypeOK'
  BY <1>1, <1>2 DEF SubstitutionInv, SubstitutionTypeOK
<1>4. NothingDone'
  BY <1>1 DEF SubstitutionInv, NothingDone
<1> QED
  BY <1>1, <1>3, <1>4 DEF SubstitutionInv, SearchedSoFar, SubstitutionIsLeftmostLongest

\* So does the beginning of substitute_all().
LEMMA StartHolds == SubstitutionInv /\ Start => SubstitutionInv'
<1> SUFFICES ASSUME SubstitutionInv, Start PROVE SubstitutionInv'
  OBVIOUS
<1>1. /\ status = "parsed" /\ status' = "searching" /\ text' \in Texts /\ replacement' \in Replacements
      /\ UNCHANGED <<source, pattern, result, copiedUntil, searchFrom, matches>>
  BY DEF Start
<1>2. SubstitutionTypeOK'
  BY <1>1, SubstitutionAssumption DEF SubstitutionInv, SubstitutionTypeOK, Lines
<1>3. searchFrom' = 0 /\ copiedUntil' = 0 /\ matches' = {} /\ result' = <<>>
  BY <1>1 DEF SubstitutionInv, NothingDone
<1>4. Searched(pattern', text', replacement', 0, 0, {}, <<>>)
  BY <1>2, NothingSearched DEF SubstitutionTypeOK
<1>5. SearchedSoFar'
  BY <1>3, <1>4 DEF SearchedSoFar
<1> QED
  BY <1>1, <1>2, <1>5 DEF SubstitutionInv, NothingDone, SubstitutionIsLeftmostLongest

\* So does one turn of its loop, for empty matches and for others.
LEMMA ReplaceHolds == SubstitutionInv /\ Replace => SubstitutionInv'
<1> SUFFICES ASSUME SubstitutionInv, Replace PROVE SubstitutionInv'
  OBVIOUS
<1>1. /\ status = "searching" /\ searchFrom <= Len(text)
      /\ UNCHANGED <<source, status, pattern, text, replacement>>
  BY DEF Replace
<1>2. PICK m \in Find(pattern, text, searchFrom) :
         /\ matches' = matches \cup {m}
         /\ IF m.end > m.start THEN StepBehind(m) ELSE StepOver(m)
  BY DEF Replace
<1>3. /\ pattern \in Trees /\ text \in Seq(Bytes) /\ replacement \in Lines
      /\ Searched(pattern, text, replacement, searchFrom, copiedUntil, matches, result)
  BY <1>1 DEF SubstitutionInv, SubstitutionTypeOK, SearchedSoFar
<1>4. LET replaced == result \o Slice(text, copiedUntil, m.start)
                             \o Expanded(replacement, Slice(text, m.start, m.end))
      IN  \/ /\ m.end > m.start
             /\ result' = replaced /\ copiedUntil' = m.end
             /\ searchFrom' = IF m.end = Len(text) THEN Len(text) + 1 ELSE m.end
          \/ /\ ~(m.end > m.start) /\ m.start = Len(text)
             /\ result' = replaced /\ copiedUntil' = m.start /\ searchFrom' = Len(text) + 1
          \/ /\ ~(m.end > m.start) /\ m.start # Len(text)
             /\ result' = Append(replaced, text[m.start + 1])
             /\ copiedUntil' = m.start + 1 /\ searchFrom' = m.start + 1
  BY <1>2 DEF StepBehind, StepOver, WithMatch
<1>5. Searched(pattern, text, replacement, searchFrom', copiedUntil', matches \cup {m}, result')
  BY <1>1, <1>3, <1>4, OneMoreSearched
<1>6. SearchedSoFar'
  BY <1>1, <1>2, <1>5 DEF SearchedSoFar
<1>7. SubstitutionTypeOK'
  BY <1>1 DEF SubstitutionInv, SubstitutionTypeOK
<1> QED
  BY <1>1, <1>6, <1>7 DEF SubstitutionInv, NothingDone, SubstitutionIsLeftmostLongest

\* So does its end, with or without matches.
LEMMA FinishHolds == SubstitutionInv /\ Finish => SubstitutionInv'
<1> SUFFICES ASSUME SubstitutionInv, Finish PROVE SubstitutionInv'
  OBVIOUS
<1> DEFINE changed == matches # {}
<1>1. /\ status = "searching"
      /\ searchFrom > Len(text) \/ Find(pattern, text, searchFrom) = {}
      /\ status' = IF changed THEN "changed" ELSE "unchanged"
      /\ changed => result' = result \o Slice(text, copiedUntil, Len(text))
      /\ UNCHANGED <<source, pattern, text, replacement, copiedUntil, searchFrom, matches>>
  BY DEF Finish
<1>2. /\ pattern \in Trees /\ text \in Seq(Bytes) /\ replacement \in Lines
      /\ Searched(pattern, text, replacement, searchFrom, copiedUntil, matches, result)
  BY <1>1 DEF SubstitutionInv, SubstitutionTypeOK, SearchedSoFar
<1>3. /\ \A m \in matches : LongestMatch(pattern, text, m)
      /\ Apart(matches)
      /\ \A i \in 0 .. Len(text) : MatchAt(pattern, text, i) => CoveredBy(matches, text, i)
      /\ changed <=> \E i \in 0 .. Len(text) : MatchAt(pattern, text, i)
      /\ changed <=> Search(pattern, text)
      /\ result \o Slice(text, copiedUntil, Len(text))
         = LineOf(text, replacement, matches)[Len(text) + 1]
  <2>1. searchFrom > Len(text) \/ Find(pattern, text, searchFrom) = {}
    BY <1>1
  <2> HIDE DEF changed
  <2>2. /\ \A m \in matches : LongestMatch(pattern, text, m)
        /\ Apart(matches)
        /\ \A i \in 0 .. Len(text) : MatchAt(pattern, text, i) => CoveredBy(matches, text, i)
        /\ (matches # {}) <=> \E i \in 0 .. Len(text) : MatchAt(pattern, text, i)
        /\ (matches # {}) <=> Search(pattern, text)
        /\ result \o Slice(text, copiedUntil, Len(text))
           = LineOf(text, replacement, matches)[Len(text) + 1]
    BY <1>2, <2>1, AllSearched
  <2> QED
    BY <2>2 DEF changed
<1>4. SubstitutionIsLeftmostLongest'
  <2>1. changed \in BOOLEAN /\ (changed => result' = LineOf(text, replacement, matches)[Len(text) + 1])
    BY <1>1, <1>3
  <2> HIDE DEF changed
  <2> QED
    BY <1>1, <1>3, <2>1, Finished
<1>5. SubstitutionTypeOK'
  BY <1>1 DEF SubstitutionInv, SubstitutionTypeOK
<1> QED
  BY <1>1, <1>4, <1>5 DEF SubstitutionInv, NothingDone, SearchedSoFar

\* And a step of something else.
LEMMA StutterHolds == SubstitutionInv /\ UNCHANGED vars => SubstitutionInv'
<1> SUFFICES ASSUME SubstitutionInv, UNCHANGED vars PROVE SubstitutionInv'
  OBVIOUS
<1>1. UNCHANGED <<source, status, pattern, text, replacement, result, copiedUntil, searchFrom, matches>>
  BY DEF vars
<1>2. SubstitutionIsLeftmostLongest'
  <2>1. \A i : IsMatch(i)' = IsMatch(i)
    BY <1>1 DEF IsMatch
  <2>2. \A i : Covered(i)' = Covered(i)
    BY <1>1 DEF Covered
  <2>3. Rewritten' = Rewritten
    <3>1. Rewritten = LineOf(text, replacement, matches)[Len(text) + 1]
      BY DEF Rewritten, Written, WrittenAt, LineOf, LineAt
    <3>2. Rewritten' = LineOf(text', replacement', matches')[Len(text') + 1]
      BY DEF Rewritten, Written, WrittenAt, LineOf, LineAt
    <3> QED
      BY <1>1, <3>1, <3>2
  <2>4. SubstitutionIsLeftmostLongest
    BY DEF SubstitutionInv
  <2> QED
    BY <1>1, <2>1, <2>2, <2>3, <2>4 DEF SubstitutionIsLeftmostLongest
<1> QED
  BY <1>1, <1>2 DEF SubstitutionInv, SubstitutionTypeOK, NothingDone, SearchedSoFar

\* The inductive invariant holds.
LEMMA SubstitutionInvariant == Spec => []SubstitutionInv
<1>1. SubstitutionInv /\ [Next]_vars => SubstitutionInv'
  BY ReadHolds, StartHolds, ReplaceHolds, FinishHolds, StutterHolds DEF Next, Substitute
<1> QED
  BY InitHolds, <1>1, PTL DEF Spec

\* Whatever the pattern, the line and the replacement, substitute_all() replaces from left
\* to right the longest match at each place, none twice and none overlapping, leaves out no
\* place where a match begins, keeps every other byte, and reports a line as unchanged only
\* when it has no match.
THEOREM SubstitutionIsRight == Spec => []SubstitutionIsLeftmostLongest
<1>1. SubstitutionInv => SubstitutionIsLeftmostLongest
  BY DEF SubstitutionInv
<1> QED
  BY SubstitutionInvariant, <1>1, PTL

\* Whatever the pattern and the line, match_from() finds at every position the ends of all
\* the texts that the pattern stands for, and no other.
THEOREM MatcherFindsTheLanguage == Spec => []EndsAreTheLanguage
<1>1. SubstitutionInv => EndsAreTheLanguage
  BY EndsAreWhatTreesStandFor DEF SubstitutionInv, SubstitutionTypeOK, EndsAreTheLanguage
<1> QED
  BY SubstitutionInvariant, <1>1, PTL
=============================================================================

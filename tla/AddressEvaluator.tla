-------------------------- MODULE AddressEvaluator --------------------------
(***************************************************************************)
(* The evaluation of a parsed line address against a buffer.  A result is  *)
(* a set: the one range the address denotes, or the empty set where the    *)
(* code throws CommandExecutionError.                                      *)
(*                                                                         *)
(* Line numbers are size_t: the forward relative address adds modulo       *)
(* SizeModulus, 2^64 in the program and a small power of two in the runs.  *)
(***************************************************************************)
EXTENDS Buffer

CONSTANT SizeModulus

ASSUME SizeModulusAssumption == SizeModulus \in Nat \ {0}

\* The address nodes the parser builds (NoAddress is the null pointer).
NoAddress           == [kind |-> "none"]
AbsoluteAddress(n)  == [kind |-> "absolute", line |-> n]
CurrentAddress      == [kind |-> "current"]
LastAddress         == [kind |-> "last"]
ForwardAddress(n)   == [kind |-> "forward", distance |-> n]
BackwardAddress(n)  == [kind |-> "backward", distance |-> n]
RangeAddress(a, b)  == [kind |-> "range", first |-> a, last |-> b]

LineRange(b) == [first : 1 .. LineCount(b), last : 1 .. LineCount(b)]

LineOf(address, b) ==
    CASE address.kind = "absolute" -> address.line
      [] address.kind = "current"  -> b.current_line
      [] address.kind = "last"     -> LineCount(b)
      [] address.kind = "forward"  ->
             (b.current_line + address.distance) % SizeModulus
      [] address.kind = "backward" -> b.current_line - address.distance

\* require_existing() closes every path; a backward distance that reaches
\* or passes line zero is refused before the subtraction.
EvaluateSingle(address, b) ==
    { n \in 1 .. LineCount(b) : n = LineOf(address, b) }

EvaluateRange(address, b) ==
    { r \in LineRange(b) :
        /\ r.first \in EvaluateSingle(address.first, b)
        /\ r.last \in EvaluateSingle(address.last, b)
        /\ r.first <= r.last }

Evaluate(address, b) ==
    CASE address.kind = "none"  ->
             { r \in LineRange(b) : r.first = b.current_line /\ r.last = r.first }
      [] address.kind = "range" -> EvaluateRange(address, b)
      [] OTHER                  ->
             { r \in LineRange(b) :
                 r.first \in EvaluateSingle(address, b) /\ r.last = r.first }

=============================================================================

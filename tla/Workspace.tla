----------------------------- MODULE Workspace -----------------------------
(***************************************************************************)
(* What the editor promises to somebody who cares for the text alone: a    *)
(* set of named texts, each with the copy of it that is in a file or is    *)
(* nothing, and a session that ends.  There are no cursors, no flags that  *)
(* say what is modified, no list of buffers, and no commands: only what    *)
(* one command may do to the texts and to their copies.                    *)
(***************************************************************************)
CONSTANT Names  \* names of buffers

VARIABLES open,    \* the buffers there are
          text,    \* what each holds
          kept,    \* what a file held, when it was read or written last
          session  \* "no" end yet, "quit" or "immediate"

texts == <<open, text, kept, session>>

Nothing == [n \in Names |-> <<>>]
IsKept(n) == text[n] = kept[n]
Changed == { n \in Names : text'[n] # text[n] }

Init ==
    /\ open \in { {n} : n \in Names }
    /\ text = Nothing /\ kept = Nothing
    /\ session = "no"

\* A command works on the current buffer, and M and ZG on another one, too.
\* Buffers are made empty, and go when they have never held anything.
Work ==
    /\ session = "no"
    /\ open' \subseteq Names /\ open' # {}
    /\ \A n \in open \ open' : text[n] = <<>> /\ IsKept(n)
    /\ \A n \in Names \ open' : text'[n] = <<>>
    /\ \E a, b \in Names : Changed \subseteq {a, b}
    /\ kept' = kept
    /\ UNCHANGED session

\* A whole text goes to a file, or a file comes into a buffer that has none.
Exchange ==
    /\ session = "no"
    /\ \E n \in open :
          /\ Changed \subseteq {n}
          /\ text[n] = <<>> \/ text' = text
          /\ kept' = [kept EXCEPT ![n] = text'[n]]
    /\ UNCHANGED <<open, session>>

\* Q, when every text is kept.
Leave ==
    /\ session = "no" /\ session' = "quit"
    /\ \A n \in open : IsKept(n)
    /\ UNCHANGED <<open, text, kept>>

\* QQ, whatever is lost.
Abandon ==
    /\ session = "no" /\ session' = "immediate"
    /\ UNCHANGED <<open, text, kept>>

Next == Work \/ Exchange \/ Leave \/ Abandon
Spec == Init /\ [][Next]_texts
============================================================================

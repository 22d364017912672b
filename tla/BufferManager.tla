---------------------------- MODULE BufferManager ----------------------------
(***************************************************************************)
(* The owner of all live buffers.  A manager is a record                   *)
(*    buffers      a function from the names of the live buffers,          *)
(*    usage_order  the names, most recently selected first,                *)
(*    current      the name of the current buffer (the code keeps a        *)
(*                 pointer into its map; a pointer to an erased buffer is  *)
(*                 a name outside DOMAIN buffers).                         *)
(* Every operation is an operator from a manager to a manager, so that a   *)
(* command that performs several of them composes them in their order.     *)
(***************************************************************************)
EXTENDS Buffer

CONSTANTS Names,    \* buffer names somebody may ask for
          Zero,     \* buffer "0", the bootstrap buffer
          TooLong   \* the names beyond max_buffer_name_length

ASSUME NamesAssumption == Zero \in Names /\ TooLong \subseteq Names \ {Zero}

Open(m) == DOMAIN m.buffers

IsManager(m) ==
    /\ m = [ buffers     |-> m.buffers,
             usage_order |-> m.usage_order,
             current     |-> m.current ]
    /\ Open(m) \subseteq Names
    /\ m.buffers \in [Open(m) -> BufferRecord]
    /\ m.usage_order \in Seq(Names)
    /\ m.current \in Names

CurrentBuffer(m) == m.buffers[m.current]

\* The manager after the buffer called `name`, new or not, became b.
Put(m, name, b) ==
    [m EXCEPT !.buffers = [n \in Open(m) \cup {name} |->
                             IF n = name THEN b ELSE m.buffers[n]]]

PutCurrent(m, b) == Put(m, m.current, b)

\* A list without a name.  The code erases every occurrence; the list never
\* holds a name twice (UniqueUsage), so there is one at most.
Without(order, name) ==
    IF \E i \in 1 .. Len(order) : order[i] = name
      THEN LET i == CHOOSE j \in 1 .. Len(order) : order[j] = name
           IN SubSeq(order, 1, i - 1) \o SubSeq(order, i + 1, Len(order))
      ELSE order

Touch(order, name) == <<name>> \o Without(order, name)

\* A buffer the manager may drop when it is left (FR-0006).
Transient(m, name) ==
    /\ name # Zero
    /\ IsEmpty(m.buffers[name])
    /\ ~m.buffers[name].modified
    /\ m.buffers[name].file = NoFile

GetOrCreate(m, name) ==
    IF name \in Open(m) THEN m ELSE Put(m, name, NewBuffer)

Select(m, name) ==
    [ buffers     |-> m.buffers,
      usage_order |-> Touch(m.usage_order, name),
      current     |-> name ]

\* Mutant: the dropped name stays in the list.
DropUnlisted(m, name) ==
    [m EXCEPT !.buffers = [n \in Open(m) \ {name} |-> m.buffers[n]]]

Drop(m, name) ==
    [ buffers     |-> [n \in Open(m) \ {name} |-> m.buffers[n]],
      usage_order |-> Without(m.usage_order, name),
      current     |-> m.current ]

\* Mutant: the test is made after the change, on the buffer just entered.
CreateOrSelectTestsLate(m, name) ==
    LET selected == Select(GetOrCreate(m, name), name)
    IN IF m.current # name /\ Transient(selected, name) /\ Transient(m, m.current)
         THEN Drop(selected, m.current)
         ELSE selected

\* Whether to drop the buffer being left is decided before the change.
CreateOrSelect(m, name) ==
    LET selected == Select(GetOrCreate(m, name), name)
    IN IF m.current # name /\ Transient(m, m.current)
         THEN Drop(selected, m.current)
         ELSE selected

InitialManager ==
    [ buffers     |-> [n \in {Zero} |-> NewBuffer],
      usage_order |-> <<Zero>>,
      current     |-> Zero ]

\* Mutant: the current buffer is not chosen anew.
ErasedUnderCurrent(m, name) ==
    IF Open(m) = {name} THEN {InitialManager} ELSE {Drop(m, name)}

\* erase(): when the current buffer is the one erased, any other may become
\* current (the map is unordered).  Without any buffer, buffer 0 is made anew.
Erased(m, name) ==
    LET left == Drop(m, name)
    IN IF Open(left) = {} THEN {InitialManager}
       ELSE IF m.current = name
         THEN { [ buffers     |-> left.buffers,
                  usage_order |-> left.usage_order,
                  current     |-> n ] : n \in Open(left) }
       ELSE {left}

\* Mutant: only the buffer in use is examined.
CurrentModified(m) == { n \in {m.current} : m.buffers[n].modified }

ModifiedNames(m) == { n \in Open(m) : m.buffers[n].modified }

-----------------------------------------------------------------------------
(***************************************************************************)
(* What every manager satisfies between two operations.                    *)
(***************************************************************************)

\* The current buffer exists: the pointer the runtime dereferences before
\* every command never dangles, whatever buffers were dropped.
CurrentIsOpen(m) == m.current \in Open(m)

\* No name is listed twice: touch() and erase() keep the list a set.
UniqueUsage(m) ==
    \A i, j \in 1 .. Len(m.usage_order) :
        m.usage_order[i] = m.usage_order[j] => i = j

\* Every listed name is a live buffer, so FB, which looks each of them up,
\* never meets an unknown buffer.
ListedAreOpen(m) ==
    \A i \in 1 .. Len(m.usage_order) : m.usage_order[i] \in Open(m)

\* A disposable buffer exists only while it is the current one: no sequence
\* of commands leaves an empty, clean, unnamed buffer behind.
TransientOnlyCurrent(m) ==
    \A n \in Open(m) : Transient(m, n) => n = m.current

BuffersOK(m) == \A n \in Open(m) : BufferOK(m.buffers[n])

ManagerOK(m) ==
    /\ IsManager(m)
    /\ BuffersOK(m)
    /\ CurrentIsOpen(m)
    /\ UniqueUsage(m)
    /\ ListedAreOpen(m)
    /\ TransientOnlyCurrent(m)

=============================================================================

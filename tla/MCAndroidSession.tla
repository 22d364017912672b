-------------------------- MODULE MCAndroidSession --------------------------
(***************************************************************************)
(* The values the runs give to the constants of AndroidSession; those of   *)
(* the executor are MCCommandExecutor's.                                   *)
(***************************************************************************)
EXTENDS MCCommandExecutor, AndroidSession

ChainCommands == {"A", "C", "D", "P", "Q", "QQ", "G", "ZG", "comment"}

\* Chains that a text command suspends, that an error or an exit may end
\* early, that hold a loop, and a line that does not parse.
ChainLines ==
    { [commands |-> <<"A", "P">>, parses |-> TRUE],
      [commands |-> <<"C", "ZG">>, parses |-> TRUE],
      [commands |-> <<"G", "D">>, parses |-> TRUE],
      [commands |-> <<"comment", "D">>, parses |-> TRUE],
      [commands |-> <<"Q", "A">>, parses |-> TRUE],
      [commands |-> <<"QQ", "C">>, parses |-> TRUE],
      [commands |-> <<>>,         parses |-> FALSE] }

\* One command behind a text command is enough to be left in the queue.
ShortCommands == {"A", "D"}
ShortLines == { [commands |-> <<"A", "D">>, parses |-> TRUE],
                [commands |-> <<"D">>,      parses |-> TRUE] }

NearAddresses == {NoAddress, AbsoluteAddress(1)}

=============================================================================

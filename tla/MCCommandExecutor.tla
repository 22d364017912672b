------------------------- MODULE MCCommandExecutor -------------------------
(***************************************************************************)
(* The values the runs give to the constants of CommandExecutor.           *)
(***************************************************************************)
EXTENDS CommandExecutorRefinement

\* Two lines that differ; one more that is not ASCII, one that is not UTF-8,
\* and one without characters, for the runs about files.
PlainText == {"a", "b"}
OneText   == {"a"}
AccentedText  == {"e-acute", "bad-byte"}
MalformedText == {"bad-byte"}
FileText      == {"a"} \cup AccentedText
BlankText == {"a", ""}

OnlyZero   == {"0"}
FewNames   == {"0", "x", "toolong"}
LongNames  == {"toolong"}
NoNames    == {}

OneFile == {"f"}
TwoFiles == {"f", "g"}

\* Every form of an address, in range and out of it.
AllAddresses ==
    { NoAddress, AbsoluteAddress(0), AbsoluteAddress(1), AbsoluteAddress(2),
      CurrentAddress, LastAddress,
      ForwardAddress(1), BackwardAddress(1),
      RangeAddress(AbsoluteAddress(1), LastAddress),
      RangeAddress(CurrentAddress, ForwardAddress(1)),
      RangeAddress(LastAddress, AbsoluteAddress(1)) }

FewAddresses ==
    { NoAddress, AbsoluteAddress(1), LastAddress,
      RangeAddress(AbsoluteAddress(1), LastAddress) }

FileAddresses == {NoAddress, LastAddress}

PlainBlocks == { <<>>, <<"a">>, <<"b", "a">> }
OneBlocks   == { <<>>, <<"a">> }
FileBlocks  == { <<"a">>, <<"e-acute">> }
BlankBlocks == { <<"a">>, <<"">> }

MatchA        == {{"a"}}
MatchAll      == {{"a"}, {"a", "b"}}

\* s/a/b/ and s/^/&/, which matches everything and changes nothing.
PlainSubstitutions ==
    { [t \in {"a"} |-> "b"], [t \in PlainText |-> t] }
NoSubstitutions == {}

EmptyDisk == [f \in {} |-> Absent]
EmptyFile ==
    [f \in OneFile |-> [lines |-> <<>>, final_newline |-> FALSE, bom |-> FALSE]]
AbsentFile == [f \in OneFile |-> Absent]
\* A file to read, with an unusual end, and one that is not UTF-8.
MixedDisk ==
    [f \in TwoFiles |->
        IF f = "f" THEN [lines |-> <<"a">>, final_newline |-> FALSE, bom |-> TRUE]
                   ELSE [lines |-> <<"bad-byte">>, final_newline |-> TRUE, bom |-> FALSE]]

\* A file that cannot be opened.
UnreadableFile == [f \in OneFile |-> Unreadable]

SeenFaults  == {"create", "stream"}
CloseFaults == {"close"}

LineCommands   == {"P", "D", "Z", "T", "A", "I", "C", "S", "G", "J", "QQ", "L", "comment"}
BufferCommands == {"B", "M", "A", "D", "ZG", "P", "F", "O", "Q"}
FileCommands   == {"R", "W", "L", "!", "A", "D", "Q"}
AppendWrite    == {"A", "W"}
EditFile       == {"R", "A", "W"}

\* What the run `files` tells states apart by: its commands and properties
\* write the registers and the outcome but never look at them.
TextsAndFiles == <<mgr, disk, exit>>
=============================================================================

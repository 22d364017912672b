--------------------- MODULE CommandExecutorRefinement ---------------------
(***************************************************************************)
(* The commands, seen through their effect on texts: the flags, cursors    *)
(* and addresses of CommandExecutor implement Workspace.                   *)
(***************************************************************************)
EXTENDS CommandExecutor

TextOf(m, n) == IF n \in Open(m) THEN m.buffers[n].lines ELSE <<>>
CopyOf(m, n) == IF n \in Open(m) THEN m.buffers[n].saved ELSE <<>>

Texts  == [n \in Names |-> TextOf(mgr, n)]
Copies == [n \in Names |-> CopyOf(mgr, n)]

Promise == INSTANCE Workspace WITH
    open <- Open(mgr), text <- Texts, kept <- Copies, session <- exit

\* Every command is one step of Workspace or none: no command touches more
\* than the buffers it is about, no buffer goes with text in it or with a copy
\* to differ from, a plain R brings a file only where there was no text, W of
\* a part keeps nothing, a failed W keeps nothing, and Q is accepted when all
\* is kept, which the code knows by the flags of the buffers only
\* (CommandExecutor.cpp, BufferManager.cpp, Buffer.cpp).
KeepsThePromise == Promise!Spec
============================================================================

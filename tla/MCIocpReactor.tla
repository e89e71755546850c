--------------------------- MODULE MCIocpReactor ---------------------------
(* The Windows reactor with two sockets. *)
EXTENDS IocpReactor

CONSTANTS h1, h2

MCHandles == {h1, h2}
MCInterests == {{"Readable"}, {"Writable"}}
MCFires == {{"RECEIVE", "ABORT", "SEND"}}
=============================================================================

------------------------------- MODULE MCLsp -------------------------------
(***************************************************************************)
(* The live sequence protocol on small instances.                          *)
(***************************************************************************)
EXTENDS Lsp

\* Payloads written on a connection: enough for the sequence number to wrap.
TwoAndOne == [client |-> 2, server |-> 1]
=============================================================================

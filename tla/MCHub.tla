------------------------------- MODULE MCHub -------------------------------
(***************************************************************************)
(* Hub for TLC: one connection, a channel that holds two updates, and five *)
(* updates, so that it fills up, is cut off, and drains several into one   *)
(* message.  What several connections could do to each other is proved not *)
(* to happen, for any number of them, in HubProofs.                        *)
(***************************************************************************)
EXTENDS Hub
=============================================================================

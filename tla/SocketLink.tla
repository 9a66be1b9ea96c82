------------------------------ MODULE SocketLink ------------------------------
(***************************************************************************)
(* What is between one websocket client and the session the server keeps   *)
(* for it: a connection that keeps the order of the messages written to    *)
(* it, and may end at any time, with whatever is still on it.              *)
(*                                                                         *)
(* A message is the number under which its sender sent it: 1, 2, 3, ...    *)
(***************************************************************************)
EXTENDS Integers, Sequences

VARIABLES
    link,       \* "none" before the websocket handshake, then "up", then "down"
    toServer,   \* written by the client, not yet read by the server
    toClient    \* written by the server, not yet read by the client

linkVars == <<link, toServer, toClient>>

Message == Nat \ {0}

LinkTypeOK ==
    /\ link \in {"none", "up", "down"}
    /\ toServer \in Seq(Message)
    /\ toClient \in Seq(Message)

LinkInit ==
    /\ link = "none"
    /\ toServer = <<>>
    /\ toClient = <<>>

\* A boost write that has completed: the message is on the wire, if there is one.
Put(wire, m) == IF link = "up" THEN Append(wire, m) ELSE wire
=============================================================================

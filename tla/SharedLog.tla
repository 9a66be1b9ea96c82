------------------------------- MODULE SharedLog -------------------------------
(***************************************************************************)
(* What a live session promises: for each layer one log of updates, which  *)
(* only grows, and for each client the part of it the client has been      *)
(* given.  A client is given the log from its beginning, in order, each    *)
(* entry once: the updates of others in full, its own as an                *)
(* acknowledgement that only names the paths.                              *)
(***************************************************************************)
EXTENDS Integers, Sequences

CONSTANTS
    Clients, Layers, Updates,
    PathsOnly(_)    \* what is left of updates when only the paths are named

VARIABLES
    log,    \* [layer]: the sequence of [user, updates]
    given   \* [client][layer]: what the client has been given of it

vars == <<log, given>>

Init ==
    /\ log = [l \in Layers |-> <<>>]
    /\ given = [c \in Clients |-> [l \in Layers |-> <<>>]]

\* Some client appends some updates.
Submit(l) ==
    /\ \E n \in DOMAIN log'[l] :
          /\ n = Len(log[l]) + 1
          /\ log'[l][n] \in [user : Clients, updates : Updates]
          /\ log' = [log EXCEPT ![l] = Append(@, log'[l][n])]
    /\ UNCHANGED given

AsSeenBy(c, entry) ==
    IF entry.user = c THEN PathsOnly(entry.updates) ELSE entry.updates

Give(c, l) ==
    /\ Len(given[c][l]) < Len(log[l])
    /\ given' = [given EXCEPT ![c][l] =
                    Append(@, AsSeenBy(c, log[l][Len(@) + 1]))]
    /\ UNCHANGED log

Next ==
    \E l \in Layers : Submit(l) \/ \E c \in Clients : Give(c, l)

Spec == Init /\ [][Next]_vars
=============================================================================

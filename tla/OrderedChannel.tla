---------------------------- MODULE OrderedChannel ----------------------------
(***************************************************************************)
(* What a message socket promises in one direction: the receiver gets the  *)
(* messages in the order in which they were sent, none twice, none         *)
(* skipped.  It may get only the first of them, when the connection ends.  *)
(***************************************************************************)
EXTENDS Integers, Sequences

VARIABLES
    sent,   \* how many messages have been sent
    got     \* the messages received, each named by its number

vars == <<sent, got>>

Init == sent = 0 /\ got = <<>>

Send == sent' = sent + 1 /\ UNCHANGED got

Deliver ==
    /\ Len(got) < sent
    /\ got' = Append(got, Len(got) + 1)
    /\ UNCHANGED sent

Next == Send \/ Deliver

Spec == Init /\ [][Next]_vars
=============================================================================

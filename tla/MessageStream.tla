----------------------------- MODULE MessageStream -----------------------------
(***************************************************************************)
(* What the layers above the framing rely on (Messenger of messenger.go,   *)
(* as Signaling assumes it): a stream of whole messages, in order, without *)
(* loss before it is closed.  Closing it may lose the last ones.  Only     *)
(* messages in Carried are promised to pass: the receiver stops at         *)
(* another, or at the end.                                                 *)
(***************************************************************************)
EXTENDS Naturals, Sequences

CONSTANTS
    Msgs,       \* messages
    Carried     \* the ones the stream is able to carry

VARIABLES
    sent,       \* messages sent
    whole,      \* how many of them arrive
    closed,     \* the stream is closed
    received,   \* messages received
    stopped     \* the receiver has stopped

vars == <<sent, whole, closed, received, stopped>>

Init ==
    /\ sent = <<>> /\ whole = 0 /\ closed = FALSE
    /\ received = <<>> /\ stopped = FALSE

Send(m) ==
    /\ ~closed
    /\ sent' = Append(sent, m)
    /\ whole' = whole + 1
    /\ UNCHANGED <<closed, received, stopped>>

Close ==
    /\ ~closed
    /\ closed' = TRUE
    /\ whole' \in Len(received)..whole
    /\ UNCHANGED <<sent, received, stopped>>

NextMsg == sent[Len(received) + 1]

Receive ==
    /\ ~stopped
    /\ Len(received) < whole /\ NextMsg \in Carried
    /\ received' = Append(received, NextMsg)
    /\ UNCHANGED <<sent, whole, closed, stopped>>

Stop ==
    /\ ~stopped
    /\ \/ closed /\ Len(received) = whole
       \/ Len(received) < Len(sent) /\ NextMsg \notin Carried
    /\ stopped' = TRUE
    /\ UNCHANGED <<sent, whole, closed, received>>

Next == (\E m \in Msgs : Send(m)) \/ Close \/ Receive \/ Stop

\* What arrives is received; an end is noticed.
Spec == Init /\ [][Next]_vars /\ WF_vars(Receive \/ Stop)
================================================================================

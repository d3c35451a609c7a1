---------------------------- MODULE DataChannelConn ----------------------------
(***************************************************************************)
(* Write back-pressure of DataChannelConn (datachannel-conn.go).           *)
(*                                                                         *)
(* Write parks its goroutine on wBuffWaiterChan while more than wBuffMax   *)
(* bytes are buffered in the SCTP stream.  The OnBufferedAmountLow         *)
(* callback runs on the read loop of the SCTP association, once for each   *)
(* crossing of wBuffLow from above, and releases the parked writers one    *)
(* rendezvous at a time, as counted by wBuffWaiter.  The counter and the   *)
(* buffered amount are read and written without a common lock, so every    *)
(* line that touches them is a step of its own.                            *)
(*                                                                         *)
(* exec selects between the end of the write and wCtx.context, which stays *)
(* context.Background for ever (setDeadline has a value receiver and       *)
(* updates a copy), so only the end of the write can return from Write.    *)
(***************************************************************************)
EXTENDS Integers, FiniteSets

CONSTANTS
    Writers,    \* goroutines that call Write
    wBuffMax,   \* a write parks above this buffered amount
    wBuffLow,   \* the threshold given to SetBufferedAmountLowThreshold
    Sizes,      \* bytes one Write may hand to the stream
    MaxWrites   \* bound: calls of Write by each writer

ASSUME ConnAssumption ==
    /\ IsFiniteSet(Writers)
    /\ wBuffMax \in Nat /\ wBuffLow \in Nat /\ wBuffLow <= wBuffMax
    /\ Sizes \subseteq Nat \ {0}
    /\ MaxWrites \in Nat

VARIABLES
    pc,           \* where each writer is inside Write
    calls,        \* calls of Write made so far by each writer
    buffered,     \* BufferedAmount of the SCTP stream
    wBuffWaiter,  \* the counter of parked writers
    cb,           \* where the OnBufferedAmountLow callback is
    closed,       \* the data channel has been closed, by either end
    missed        \* history: a crossing happened between w's test and its increment

vars == <<pc, calls, buffered, wBuffWaiter, cb, closed, missed>>

WriterPC   == {"idle", "test", "add", "recv", "write"}
CallbackPC == {"idle", "load", "send", "dec"}

Init ==
    /\ pc = [w \in Writers |-> "idle"]
    /\ calls = [w \in Writers |-> 0]
    /\ buffered = 0
    /\ wBuffWaiter = 0
    /\ cb = "idle"
    /\ closed = FALSE
    /\ missed = [w \in Writers |-> FALSE]

Goto(w, from, to) ==
    /\ pc[w] = from
    /\ pc' = [pc EXCEPT ![w] = to]

-----------------------------------------------------------------------------
(* The writer. *)

\* A caller enters Write; exec starts the goroutine and waits for it.
Write(w) ==
    /\ calls[w] < MaxWrites
    /\ Goto(w, "idle", "test")
    /\ calls' = [calls EXCEPT ![w] = @ + 1]
    /\ UNCHANGED <<buffered, wBuffWaiter, cb, closed, missed>>

\* MUTANT: The writer compares with the low mark instead of wBuffMax, one byte off.
TestBufferedAtLow(w) ==
    /\ Goto(w, "test", IF buffered >= wBuffLow THEN "add" ELSE "write")
    /\ missed' = [missed EXCEPT ![w] = FALSE]
    /\ UNCHANGED <<calls, buffered, wBuffWaiter, cb, closed>>

\* BufferedAmount() > wBuffMax: the comparison alone, nothing is registered yet.
TestBuffered(w) ==
    /\ Goto(w, "test", IF buffered > wBuffMax THEN "add" ELSE "write")
    /\ missed' = [missed EXCEPT ![w] = FALSE]
    /\ UNCHANGED <<calls, buffered, wBuffWaiter, cb, closed>>

\* MUTANT: The writer registers only after it has been woken.
AddWaiterUncounted(w) ==
    /\ Goto(w, "add", "recv")
    /\ UNCHANGED <<calls, buffered, wBuffWaiter, cb, closed, missed>>

\* atomic.AddInt32(&wBuffWaiter, 1), after which the writer receives.
AddWaiter(w) ==
    /\ Goto(w, "add", "recv")
    /\ wBuffWaiter' = wBuffWaiter + 1
    /\ UNCHANGED <<calls, buffered, cb, closed, missed>>

\* DataChannel.Write queues the bytes, or fails on a closed channel; Write returns.
WriteStream(w) ==
    /\ Goto(w, "write", "idle")
    /\ \/ /\ closed
          /\ UNCHANGED buffered
       \/ /\ ~closed
          /\ \E n \in Sizes : buffered' = buffered + n
    /\ UNCHANGED <<calls, wBuffWaiter, cb, closed, missed>>

-----------------------------------------------------------------------------
(* The OnBufferedAmountLow callback, on the association's read loop. *)

\* MUTANT: The loop test is inverted at one: a single waiter is left behind.
LoadWaiterOffByOne ==
    /\ cb = "load"
    /\ cb' = IF wBuffWaiter <= 1 THEN "idle" ELSE "send"
    /\ UNCHANGED <<pc, calls, buffered, wBuffWaiter, closed, missed>>

\* The loop test: leave when no waiter is counted.
LoadWaiter ==
    /\ cb = "load"
    /\ cb' = IF wBuffWaiter = 0 THEN "idle" ELSE "send"
    /\ UNCHANGED <<pc, calls, buffered, wBuffWaiter, closed, missed>>

\* MUTANT: The woken writer decrements the counter as well.
WakeDecrements(w) ==
    /\ cb = "send"
    /\ Goto(w, "recv", "write")
    /\ cb' = "dec"
    /\ wBuffWaiter' = wBuffWaiter - 1
    /\ UNCHANGED <<calls, buffered, closed, missed>>

\* The rendezvous on the unbuffered wBuffWaiterChan: one parked writer goes on
\* to write, and it does not look at the buffered amount again.
Wake(w) ==
    /\ cb = "send"
    /\ Goto(w, "recv", "write")
    /\ cb' = "dec"
    /\ UNCHANGED <<calls, buffered, wBuffWaiter, closed, missed>>

\* MUTANT: The decrement after the send is forgotten.
DecWaiterForgotten ==
    /\ cb = "dec"
    /\ cb' = "load"
    /\ UNCHANGED <<pc, calls, buffered, wBuffWaiter, closed, missed>>

\* MUTANT: The callback releases one writer and returns instead of looping.
DecWaiterOnce ==
    /\ cb = "dec"
    /\ wBuffWaiter' = wBuffWaiter - 1
    /\ cb' = "idle"
    /\ UNCHANGED <<pc, calls, buffered, closed, missed>>

\* atomic.AddInt32(&wBuffWaiter, -1), after the send.
DecWaiter ==
    /\ cb = "dec"
    /\ wBuffWaiter' = wBuffWaiter - 1
    /\ cb' = "load"
    /\ UNCHANGED <<pc, calls, buffered, closed, missed>>

-----------------------------------------------------------------------------
(* The SCTP stream: external, as the registration of the callback uses it. *)

Crosses(from, to) == from > wBuffLow /\ to <= wBuffLow

\* An acknowledgement releases n bytes.  The read loop that processes it runs
\* the callback to its end before it handles another one.
Ack ==
    /\ cb = "idle"
    /\ \E n \in 1..buffered :
         /\ buffered' = buffered - n
         /\ IF Crosses(buffered, buffered - n)
            THEN /\ cb' = "load"
                 /\ missed' = [w \in Writers |-> missed[w] \/ pc[w] = "add"]
            ELSE UNCHANGED <<cb, missed>>
    /\ UNCHANGED <<pc, calls, wBuffWaiter, closed>>

\* The tunnel closes the connection, or the remote peer does.
Close ==
    /\ ~closed
    /\ closed' = TRUE
    /\ UNCHANGED <<pc, calls, buffered, wBuffWaiter, cb, missed>>

-----------------------------------------------------------------------------
WriterStep(w) == TestBuffered(w) \/ AddWaiter(w) \/ WriteStream(w)

CallbackStep == LoadWaiter \/ DecWaiter \/ \E w \in Writers : Wake(w)

Next ==
    \/ \E w \in Writers : Write(w) \/ WriterStep(w)
    \/ CallbackStep
    \/ Ack
    \/ Close

\* The Go scheduler runs every runnable goroutine, and while the channel is
\* open the peer acknowledges what it receives.
Fairness ==
    /\ \A w \in Writers : WF_vars(WriterStep(w))
    /\ WF_vars(CallbackStep)
    /\ WF_vars(~closed /\ Ack)

Spec == Init /\ [][Next]_vars /\ Fairness

-----------------------------------------------------------------------------
(* Properties. *)

\* Every variable stays within its domain; the int32 counter of parked writers
\* is never negative.
TypeOK ==
    /\ pc \in [Writers -> WriterPC]
    /\ calls \in [Writers -> 0..MaxWrites]
    /\ buffered \in Nat
    /\ wBuffWaiter \in Nat
    /\ cb \in CallbackPC
    /\ closed \in BOOLEAN
    /\ missed \in [Writers -> BOOLEAN]

Parked == {w \in Writers : pc[w] = "recv"}

\* The counter equals the number of goroutines blocked on wBuffWaiterChan,
\* plus the one just released whose decrement is still to come.
WaiterAccounting ==
    wBuffWaiter = Cardinality(Parked) + (IF cb = "dec" THEN 1 ELSE 0)

\* The callback sends on the unbuffered channel only while some writer is
\* there to receive: otherwise the read loop of the whole SCTP association,
\* and every tunnel of the peer connection with it, would block for ever.
ReadLoopNeverStuck == cb = "send" => Parked # {}

\* The callback returns only when it has released every parked writer.
CallbackLeavesNoWaiter ==
    [][cb = "load" /\ cb' = "idle" => Parked = {}]_vars

\* A writer that is parked although the buffer is already low and no callback
\* is running was overtaken in one place only: the buffer crossed wBuffLow
\* between its test (line 114) and its increment (line 115).
LostWakeupOnlyInWindow ==
    \A w \in Writers :
        pc[w] = "recv" /\ buffered <= wBuffLow /\ cb = "idle" => missed[w]

\* A writer that registered before the crossing is released, unless the
\* channel is closed first.
RegisteredWriterWakes ==
    \A w \in Writers :
        (pc[w] = "recv" /\ ~missed[w]) ~> (pc[w] # "recv" \/ closed)

\* The callback gives the read loop back to the association once the writers,
\* each with finitely many calls to make, stop coming: one that parks again
\* while the callback loops is released by it again, at any buffered amount.
ReadLoopReleased == (cb # "idle") ~> (cb = "idle")

\* Every Write returns while the channel is open: traffic handed to the
\* connection is forwarded.
EveryWriteReturns ==
    \A w \in Writers : (pc[w] # "idle") ~> (pc[w] = "idle" \/ closed)
================================================================================

------------------------- MODULE DataChannelConn_proofs -------------------------
(***************************************************************************)
(* Proofs about DataChannelConn, for any finite set of writers, any marks  *)
(* wBuffLow <= wBuffMax, any write sizes and any number of calls.          *)
(***************************************************************************)
EXTENDS DataChannelConn, FiniteSetTheorems, TLAPS

\* The callback decides to send only while a waiter is counted.
SendIsCounted == cb = "send" => wBuffWaiter > 0

\* A writer about to register has seen a full buffer, and the buffer has not
\* become low since, unless the history variable recorded the crossing.
WindowRecorded ==
    \A w \in Writers : pc[w] = "add" /\ ~missed[w] => buffered > wBuffLow

\* A writer that registered before the crossing still has it ahead, or the
\* callback it started is still running.
ParkedHasWakeup ==
    \A w \in Writers :
        pc[w] = "recv" /\ ~missed[w] => buffered > wBuffLow \/ cb # "idle"

\* The inductive invariant.
IInv ==
    /\ TypeOK
    /\ WaiterAccounting
    /\ SendIsCounted
    /\ WindowRecorded
    /\ ParkedHasWakeup

-----------------------------------------------------------------------------
(* What one change of a program counter does to the set of parked writers. *)

\* The parked writers are finitely many, and one is there iff they are counted.
LEMMA ParkedFinite ==
    /\ IsFiniteSet(Parked)
    /\ Cardinality(Parked) \in Nat
    /\ Cardinality(Parked) = 0 <=> Parked = {}
<1>1. Parked \subseteq Writers
  BY DEF Parked
<1>2. IsFiniteSet(Parked)
  BY <1>1, FS_Subset, ConnAssumption
<1>3. QED
  BY <1>2, FS_CardinalityType, FS_EmptySet

\* A step that leaves every program counter alone, or moves one between two
\* places outside the receive, changes no parked writer.
LEMMA ParkedSame ==
    ASSUME pc \in [Writers -> WriterPC],
           NEW w \in Writers, NEW to \in WriterPC,
           pc[w] # "recv", to # "recv",
           pc' = [pc EXCEPT ![w] = to]
    PROVE  Parked' = Parked
  BY DEF Parked

\* Registering parks one more writer.
LEMMA ParkedGrows ==
    ASSUME pc \in [Writers -> WriterPC], NEW w \in Writers, pc[w] # "recv",
           pc' = [pc EXCEPT ![w] = "recv"]
    PROVE  Cardinality(Parked') = Cardinality(Parked) + 1
<1>1. Parked' = Parked \cup {w}
  BY DEF Parked
<1>2. w \notin Parked
  BY DEF Parked
<1>3. QED
  BY <1>1, <1>2, ParkedFinite, FS_AddElement

\* A rendezvous releases one parked writer.
LEMMA ParkedShrinks ==
    ASSUME pc \in [Writers -> WriterPC], NEW w \in Writers, pc[w] = "recv",
           NEW to \in WriterPC, to # "recv",
           pc' = [pc EXCEPT ![w] = to]
    PROVE  Cardinality(Parked') = Cardinality(Parked) - 1
<1>1. Parked' = Parked \ {w}
  BY DEF Parked
<1>2. w \in Parked
  BY DEF Parked
<1>3. QED
  BY <1>1, <1>2, ParkedFinite, FS_RemoveElement

-----------------------------------------------------------------------------
(* The invariant holds initially and is preserved by every action. *)

\* Nobody is parked and nothing is buffered at the start.
LEMMA InitIInv == Init => IInv
<1> SUFFICES ASSUME Init PROVE IInv
  OBVIOUS
<1>1. TypeOK
  <2>1. calls \in [Writers -> 0..MaxWrites]
    BY ConnAssumption DEF Init
  <2>2. missed \in [Writers -> BOOLEAN] /\ closed \in BOOLEAN
    BY Zenon DEF Init
  <2>3. QED
    BY <2>1, <2>2 DEF Init, TypeOK, WriterPC, CallbackPC
<1>2. Parked = {}
  BY DEF Init, Parked
<1>3. WaiterAccounting
  BY <1>2, FS_EmptySet DEF Init, WaiterAccounting
<1>4. SendIsCounted /\ WindowRecorded /\ ParkedHasWakeup
  BY DEF Init, SendIsCounted, WindowRecorded, ParkedHasWakeup
<1>5. QED
  BY <1>1, <1>3, <1>4 DEF IInv

\* Every line of Write and of the callback, and every acknowledgement,
\* preserves the invariant.
LEMMA NextIInv == IInv /\ [Next]_vars => IInv'
<1> SUFFICES ASSUME IInv, [Next]_vars PROVE IInv'
  OBVIOUS
<1> USE ConnAssumption DEF WriterPC, CallbackPC
<1>1. ASSUME NEW w \in Writers, Write(w) PROVE IInv'
  <2>1. TypeOK'
    BY <1>1 DEF IInv, TypeOK, Write, Goto
  <2>2. Parked' = Parked
    BY <1>1, ParkedSame DEF IInv, TypeOK, Write, Goto
  <2>3. QED
    BY <1>1, <2>1, <2>2
    DEF IInv, TypeOK, Write, Goto, WaiterAccounting, SendIsCounted,
        WindowRecorded, ParkedHasWakeup
<1>2. ASSUME NEW w \in Writers, TestBuffered(w) PROVE IInv'
  <2>1. TypeOK'
    BY <1>2 DEF IInv, TypeOK, TestBuffered, Goto
  <2>2. Parked' = Parked
    BY <1>2, ParkedSame DEF IInv, TypeOK, TestBuffered, Goto
  <2>3. WindowRecorded'
    \* The test saw more than wBuffMax >= wBuffLow.
    BY <1>2 DEF IInv, TypeOK, TestBuffered, Goto, WindowRecorded
  <2>4. ParkedHasWakeup'
    BY <1>2 DEF IInv, TypeOK, TestBuffered, Goto, ParkedHasWakeup
  <2>5. QED
    BY <1>2, <2>1, <2>2, <2>3, <2>4
    DEF IInv, TestBuffered, WaiterAccounting, SendIsCounted
<1>3. ASSUME NEW w \in Writers, AddWaiter(w) PROVE IInv'
  <2>1. TypeOK'
    BY <1>3 DEF IInv, TypeOK, AddWaiter, Goto
  <2>2. Cardinality(Parked') = Cardinality(Parked) + 1
    BY <1>3, ParkedGrows DEF IInv, TypeOK, AddWaiter, Goto
  <2>3. WaiterAccounting'
    BY <1>3, <2>2, ParkedFinite DEF IInv, AddWaiter, WaiterAccounting
  <2>4. SendIsCounted'
    BY <1>3 DEF IInv, TypeOK, AddWaiter, SendIsCounted
  <2>5. WindowRecorded' /\ ParkedHasWakeup'
    BY <1>3 DEF IInv, TypeOK, AddWaiter, Goto, WindowRecorded, ParkedHasWakeup
  <2>6. QED
    BY <2>1, <2>3, <2>4, <2>5 DEF IInv
<1>4. ASSUME NEW w \in Writers, WriteStream(w) PROVE IInv'
  <2>1. TypeOK'
    BY <1>4 DEF IInv, TypeOK, WriteStream, Goto
  <2>2. Parked' = Parked
    BY <1>4, ParkedSame DEF IInv, TypeOK, WriteStream, Goto
  <2>3. buffered' >= buffered
    BY <1>4 DEF IInv, TypeOK, WriteStream
  <2>4. WindowRecorded' /\ ParkedHasWakeup'
    BY <1>4, <2>1, <2>3
    DEF IInv, TypeOK, WriteStream, Goto, WindowRecorded, ParkedHasWakeup
  <2>5. QED
    BY <1>4, <2>1, <2>2, <2>4
    DEF IInv, WriteStream, WaiterAccounting, SendIsCounted
<1>5. ASSUME LoadWaiter PROVE IInv'
  <2>1. TypeOK' /\ Parked' = Parked
    BY <1>5 DEF IInv, TypeOK, LoadWaiter, Parked
  <2>2. WaiterAccounting' /\ SendIsCounted' /\ WindowRecorded'
    BY <1>5, <2>1
    DEF IInv, TypeOK, LoadWaiter, WaiterAccounting, SendIsCounted, WindowRecorded
  <2>3. ParkedHasWakeup'
    \* The callback returns only when nobody is parked.
    <3>1. CASE wBuffWaiter = 0
      <4>1. Parked = {}
        BY <1>5, <3>1, ParkedFinite DEF IInv, WaiterAccounting, LoadWaiter
      <4>2. QED
        BY <1>5, <4>1, <2>1 DEF ParkedHasWakeup, Parked
    <3>2. CASE wBuffWaiter # 0
      BY <1>5, <3>2 DEF LoadWaiter, ParkedHasWakeup
    <3>3. QED
      BY <3>1, <3>2
  <2>4. QED
    BY <2>1, <2>2, <2>3 DEF IInv
<1>6. ASSUME DecWaiter PROVE IInv'
  <2>1. Parked' = Parked
    BY <1>6 DEF DecWaiter, Parked
  <2>2. wBuffWaiter' = Cardinality(Parked)
    BY <1>6, ParkedFinite DEF IInv, DecWaiter, WaiterAccounting
  <2>3. TypeOK'
    BY <1>6, <2>2, ParkedFinite DEF IInv, TypeOK, DecWaiter
  <2>4. WaiterAccounting'
    BY <1>6, <2>1, <2>2, ParkedFinite DEF DecWaiter, WaiterAccounting
  <2>5. SendIsCounted' /\ WindowRecorded' /\ ParkedHasWakeup'
    BY <1>6 DEF IInv, DecWaiter, SendIsCounted, WindowRecorded, ParkedHasWakeup
  <2>6. QED
    BY <2>3, <2>4, <2>5 DEF IInv
<1>7. ASSUME NEW w \in Writers, Wake(w) PROVE IInv'
  <2>1. TypeOK'
    BY <1>7 DEF IInv, TypeOK, Wake, Goto
  <2>2. Cardinality(Parked') = Cardinality(Parked) - 1
    BY <1>7, ParkedShrinks DEF IInv, TypeOK, Wake, Goto
  <2>3. WaiterAccounting'
    BY <1>7, <2>2, ParkedFinite DEF IInv, Wake, WaiterAccounting
  <2>4. SendIsCounted' /\ WindowRecorded' /\ ParkedHasWakeup'
    BY <1>7
    DEF IInv, TypeOK, Wake, Goto, SendIsCounted, WindowRecorded, ParkedHasWakeup
  <2>5. QED
    BY <2>1, <2>3, <2>4 DEF IInv
<1>8. ASSUME Ack PROVE IInv'
  <2>1. PICK n \in 1..buffered :
          /\ buffered' = buffered - n
          /\ IF Crosses(buffered, buffered - n)
             THEN /\ cb' = "load"
                  /\ missed' = [w \in Writers |-> missed[w] \/ pc[w] = "add"]
             ELSE UNCHANGED <<cb, missed>>
    BY <1>8 DEF Ack
  <2>2. /\ pc' = pc /\ calls' = calls /\ wBuffWaiter' = wBuffWaiter
        /\ closed' = closed /\ cb = "idle" /\ Parked' = Parked
    BY <1>8 DEF Ack, Parked
  <2>3. buffered' \in Nat
    BY <2>1 DEF IInv, TypeOK
  <2>4. CASE Crosses(buffered, buffered - n)
    <3>1. cb' = "load" /\ missed' = [w \in Writers |-> missed[w] \/ pc[w] = "add"]
      BY <2>1, <2>4
    <3>2. missed' \in [Writers -> BOOLEAN]
      BY <3>1 DEF IInv, TypeOK
    <3>3. \A w \in Writers : pc[w] = "add" => missed'[w]
      BY <3>1
    <3>4. TypeOK'
      BY <2>2, <2>3, <3>1, <3>2 DEF IInv, TypeOK
    <3>5. WaiterAccounting' /\ SendIsCounted'
      BY <2>2, <3>1 DEF IInv, WaiterAccounting, SendIsCounted
    <3>6. WindowRecorded' /\ ParkedHasWakeup'
      BY <2>2, <3>1, <3>3 DEF WindowRecorded, ParkedHasWakeup
    <3>7. QED
      BY <3>4, <3>5, <3>6 DEF IInv
  <2>5. CASE ~ Crosses(buffered, buffered - n)
    <3>1. cb' = cb /\ missed' = missed
      BY <2>1, <2>5
    <3>2. buffered > wBuffLow => buffered' > wBuffLow
      BY <2>1, <2>5 DEF IInv, TypeOK, Crosses
    <3>3. QED
      BY <2>2, <2>3, <3>1, <3>2
      DEF IInv, TypeOK, WaiterAccounting, SendIsCounted, WindowRecorded,
          ParkedHasWakeup
  <2>6. QED
    BY <2>4, <2>5
<1>9. ASSUME Close PROVE IInv'
  <2>1. Parked' = Parked
    BY <1>9 DEF Close, Parked
  <2>2. QED
    BY <1>9, <2>1
    DEF IInv, TypeOK, Close, WaiterAccounting, SendIsCounted, WindowRecorded,
        ParkedHasWakeup
<1>10. ASSUME UNCHANGED vars PROVE IInv'
  <2>1. Parked' = Parked
    BY <1>10 DEF vars, Parked
  <2>2. QED
    BY <1>10, <2>1
    DEF IInv, TypeOK, vars, WaiterAccounting, SendIsCounted, WindowRecorded,
        ParkedHasWakeup
<1>11. QED
  BY <1>1, <1>2, <1>3, <1>4, <1>5, <1>6, <1>7, <1>8, <1>9, <1>10
  DEF Next, WriterStep, CallbackStep

\* The inductive invariant holds in every reachable state.
THEOREM Inductive == Spec => []IInv
  BY InitIInv, NextIInv, PTL DEF Spec

-----------------------------------------------------------------------------
(* The results. *)

\* Every variable stays within its domain, the waiter counter included: the
\* decrements of the callback never take it below zero.
THEOREM TypeCorrect == Spec => []TypeOK
<1>1. IInv => TypeOK
  BY DEF IInv
<1>2. QED
  BY <1>1, Inductive, PTL

\* The counter tells how many goroutines the callback still has to release.
THEOREM Accounting == Spec => []WaiterAccounting
<1>1. IInv => WaiterAccounting
  BY DEF IInv
<1>2. QED
  BY <1>1, Inductive, PTL

\* The association's read loop never blocks on a send nobody will receive.
THEOREM NeverStuck == Spec => []ReadLoopNeverStuck
<1>1. IInv => ReadLoopNeverStuck
  BY ParkedFinite DEF IInv, WaiterAccounting, SendIsCounted, ReadLoopNeverStuck
<1>2. QED
  BY <1>1, Inductive, PTL

\* A wakeup is lost only when the crossing falls between test and increment.
THEOREM OnlyInWindow == Spec => []LostWakeupOnlyInWindow
<1>1. IInv => LostWakeupOnlyInWindow
  BY ConnAssumption DEF IInv, TypeOK, ParkedHasWakeup, LostWakeupOnlyInWindow
<1>2. QED
  BY <1>1, Inductive, PTL

\* The callback returns only when it has released every parked writer.
THEOREM NoWaiterLeft == Spec => CallbackLeavesNoWaiter
<1>1. IInv /\ [Next]_vars => [cb = "load" /\ cb' = "idle" => Parked = {}]_vars
  <2> SUFFICES ASSUME IInv, Next, cb = "load", cb' = "idle" PROVE Parked = {}
    OBVIOUS
  <2>1. LoadWaiter
    BY DEF Next, WriterStep, CallbackStep, Write, TestBuffered, AddWaiter,
           WriteStream, LoadWaiter, DecWaiter, Wake, Ack, Close
  <2>2. wBuffWaiter = 0
    BY <2>1 DEF LoadWaiter
  <2>3. QED
    BY <2>2, ParkedFinite DEF IInv, WaiterAccounting
<1>2. QED
  BY <1>1, Inductive, PTL DEF Spec, CallbackLeavesNoWaiter
================================================================================

----------------------------- MODULE SignalProofs -----------------------------
(***************************************************************************)
(* Proofs about Signal, for any finite sets of raisers and waiters, any    *)
(* timeouts and with or without interruptions.                             *)
(***************************************************************************)
EXTENDS Signal, FiniteSetTheorems, TLAPS

Writing == {r \in Raisers : pc[r] = "write"}
InWait  == {w \in Waiters : pc[w] \in Inside}

\* The inductive invariant: waiting stays a natural number only because it
\* counts the waiters, and pipe because a read takes what a write left.
SignalInv == TypeOK /\ PipeBounded /\ WaitingCounts

LEMMA FiniteThreads ==
  /\ IsFiniteSet(Writing) /\ Cardinality(Writing) \in Nat
  /\ IsFiniteSet(InWait) /\ Cardinality(InWait) \in Nat
  /\ Cardinality(Raisers) \in Nat
  /\ Cardinality(Writing) <= Cardinality(Raisers)
<1>1. Writing \in SUBSET Raisers /\ InWait \in SUBSET Waiters
  BY DEF Writing, InWait
<1>2. QED
  BY <1>1, SignalAssumption, FS_Subset, FS_CardinalityType

LEMMA InitInv == Init => SignalInv
<1> SUFFICES ASSUME Init PROVE SignalInv
  OBVIOUS
<1>1. TypeOK
  BY SignalAssumption DEF Init, TypeOK, Threads, Inside
<1>2. Writing = {} /\ InWait = {}
  BY SignalAssumption DEF Init, Writing, InWait, Threads, Inside
<1>3. PipeBounded /\ WaitingCounts
  BY <1>2, FS_EmptySet, FiniteThreads DEF Init, PipeBounded, WaitingCounts, Writing, InWait
<1>4. QED
  BY <1>1, <1>3 DEF SignalInv

LEMMA NextInv == SignalInv /\ [Next]_vars => SignalInv'
<1> SUFFICES ASSUME SignalInv, [Next]_vars PROVE SignalInv'
  OBVIOUS
<1> USE SignalAssumption DEF SignalInv, At
<1>f. FiniteThreads!:
  BY FiniteThreads
<1>0. ASSUME NEW r \in Raisers, RaiseCheck(r)  PROVE SignalInv'
  <2>1. TypeOK'
    BY <1>0 DEF RaiseCheck, TypeOK, Goto, Threads, Inside
  <2>2. InWait' = InWait
    BY <1>0 DEF RaiseCheck, TypeOK, Goto, Threads, InWait
  <2>3. PipeBounded'
    <3>1. Writing' \in SUBSET Raisers
      BY DEF Writing
    <3>2. Cardinality(Writing') <= Cardinality(Raisers) /\ Cardinality(Writing') \in Nat
      BY <3>1, FS_Subset, FS_CardinalityType
    <3>3. pipe' = 0
      BY <1>0 DEF RaiseCheck, signal_is_raised, Pollable, TypeOK
    <3>4. QED
      BY <3>2, <3>3 DEF PipeBounded, Writing
  <2>4. WaitingCounts'
    BY <1>0, <2>2 DEF WaitingCounts, InWait, RaiseCheck
  <2>5. QED
    BY <2>1, <2>3, <2>4
<1>1. ASSUME NEW r \in Raisers, RaiseWrite(r)  PROVE SignalInv'
  <2>0. killed' \in BOOLEAN
    BY <1>1 DEF RaiseWrite
  <2>1. TypeOK'
    BY <1>1, <2>0 DEF RaiseWrite, TypeOK, Goto, Threads, Inside
  <2>2. InWait' = InWait
    BY <1>1 DEF RaiseWrite, TypeOK, Goto, Threads, InWait
  <2>3. Writing' = Writing \ {r} /\ r \in Writing
    BY <1>1 DEF RaiseWrite, TypeOK, Goto, Threads, Writing
  <2>4. Cardinality(Writing') = Cardinality(Writing) - 1
    BY <1>f, <2>3, FS_RemoveElement
  <2>5. PipeBounded'
    BY <1>1, <1>f, <2>4 DEF PipeBounded, Writing, RaiseWrite, TypeOK
  <2>6. WaitingCounts'
    BY <1>1, <2>2 DEF WaitingCounts, InWait, RaiseWrite
  <2>7. QED
    BY <2>1, <2>5, <2>6
<1>2. ASSUME NEW w \in Waiters, WaitEnter(w)  PROVE SignalInv'
  <2>1. TypeOK'
    BY <1>2 DEF WaitEnter, TypeOK, Goto, Threads, Inside
  <2>2. Writing' = Writing
    BY <1>2 DEF WaitEnter, TypeOK, Goto, Threads, Writing
  <2>3. InWait' = InWait \cup {w} /\ w \notin InWait
    BY <1>2 DEF WaitEnter, TypeOK, Goto, Threads, InWait, Inside
  <2>4. Cardinality(InWait') = Cardinality(InWait) + 1
    BY <1>f, <2>3, FS_AddElement
  <2>5. QED
    BY <1>2, <1>f, <2>1, <2>2, <2>4 DEF PipeBounded, WaitingCounts, Writing, InWait, WaitEnter
<1>3. ASSUME NEW w \in Waiters, WaitRead(w)  PROVE SignalInv'
  <2>1. TypeOK'
    BY <1>3 DEF WaitRead, TypeOK, Goto, Threads, Inside
  <2>2. Writing' = Writing /\ InWait' = InWait
    BY <1>3 DEF WaitRead, TypeOK, Goto, Threads, Writing, InWait, Inside
  <2>3. pipe' <= pipe /\ waiting' = waiting
    BY <1>3 DEF WaitRead, TypeOK
  <2>4. PipeBounded'
    <3>1. pipe + Cardinality(Writing) <= Cardinality(Raisers) /\ pipe \in Nat /\ pipe' \in Nat
      BY <2>1 DEF PipeBounded, Writing, TypeOK
    <3>2. pipe' + Cardinality(Writing') <= Cardinality(Raisers)
      BY <1>f, <2>2, <2>3, <3>1
    <3>3. QED
      BY <3>2 DEF PipeBounded, Writing
  <2>5. WaitingCounts'
    BY <2>2, <2>3 DEF WaitingCounts, InWait
  <2>6. QED
    BY <2>1, <2>4, <2>5
<1>4. ASSUME NEW w \in Waiters, PollReady(w) \/ PollFails(w)  PROVE SignalInv'
  <2>1. TypeOK'
    BY <1>4 DEF PollReady, PollFails, TypeOK, Goto, Threads, Inside
  <2>2. Writing' = Writing /\ InWait' = InWait
    BY <1>4 DEF PollReady, PollFails, TypeOK, Goto, Threads, Writing, InWait, Inside
  <2>3. QED
    BY <1>4, <2>1, <2>2 DEF PipeBounded, WaitingCounts, Writing, InWait, PollReady, PollFails
<1>5. ASSUME NEW w \in Waiters, WaitDec(w)  PROVE SignalInv'
  <2>1. Writing' = Writing
    BY <1>5 DEF WaitDec, TypeOK, Goto, Threads, Writing
  <2>2. InWait' = InWait \ {w} /\ w \in InWait
    BY <1>5 DEF WaitDec, TypeOK, Goto, Threads, InWait, Inside
  <2>3. /\ Cardinality(InWait') = Cardinality(InWait) - 1
        /\ Cardinality(InWait') \in Nat
    BY <1>f, <2>2, FS_RemoveElement, FS_CardinalityType
  <2>4. WaitingCounts' /\ waiting' \in Nat
    BY <1>5, <2>3 DEF WaitingCounts, InWait, WaitDec
  <2>5. TypeOK'
    BY <1>5, <2>4 DEF WaitDec, TypeOK, Goto, Threads, Inside
  <2>6. QED
    BY <1>5, <2>1, <2>4, <2>5 DEF PipeBounded, Writing, WaitDec
<1>6. ASSUME NEW t \in Waiters \cup Clearers, ClearRead(t)  PROVE SignalInv'
  <2>1. TypeOK'
    BY <1>6 DEF ClearRead, AfterClear, TypeOK, Goto, Threads, Inside
  <2>2. Writing' = Writing /\ InWait' = InWait
    BY <1>6 DEF ClearRead, AfterClear, TypeOK, Goto, Threads, Writing, InWait, Inside
  <2>3. pipe' <= pipe /\ waiting' = waiting
    BY <1>6 DEF ClearRead, TypeOK
  <2>4. PipeBounded'
    <3>1. pipe + Cardinality(Writing) <= Cardinality(Raisers) /\ pipe \in Nat /\ pipe' \in Nat
      BY <2>1 DEF PipeBounded, Writing, TypeOK
    <3>2. pipe' + Cardinality(Writing') <= Cardinality(Raisers)
      BY <1>f, <2>2, <2>3, <3>1
    <3>3. QED
      BY <3>2 DEF PipeBounded, Writing
  <2>5. WaitingCounts'
    BY <2>2, <2>3 DEF WaitingCounts, InWait
  <2>6. QED
    BY <2>1, <2>4, <2>5
<1>7. ASSUME NEW c \in Clearers, ClearEnter(c)  PROVE SignalInv'
  <2>1. TypeOK'
    BY <1>7 DEF ClearEnter, TypeOK, Goto, Threads, Inside
  <2>2. Writing' = Writing /\ InWait' = InWait
    BY <1>7 DEF ClearEnter, TypeOK, Goto, Threads, Writing, InWait
  <2>3. QED
    BY <1>7, <2>1, <2>2 DEF PipeBounded, WaitingCounts, Writing, InWait, ClearEnter
<1>8. ASSUME CloseRead \/ CloseWrite  PROVE SignalInv'
  <2>1. TypeOK'
    BY <1>8 DEF CloseRead, CloseWrite, TypeOK
  <2>2. Writing' = Writing /\ InWait' = InWait
    BY <1>8 DEF CloseRead, CloseWrite, Writing, InWait
  <2>3. pipe' <= pipe /\ waiting' = waiting
    BY <1>8 DEF CloseRead, CloseWrite, TypeOK
  <2>4. PipeBounded'
    <3>1. pipe + Cardinality(Writing) <= Cardinality(Raisers) /\ pipe \in Nat /\ pipe' \in Nat
      BY <2>1 DEF PipeBounded, Writing, TypeOK
    <3>2. pipe' + Cardinality(Writing') <= Cardinality(Raisers)
      BY <1>f, <2>2, <2>3, <3>1
    <3>3. QED
      BY <3>2 DEF PipeBounded, Writing
  <2>5. WaitingCounts'
    BY <2>2, <2>3 DEF WaitingCounts, InWait
  <2>6. QED
    BY <2>1, <2>4, <2>5
<1>9. CASE UNCHANGED vars
  BY <1>9 DEF vars, TypeOK, PipeBounded, WaitingCounts
<1>10. QED
  BY <1>0, <1>1, <1>2, <1>3, <1>4, <1>5, <1>6, <1>7, <1>8, <1>9 DEF Next, Raise, Wait

\* Type correctness of every reachable state of signal.c.
THEOREM SignalTypeCorrect == Spec => []TypeOK
BY InitInv, NextInv, PTL DEF Spec, SignalInv

\* However many raisers race between is_raised and write, the pipe never holds
\* more integers than there are raisers: write() in signal_raise_val never
\* blocks on a full pipe when there are fewer raisers than the pipe has room.
THEOREM SignalPipeBounded == Spec => []PipeBounded
BY InitInv, NextInv, PTL DEF Spec, SignalInv

\* signal_num_waiting counts the threads inside signal_wait_val.
THEOREM SignalWaitingCounts == Spec => []WaitingCounts
BY InitInv, NextInv, PTL DEF Spec, SignalInv
-------------------------------------------------------------------------------
(***************************************************************************)
(* The refinement: signal.c implements the wake-up event, whatever becomes *)
(* of the waits.  A waiter in its final clear has either been told (it has *)
(* read an integer, which is still owed) or given up.                      *)
(***************************************************************************)

Open == 0 \in fds
Owed == IF Open THEN pipe + Cardinality(Told) ELSE 0
Busy == {t \in Threads : pc[t] \in {"write", "read", "poll", "clear"}}

LEMMA FiniteTold == IsFiniteSet(Told) /\ Cardinality(Told) \in Nat
<1>1. Told \in SUBSET Waiters
  BY DEF Told
<1>2. QED
  BY <1>1, SignalAssumption, FS_Subset, FS_CardinalityType

\* What a waiter that joins Told adds to it, and one that leaves takes away.
LEMMA ToldCounts ==
  ASSUME NEW w
  PROVE  /\ w \notin Told /\ Told' = Told \cup {w} => Cardinality(Told') = Cardinality(Told) + 1
         /\ w \in Told /\ Told' = Told \ {w} =>
              Cardinality(Told') = Cardinality(Told) - 1 /\ Cardinality(Told) >= 1
<1>1. CASE w \notin Told /\ Told' = Told \cup {w}
  BY <1>1, FiniteTold, FS_AddElement
<1>2. ASSUME w \in Told, Told' = Told \ {w}
      PROVE  Cardinality(Told') = Cardinality(Told) - 1 /\ Cardinality(Told) >= 1
  <2>1. Cardinality(Told \ {w}) = Cardinality(Told) - 1
    BY <1>2, FiniteTold, FS_RemoveElement
  <2>2. Cardinality(Told) # 0
    BY <1>2, FiniteTold, FS_EmptySet
  <2>3. QED
    BY <1>2, <2>1, <2>2, FiniteTold
<1>3. QED
  BY <1>1, <1>2

\* Every step of signal.c is a step of the event, or changes nothing of it.
LEMMA StepRefines ==
  ASSUME TypeOK, [Next]_vars
  PROVE  [Event!Next]_(Event!evars)
<1> USE SignalAssumption DEF TypeOK, Goto, At, Threads, Open
<1> DEFINE Stutter == /\ Open' = Open /\ Owed' = Owed /\ Busy' = Busy
                      /\ GivenUp' = GivenUp /\ Returning' = Returning
<1>s. Stutter => [Event!Next]_(Event!evars)
  BY DEF Event!evars, Owed, Busy, Threads
<1>e. ASSUME NEW t \in Threads, t \notin Busy, Busy' = Busy \cup {t},
             Open' = Open, Owed' = Owed, GivenUp' = GivenUp,
             t \notin Returning, Returning' = Returning
      PROVE  Event!Next
  BY <1>e DEF Event!Next, Event!Enter, Event!Threads, Owed, Busy, Threads
<1>g. ASSUME NEW w \in Waiters, w \in Busy, w \notin GivenUp, GivenUp' = GivenUp \cup {w},
             Busy' = Busy, Open' = Open, Owed' = Owed, Returning' = Returning
      PROVE  Event!Next
  BY <1>g DEF Event!Next, Event!GiveUp, Owed, Busy, Threads
<1>1. ASSUME NEW r \in Raisers, RaiseCheck(r)  PROVE [Event!Next]_(Event!evars)
  <2>1. r \notin Busy /\ Busy' = Busy \cup {r}
    BY <1>1 DEF RaiseCheck, Busy
  <2>2. /\ Told' = Told /\ GivenUp' = GivenUp /\ Open' = Open /\ pipe' = pipe
        /\ r \notin Returning /\ Returning' = Returning
    BY <1>1 DEF RaiseCheck, Told, GivenUp, Returning
  <2>3. QED
    BY <1>e, <2>1, <2>2 DEF Owed
<1>2. ASSUME NEW r \in Raisers, RaiseWrite(r)  PROVE [Event!Next]_(Event!evars)
  <2>1. r \in Busy /\ Busy' = Busy \ {r}
    BY <1>2 DEF RaiseWrite, Busy
  <2>2. /\ Told' = Told /\ GivenUp' = GivenUp /\ Returning' = Returning /\ Open' = Open
        /\ pipe' = IF Open THEN pipe + 1 ELSE pipe
    BY <1>2 DEF RaiseWrite, Told, GivenUp, Returning
  <2>3. Owed' = IF Open THEN Owed + 1 ELSE Owed
    BY <2>2, FiniteTold DEF Owed
  <2>4. Event!Raise(r)
    BY <2>1, <2>2, <2>3 DEF Event!Raise, Owed, Busy
  <2>5. QED
    BY <2>4 DEF Event!Next
<1>3. ASSUME NEW w \in Waiters, WaitEnter(w)  PROVE [Event!Next]_(Event!evars)
  <2>1. w \notin Busy /\ Busy' = Busy \cup {w}
    BY <1>3 DEF WaitEnter, Busy
  <2>2. /\ Told' = Told /\ GivenUp' = GivenUp /\ Open' = Open /\ pipe' = pipe
        /\ w \notin Returning /\ Returning' = Returning
    BY <1>3 DEF WaitEnter, Told, GivenUp, Returning
  <2>3. QED
    BY <1>e, <2>1, <2>2 DEF Owed
\* The integer that a waiter reads is owed by the waiter from then on.
<1>4. ASSUME NEW w \in Waiters, WaitRead(w)  PROVE [Event!Next]_(Event!evars)
  <2>1. /\ Busy' = Busy /\ Open' = Open /\ w \in Busy /\ w \notin GivenUp
        /\ Returning' = Returning
    BY <1>4 DEF WaitRead, Busy, GivenUp, Returning
  <2>2. CASE Open /\ pipe > 0
    <3>1. w \notin Told /\ Told' = Told \cup {w} /\ pipe' = pipe - 1 /\ GivenUp' = GivenUp
      BY <1>4, <2>2 DEF WaitRead, Told, GivenUp
    <3>2. Cardinality(Told') = Cardinality(Told) + 1
      BY <3>1, ToldCounts
    <3>3. Owed' = Owed
      BY <2>1, <2>2, <3>1, <3>2, FiniteTold DEF Owed
    <3>4. QED
      BY <1>s, <2>1, <3>1, <3>3
  <2>3. CASE Open /\ ~(pipe > 0)
    <3>1. Told' = Told /\ pipe' = pipe /\ GivenUp' = GivenUp
      BY <1>4, <2>3 DEF WaitRead, Told, GivenUp
    <3>2. QED
      BY <1>s, <2>1, <3>1 DEF Owed
  <2>4. CASE ~Open /\ ret[w] = 1
    <3>1. GivenUp' = GivenUp
      BY <1>4, <2>4 DEF WaitRead, GivenUp
    <3>2. QED
      BY <1>s, <2>1, <2>4, <3>1 DEF Owed
  <2>5. CASE ~Open /\ ret[w] # 1
    <3>1. GivenUp' = GivenUp \cup {w}
      BY <1>4, <2>5 DEF WaitRead, GivenUp
    <3>2. QED
      BY <1>g, <2>1, <2>5, <3>1 DEF Owed
  <2>6. QED
    BY <2>2, <2>3, <2>4, <2>5
<1>5. ASSUME NEW w \in Waiters, PollReady(w)  PROVE [Event!Next]_(Event!evars)
  <2>1. /\ Told' = Told /\ GivenUp' = GivenUp /\ Returning' = Returning
        /\ Open' = Open /\ pipe' = pipe /\ Busy' = Busy
    BY <1>5 DEF PollReady, Busy, Told, GivenUp, Returning
  <2>2. QED
    BY <1>s, <2>1 DEF Owed
<1>5a. ASSUME NEW w \in Waiters, PollFails(w)  PROVE [Event!Next]_(Event!evars)
  <2>1. /\ w \in Busy /\ Busy' = Busy /\ Open' = Open /\ pipe' = pipe
        /\ w \notin GivenUp /\ GivenUp' = GivenUp \cup {w} /\ Told' = Told
        /\ Returning' = Returning
    BY <1>5a DEF PollFails, Busy, GivenUp, Told, Returning
  <2>2. QED
    BY <1>g, <2>1 DEF Owed
\* A wait that has returned 1 is over; of any other the event knows no more.
<1>5b. ASSUME NEW w \in Waiters, WaitDec(w)  PROVE [Event!Next]_(Event!evars)
  <2>1. /\ Told' = Told /\ GivenUp' = GivenUp /\ Returning' = Returning \ {w}
        /\ Open' = Open /\ pipe' = pipe /\ Busy' = Busy
    BY <1>5b DEF WaitDec, Busy, Told, GivenUp, Returning
  <2>2. Owed' = Owed
    BY <2>1 DEF Owed
  <2>3. CASE w \in Returning
    <3>1. Event!Return(w)
      BY <2>1, <2>2, <2>3 DEF Event!Return, Owed, Busy
    <3>2. QED
      BY <3>1 DEF Event!Next
  <2>4. CASE w \notin Returning
    BY <1>s, <2>1, <2>2, <2>4
  <2>5. QED
    BY <2>3, <2>4
<1>6. ASSUME NEW w \in Waiters, ClearRead(w)  PROVE [Event!Next]_(Event!evars)
  <2>1. w \in Busy /\ Open' = Open
    BY <1>6 DEF ClearRead, Busy
  <2>2. CASE Open /\ pipe > 0
    <3>1. /\ Busy' = Busy /\ Told' = Told /\ GivenUp' = GivenUp /\ pipe' = pipe - 1
          /\ Returning' = Returning
      BY <1>6, <2>2 DEF ClearRead, Busy, Told, GivenUp, Returning
    <3>2. CASE w \in Told
      <4>1. Cardinality(Told) # 0
        BY <3>2, FiniteTold, FS_EmptySet
      <4>2. Owed > 1 /\ Owed' = Owed - 1
        BY <2>1, <2>2, <3>1, <4>1, FiniteTold DEF Owed
      <4>3. w \notin GivenUp
        BY <3>2 DEF Told, GivenUp
      <4>4. Event!Coalesce(w)
        BY <2>1, <3>1, <4>2, <4>3 DEF Event!Coalesce, Owed, Busy
      <4>5. QED
        BY <4>4 DEF Event!Next
    <3>3. CASE w \notin Told
      <4>1. w \in GivenUp
        BY <1>6, <3>3 DEF ClearRead, Told, GivenUp
      <4>2. Owed > 0 /\ Owed' = Owed - 1
        BY <2>1, <2>2, <3>1, FiniteTold DEF Owed
      <4>3. Event!Withdraw(w)
        BY <2>1, <3>1, <4>2 DEF Event!Withdraw, Owed, Busy
      <4>4. QED
        BY <4>1, <4>3 DEF Event!Next
    <3>4. QED
      BY <3>2, <3>3
  <2>3. CASE Open /\ ~(pipe > 0) /\ w \in Told
    <3>1. /\ Busy' = Busy \ {w} /\ Told' = Told \ {w} /\ pipe' = pipe
          /\ w \notin GivenUp /\ GivenUp' = GivenUp /\ Returning' = Returning \cup {w}
      BY <1>6, <2>3 DEF ClearRead, AfterClear, Busy, Told, GivenUp, Returning
    <3>2. Cardinality(Told') = Cardinality(Told) - 1 /\ Cardinality(Told) >= 1
      BY <2>3, <3>1, ToldCounts
    <3>3. Owed > 0 /\ Owed' = Owed - 1
      BY <2>1, <2>3, <3>1, <3>2, FiniteTold DEF Owed
    <3>4. Event!Wake(w)
      BY <2>1, <3>1, <3>3 DEF Event!Wake, Owed, Busy
    <3>5. QED
      BY <3>4 DEF Event!Next
  <2>4. CASE Open /\ ~(pipe > 0) /\ w \notin Told
    <3>1. /\ Busy' = Busy \ {w} /\ Told' = Told /\ pipe' = pipe
          /\ w \in GivenUp /\ GivenUp' = GivenUp \ {w} /\ Returning' = Returning
      BY <1>6, <2>4 DEF ClearRead, AfterClear, Busy, Told, GivenUp, Returning
    <3>2. Owed' = Owed
      BY <2>1, <3>1 DEF Owed
    <3>3. Event!Leave(w)
      BY <2>1, <3>1, <3>2 DEF Event!Leave, Owed, Busy
    <3>4. QED
      BY <3>3 DEF Event!Next
  <2>5. CASE ~Open
    <3>1. /\ Busy' = Busy \ {w} /\ Owed' = Owed /\ GivenUp' = GivenUp \ {w}
          /\ Returning' \in {Returning, Returning \cup {w}}
      <4>1. Busy' = Busy \ {w} /\ Owed' = Owed /\ GivenUp' = GivenUp \ {w}
        BY <1>6, <2>1, <2>5 DEF ClearRead, AfterClear, Busy, Owed, GivenUp
      <4>2. CASE ret[w] = 1
        <5>1. Returning' = Returning \cup {w}
          BY <1>6, <2>5, <4>2 DEF ClearRead, AfterClear, Returning
        <5>2. QED
          BY <4>1, <5>1
      <4>3. CASE ret[w] # 1
        <5>1. Returning' = Returning
          BY <1>6, <2>5, <4>3 DEF ClearRead, AfterClear, Returning
        <5>2. QED
          BY <4>1, <5>1
      <4>4. QED
        BY <4>2, <4>3
    <3>2. Event!Release(w)
      BY <2>1, <2>5, <3>1 DEF Event!Release, Owed, Busy
    <3>3. QED
      BY <3>2 DEF Event!Next
  <2>6. QED
    BY <2>2, <2>3, <2>4, <2>5
<1>7. ASSUME NEW c \in Clearers, ClearRead(c)  PROVE [Event!Next]_(Event!evars)
  <2>1. /\ c \in Busy /\ Open' = Open /\ Told' = Told /\ GivenUp' = GivenUp
        /\ Returning' = Returning
    BY <1>7 DEF ClearRead, AfterClear, Busy, Told, GivenUp, Returning
  <2>2. CASE Open /\ pipe > 0
    <3>1. Busy' = Busy /\ pipe' = pipe - 1
      BY <1>7, <2>2 DEF ClearRead, Busy
    <3>2. Owed > 0 /\ Owed' = Owed - 1
      BY <2>1, <2>2, <3>1, FiniteTold DEF Owed
    <3>3. Event!Withdraw(c)
      BY <2>1, <3>1, <3>2 DEF Event!Withdraw, Owed, Busy
    <3>4. QED
      BY <3>3 DEF Event!Next
  <2>3. CASE ~(Open /\ pipe > 0)
    <3>1. Busy' = Busy \ {c} /\ pipe' = pipe
      BY <1>7, <2>3 DEF ClearRead, AfterClear, Busy
    <3>2. Event!Cleared(c)
      BY <2>1, <3>1 DEF Event!Cleared, Owed, Busy
    <3>3. QED
      BY <3>2 DEF Event!Next
  <2>4. QED
    BY <2>2, <2>3
<1>8. ASSUME NEW c \in Clearers, ClearEnter(c)  PROVE [Event!Next]_(Event!evars)
  <2>1. c \notin Busy /\ Busy' = Busy \cup {c}
    BY <1>8 DEF ClearEnter, Busy
  <2>2. /\ Told' = Told /\ GivenUp' = GivenUp /\ Open' = Open /\ pipe' = pipe
        /\ c \notin Returning /\ Returning' = Returning
    BY <1>8 DEF ClearEnter, Told, GivenUp, Returning
  <2>3. QED
    BY <1>e, <2>1, <2>2 DEF Owed
\* The event is destroyed when the read end is closed.
<1>9. CASE CloseRead
  <2>1. /\ Open /\ Open' = FALSE
        /\ Busy' = Busy /\ GivenUp' = GivenUp /\ Returning' = Returning
    BY <1>9 DEF CloseRead, Busy, GivenUp, Returning
  <2>2. Owed' = 0
    BY <2>1 DEF Owed
  <2>3. Event!Destroy
    BY <2>1, <2>2 DEF Event!Destroy, Owed, Busy
  <2>4. QED
    BY <2>3 DEF Event!Next
<1>9a. CASE CloseWrite
  <2>1. /\ ~Open /\ Open' = Open
        /\ Busy' = Busy /\ GivenUp' = GivenUp /\ Returning' = Returning
    BY <1>9a DEF CloseWrite, Busy, GivenUp, Returning
  <2>2. QED
    BY <1>s, <2>1 DEF Owed
<1>10. CASE UNCHANGED vars
  <2>1. Stutter
    BY <1>10 DEF vars, Owed, Busy, Told, GivenUp, Returning
  <2>2. QED
    BY <1>s, <2>1
<1>11. QED
  BY <1>1, <1>2, <1>3, <1>4, <1>5, <1>5a, <1>5b, <1>6, <1>7, <1>8, <1>9, <1>9a, <1>10
     DEF Next, Raise, Wait

\* signal.c implements the wake-up event, whatever the threads, their
\* time-outs and the interruptions: until signal_destroy begins no more waits
\* return 1 than raises have completed.  From then on the event promises nothing
\* of what a wait returns, and signal_wait_val may return 1 without a raise.
THEOREM SignalImplementsEvent == Spec => ImplementsEvent
<1>1. ASSUME Init PROVE Event!Init
  <2>1. Told = {} /\ GivenUp = {} /\ Returning = {}
    BY <1>1, SignalAssumption DEF Init, Told, GivenUp, Returning, Threads
  <2>2. QED
    BY <1>1, <2>1, SignalAssumption, FS_EmptySet DEF Init, Event!Init, Threads
<1>2. SignalInv => TypeOK
  BY DEF SignalInv
<1>3. QED
  BY <1>1, <1>2, InitInv, NextInv, StepRefines, PTL
     DEF Spec, ImplementsEvent, Event!EventSpec
===============================================================================

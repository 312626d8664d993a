------------------------- MODULE StatusBoardProofs -------------------------
(***************************************************************************)
(* For any number of threads and entries: the type invariant of            *)
(* StatusBoard, and that no change is lost between two threads.            *)
(*                                                                         *)
(* NothingUnshown speaks of a moment when nobody is inside updateStatuses. *)
(* To be inductive it must say what holds meanwhile: unless a display is   *)
(* still to be made (a flag is raised, or a thread has cleared the flags   *)
(* and waits for the mutex), whatever the holder of the mutex has read so  *)
(* far is still so, and without a holder the display is right.             *)
(***************************************************************************)
EXTENDS StatusBoard, TLAPS

Inside == {"look", "text", "publish"}

\* A display that starts from the first entry is still to be made.
Pending ==
  \/ \E e \in Entries : updated[e]
  \/ \E t \in Threads : pc[t] = "lock"

\* componentStatusMutex is held by the thread that is past it.
Owner == \A t \in Threads : pc[t] \in Inside <=> componentStatusMutex = t

AllClearBefore(t) == \A e \in Entries : e < at[t] => message[e] = NoText

Looked(t) == pc[t] = "look" => Pending \/ AllClearBefore(t)

Found(t) ==
  pc[t] = "text" => Pending \/ (AllClearBefore(t) /\ message[at[t]] # NoText)

Read(t) == pc[t] = "publish" => Pending \/ Shows(<<at[t], text[t]>>, message)

Settled == componentStatusMutex = NoThread => Pending \/ Shows(shown, message)

Scan == \A t \in Threads : Looked(t) /\ Found(t) /\ Read(t)

\* A thread that reads a text reads that of an entry.
IndexOK == \A t \in Threads : pc[t] = "text" => at[t] \in Entries

Typed == TypeOK /\ IndexOK

IInv == Typed /\ Owner /\ Scan /\ Settled

\* The step of every thread, one disjunct per operation.
LEMMA NextCases ==
  ASSUME Next
  PROVE  \E t \in Threads :
           \/ \E e \in Entries, m \in Texts \cup {NoText} : Change(t, e, m)
           \/ IsUpdated(t) \/ Lock(t) \/ Look(t) \/ ReadText(t) \/ Publish(t)
BY DEF Next, Step

LEMMA InitTyped == Init => Typed
BY BoardAssumption
DEF Init, Typed, TypeOK, IndexOK, Entries, NothingShown, Displays

LEMMA NextTyped == Typed /\ [Next]_vars => Typed'
<1> SUFFICES ASSUME Typed, [Next]_vars PROVE Typed'
  OBVIOUS
<1> USE BoardAssumption DEF Typed, TypeOK, IndexOK, Entries
<1>1. CASE UNCHANGED vars
  BY <1>1 DEF vars, entryVars
<1>2. CASE Next
  <2>1. PICK t \in Threads :
           \/ \E e \in Entries, m \in Texts \cup {NoText} : Change(t, e, m)
           \/ IsUpdated(t) \/ Lock(t) \/ Look(t) \/ ReadText(t) \/ Publish(t)
    BY <1>2, NextCases
  <2>2. ASSUME NEW e \in Entries, NEW m \in Texts \cup {NoText}, Change(t, e, m)
        PROVE  Typed'
    BY <2>2 DEF Change
  <2>3. CASE IsUpdated(t)
    BY <2>3 DEF IsUpdated, Goto, entryVars
  <2>4. CASE Lock(t)
    BY <2>4 DEF Lock, Goto, entryVars
  <2>5. CASE Look(t)
    <3>1. /\ message' = message /\ updated' = updated /\ changes' = changes
          /\ componentStatusMutex' = componentStatusMutex
          /\ due' = due /\ shown' = shown
      BY <2>5 DEF Look, entryVars
    <3>2. CASE at[t] <= N /\ message[at[t]] = NoText /\ Goto(t, "look", "look")
               /\ at' = [at EXCEPT ![t] = @ + 1] /\ UNCHANGED text
      BY <3>1, <3>2 DEF Goto
    <3>3. CASE at[t] <= N /\ Goto(t, "look", "text") /\ UNCHANGED <<at, text>>
      BY <3>1, <3>3 DEF Goto
    <3>4. CASE /\ Goto(t, "look", "publish")
               /\ text' = [text EXCEPT ![t] = NoText] /\ UNCHANGED at
      BY <3>1, <3>4 DEF Goto
    <3> QED BY <2>5, <3>2, <3>3, <3>4 DEF Look
  <2>6. CASE ReadText(t)
    <3>1. message[at[t]] \in Texts \cup {NoText}
      BY <2>6 DEF ReadText, Goto
    <3> QED BY <2>6, <3>1 DEF ReadText, Goto, entryVars
  <2>7. CASE Publish(t)
    <3>1. <<at[t], text[t]>> \in (0..N + 1) \X (Texts \cup {NoText})
      OBVIOUS
    <3> QED BY <2>7, <3>1 DEF Publish, Goto, entryVars, Displays
  <2> QED BY <2>1, <2>2, <2>3, <2>4, <2>5, <2>6, <2>7
<1> QED BY <1>1, <1>2

-----------------------------------------------------------------------------
LEMMA InitInvariant == Init => IInv
<1> SUFFICES ASSUME Init PROVE IInv
  OBVIOUS
<1>1. Typed
  BY InitTyped
<1>2. Owner
  BY BoardAssumption DEF Owner, Inside, Init
<1>3. Scan
  BY DEF Scan, Looked, Found, Read, Init
<1>4. Settled
  BY BoardAssumption DEF Settled, Pending, Init, Entries
<1> QED BY <1>1, <1>2, <1>3, <1>4 DEF IInv

\* A change that is one raises a flag; one that is none leaves the entries.
LEMMA ChangeIsPending ==
  ASSUME Typed, NEW t \in Threads, NEW e \in Entries,
         NEW m \in Texts \cup {NoText}, Change(t, e, m)
  PROVE  Pending' \/ (message' = message /\ updated' = updated)
BY DEF Typed, TypeOK, Change, Pending

\* Flags that isUpdated clears leave the thread waiting for the mutex.
LEMMA ClearingIsPending ==
  ASSUME Typed, NEW t \in Threads, IsUpdated(t)
  PROVE  Pending => Pending'
<1>1. CASE \E e \in Entries : updated[e]
  <2>1. pc'[t] = "lock"
    BY <1>1 DEF IsUpdated, Goto, Typed, TypeOK
  <2> QED BY <2>1 DEF Pending
<1>2. CASE \A e \in Entries : ~updated[e]
  <2>1. \A u \in Threads : pc[u] = "lock" => pc'[u] = "lock"
    BY <1>2 DEF IsUpdated, Goto, Typed, TypeOK
  <2> QED BY <1>2, <2>1 DEF Pending
<1> QED BY <1>1, <1>2

LEMMA NextOwner == Typed /\ Owner /\ [Next]_vars => Owner'
<1> SUFFICES ASSUME Typed, Owner, [Next]_vars, NEW u \in Threads
             PROVE  (pc[u] \in Inside <=> componentStatusMutex = u)'
  BY DEF Owner
<1> USE BoardAssumption DEF Typed, TypeOK, Owner, Inside, Goto
<1>1. CASE UNCHANGED vars
  BY <1>1 DEF vars
<1>2. CASE Next
  <2>1. PICK t \in Threads :
           \/ \E e \in Entries, m \in Texts \cup {NoText} : Change(t, e, m)
           \/ IsUpdated(t) \/ Lock(t) \/ Look(t) \/ ReadText(t) \/ Publish(t)
    BY <1>2, NextCases
  <2>2. CASE \E e \in Entries, m \in Texts \cup {NoText} : Change(t, e, m)
    BY <2>2 DEF Change
  <2>3. CASE IsUpdated(t)
    BY <2>3 DEF IsUpdated
  <2>4. CASE Lock(t)
    BY <2>4 DEF Lock
  <2>5. CASE Look(t)
    BY <2>5 DEF Look
  <2>6. CASE ReadText(t)
    BY <2>6 DEF ReadText
  <2>7. CASE Publish(t)
    BY <2>7 DEF Publish
  <2> QED BY <2>1, <2>2, <2>3, <2>4, <2>5, <2>6, <2>7
<1> QED BY <1>1, <1>2

\* Steps that leave the entries, the flags and the waiting threads alone.
LEMMA PendingStays ==
  ASSUME Typed, NEW t \in Threads, Look(t) \/ ReadText(t) \/ Publish(t)
  PROVE  /\ message' = message
         /\ Pending => Pending'
<1>1. message' = message /\ updated' = updated
  BY DEF Look, ReadText, Publish, entryVars
<1>2. \A u \in Threads : pc[u] = "lock" => pc'[u] = "lock"
  BY DEF Look, ReadText, Publish, Goto, Typed, TypeOK
<1> QED BY <1>1, <1>2 DEF Pending

\* What another thread has read stays read while this one moves.
LEMMA OthersKeep ==
  ASSUME NEW u \in Threads, Looked(u) /\ Found(u) /\ Read(u),
         message' = message, Pending => Pending',
         pc'[u] = pc[u], at'[u] = at[u], text'[u] = text[u]
  PROVE  (Looked(u) /\ Found(u) /\ Read(u))'
BY DEF Looked, Found, Read, AllClearBefore, Shows

LEMMA NextScan == IInv /\ [Next]_vars => Scan'
<1> SUFFICES ASSUME IInv, [Next]_vars, NEW u \in Threads
             PROVE  (Looked(u) /\ Found(u) /\ Read(u))'
  BY DEF Scan
<1>0. /\ Looked(u) /\ Found(u) /\ Read(u)
      /\ Typed
  BY DEF IInv, Scan
<1>1. CASE UNCHANGED vars
  <2>1. message' = message /\ updated' = updated /\ pc' = pc
        /\ at' = at /\ text' = text
    BY <1>1 DEF vars, entryVars
  <2>2. Pending => Pending'
    BY <2>1 DEF Pending
  <2> QED BY <1>0, <2>1, <2>2, OthersKeep
<1>2. CASE Next
  <2>1. PICK t \in Threads :
           \/ \E e \in Entries, m \in Texts \cup {NoText} : Change(t, e, m)
           \/ IsUpdated(t) \/ Lock(t) \/ Look(t) \/ ReadText(t) \/ Publish(t)
    BY <1>2, NextCases
  <2>2. ASSUME NEW e \in Entries, NEW m \in Texts \cup {NoText}, Change(t, e, m)
        PROVE  (Looked(u) /\ Found(u) /\ Read(u))'
    <3>1. pc' = pc /\ at' = at /\ text' = text
      BY <2>2 DEF Change
    <3>2. CASE Pending'
      BY <3>2 DEF Looked, Found, Read
    <3>3. CASE message' = message /\ updated' = updated
      <4>1. Pending => Pending'
        BY <3>1, <3>3 DEF Pending
      <4> QED BY <1>0, <3>1, <3>3, <4>1, OthersKeep
    <3> QED BY <1>0, <2>2, <3>2, <3>3, ChangeIsPending
  <2>3. CASE IsUpdated(t)
    <3>1. message' = message /\ at' = at /\ text' = text
      BY <2>3 DEF IsUpdated
    <3>2. Pending => Pending'
      BY <1>0, <2>3, ClearingIsPending
    <3>3. CASE pc'[u] = pc[u]
      BY <1>0, <3>1, <3>2, <3>3, OthersKeep
    <3>4. CASE pc'[u] # pc[u]
      <4>1. pc'[u] \in {"run", "lock"}
        BY <1>0, <2>3, <3>4 DEF IsUpdated, Goto, Typed, TypeOK
      <4> QED BY <4>1 DEF Looked, Found, Read
    <3> QED BY <3>3, <3>4
  <2>4. CASE Lock(t)
    <3>1. CASE u = t
      <4>1. pc'[u] = "look" /\ at'[u] = 1
        BY <1>0, <2>4, <3>1 DEF Lock, Goto, Typed, TypeOK
      <4>2. AllClearBefore(u)'
        BY <4>1, BoardAssumption DEF AllClearBefore, Entries
      <4> QED BY <4>1, <4>2 DEF Looked, Found, Read
    <3>2. CASE u # t
      <4>1. pc'[u] \notin Inside
        BY <1>0, <2>4, <3>2, BoardAssumption
        DEF Lock, Goto, IInv, Owner, Typed, TypeOK
      <4> QED BY <4>1 DEF Looked, Found, Read, Inside
    <3> QED BY <3>1, <3>2
  <2>5. CASE Look(t)
    <3>1. message' = message /\ (Pending => Pending')
      BY <1>0, <2>5, PendingStays
    <3>2. CASE u # t
      <4>1. pc'[u] = pc[u] /\ at'[u] = at[u] /\ text'[u] = text[u]
        BY <1>0, <2>5, <3>2 DEF Look, Goto, Typed, TypeOK
      <4> QED BY <1>0, <3>1, <4>1, OthersKeep
    <3>3. CASE u = t
      <4>1. pc[u] = "look" /\ at[u] \in 1..N + 1
        BY <1>0, <2>5, <3>3 DEF Look, Goto, Typed, TypeOK
      <4>2. Pending \/ AllClearBefore(u)
        BY <1>0, <4>1 DEF Looked
      <4>3. CASE /\ message[at[u]] = NoText
                 /\ pc'[u] = "look" /\ at'[u] = at[u] + 1
        <5>1. AllClearBefore(u) => AllClearBefore(u)'
          BY <3>1, <4>1, <4>3, BoardAssumption DEF AllClearBefore, Entries
        <5> QED BY <3>1, <4>2, <4>3, <5>1 DEF Looked, Found, Read
      <4>4. CASE message[at[u]] # NoText /\ pc'[u] = "text" /\ at'[u] = at[u]
        BY <3>1, <4>2, <4>4 DEF Looked, Found, Read, AllClearBefore
      <4>5. CASE /\ at[u] = N + 1 /\ pc'[u] = "publish"
                 /\ at'[u] = at[u] /\ text'[u] = NoText
        <5>1. AllClearBefore(u) => Shows(<<at'[u], text'[u]>>, message')
          BY <3>1, <4>1, <4>5, BoardAssumption
          DEF AllClearBefore, Shows, Entries
        <5> QED BY <3>1, <4>2, <4>5, <5>1 DEF Looked, Found, Read
      <4> QED BY <1>0, <2>5, <3>3, <4>3, <4>4, <4>5
              DEF Look, Goto, Typed, TypeOK
    <3> QED BY <3>2, <3>3
  <2>6. CASE ReadText(t)
    <3>1. message' = message /\ (Pending => Pending')
      BY <1>0, <2>6, PendingStays
    <3>2. CASE u # t
      <4>1. pc'[u] = pc[u] /\ at'[u] = at[u] /\ text'[u] = text[u]
        BY <1>0, <2>6, <3>2 DEF ReadText, Goto, Typed, TypeOK
      <4> QED BY <1>0, <3>1, <4>1, OthersKeep
    <3>3. CASE u = t
      <4>1. /\ pc[u] = "text" /\ pc'[u] = "publish"
            /\ at'[u] = at[u] /\ text'[u] = message[at[u]]
            /\ at[u] \in 1..N
        BY <1>0, <2>6, <3>3 DEF ReadText, Goto, Typed, TypeOK, IndexOK, Entries
      <4>2. AllClearBefore(u) /\ message[at[u]] # NoText
              => Shows(<<at'[u], text'[u]>>, message')
        BY <3>1, <4>1, BoardAssumption DEF AllClearBefore, Shows, Entries
      <4> QED BY <1>0, <3>1, <4>1, <4>2 DEF Looked, Found, Read
    <3> QED BY <3>2, <3>3
  <2>7. CASE Publish(t)
    <3>1. message' = message /\ (Pending => Pending')
      BY <1>0, <2>7, PendingStays
    <3>2. CASE u # t
      <4>1. pc'[u] = pc[u] /\ at'[u] = at[u] /\ text'[u] = text[u]
        BY <1>0, <2>7, <3>2 DEF Publish, Goto, Typed, TypeOK
      <4> QED BY <1>0, <3>1, <4>1, OthersKeep
    <3>3. CASE u = t
      <4>1. pc'[u] = "run"
        BY <1>0, <2>7, <3>3 DEF Publish, Goto, Typed, TypeOK
      <4> QED BY <4>1 DEF Looked, Found, Read
    <3> QED BY <3>2, <3>3
  <2> QED BY <2>1, <2>2, <2>3, <2>4, <2>5, <2>6, <2>7
<1> QED BY <1>1, <1>2

LEMMA NextSettled == IInv /\ [Next]_vars => Settled'
<1> SUFFICES ASSUME IInv, [Next]_vars, componentStatusMutex' = NoThread
             PROVE  (Pending \/ Shows(shown, message))'
  BY DEF Settled
<1>0. Typed /\ Settled
  BY DEF IInv
<1>1. CASE UNCHANGED vars
  BY <1>0, <1>1 DEF vars, entryVars, Settled, Pending, Shows
<1>2. CASE Next
  <2>1. PICK t \in Threads :
           \/ \E e \in Entries, m \in Texts \cup {NoText} : Change(t, e, m)
           \/ IsUpdated(t) \/ Lock(t) \/ Look(t) \/ ReadText(t) \/ Publish(t)
    BY <1>2, NextCases
  <2>2. ASSUME NEW e \in Entries, NEW m \in Texts \cup {NoText}, Change(t, e, m)
        PROVE  (Pending \/ Shows(shown, message))'
    <3>1. pc' = pc /\ shown' = shown
          /\ componentStatusMutex' = componentStatusMutex
      BY <2>2 DEF Change
    <3>2. CASE message' = message /\ updated' = updated
      BY <1>0, <3>1, <3>2 DEF Settled, Pending, Shows
    <3> QED BY <1>0, <2>2, <3>2, ChangeIsPending
  <2>3. CASE IsUpdated(t)
    <3>1. message' = message /\ shown' = shown
          /\ componentStatusMutex' = componentStatusMutex
      BY <2>3 DEF IsUpdated
    <3> QED BY <1>0, <2>3, <3>1, ClearingIsPending DEF Settled, Shows
  <2>4. CASE Lock(t)
    BY <2>4, BoardAssumption DEF Lock
  <2>5. CASE Look(t) \/ ReadText(t)
    <3>1. shown' = shown /\ componentStatusMutex' = componentStatusMutex
      BY <2>5 DEF Look, ReadText
    <3> QED BY <1>0, <2>5, <3>1, PendingStays DEF Settled, Shows
  <2>6. CASE Publish(t)
    <3>1. pc[t] = "publish" /\ shown' = <<at[t], text[t]>>
      BY <2>6 DEF Publish, Goto
    <3>2. Pending \/ Shows(<<at[t], text[t]>>, message)
      BY <3>1 DEF IInv, Scan, Read
    <3>3. message' = message /\ (Pending => Pending')
      BY <1>0, <2>6, PendingStays
    <3>4. Shows(<<at[t], text[t]>>, message) => Shows(shown', message')
      BY <3>1, <3>3 DEF Shows
    <3> QED BY <3>2, <3>3, <3>4
  <2> QED BY <2>1, <2>2, <2>3, <2>4, <2>5, <2>6
<1> QED BY <1>1, <1>2

-----------------------------------------------------------------------------
\* The inductive invariant holds in every behaviour.
THEOREM Invariance == Spec => []IInv
<1>1. Init => IInv
  BY InitInvariant
<1>2. IInv /\ [Next]_vars => IInv'
  BY NextTyped, NextOwner, NextScan, NextSettled DEF IInv
<1> QED BY <1>1, <1>2, PTL DEF Spec

\* Every variable of the status display has its type.
THEOREM TypeCorrect == Spec => []TypeOK
<1>1. IInv => TypeOK
  BY DEF IInv, Typed
<1> QED BY <1>1, Invariance, PTL

\* No change of a status entry is lost between the threads that display
\* them: when updateStatuses has nothing left to do, its display is right.
THEOREM NothingLost == Spec => []NothingUnshown
<1>1. IInv => NothingUnshown
  <2> SUFFICES ASSUME IInv, \A e \in Entries : ~updated[e],
                      \A t \in Threads : pc[t] = "run"
               PROVE  Shows(shown, message)
    BY DEF NothingUnshown
  <2>1. componentStatusMutex = NoThread
    BY DEF IInv, Owner, Inside, Typed, TypeOK
  <2>2. ~Pending
    BY DEF Pending
  <2> QED BY <2>1, <2>2 DEF IInv, Settled
<1> QED BY <1>1, Invariance, PTL

=============================================================================

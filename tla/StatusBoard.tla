---------------------------- MODULE StatusBoard ----------------------------
(***************************************************************************)
(* StatusContainer and updateStatuses: how the subscriber's threads turn a *)
(* handful of status entries into the one component status a user sees.    *)
(* Each operation of the container is atomic (its mutex), a whole          *)
(* updateStatuses is not: it asks isUpdated, which clears the flags; then  *)
(* takes componentStatusMutex; then reads the entries one by one, first    *)
(* whether an entry is set, and in a second call its text; then publishes. *)
(***************************************************************************)
EXTENDS Integers

CONSTANTS
  Threads,    \* the threads that change entries and call updateStatuses
  NoThread,   \* holder of a free componentStatusMutex
  N,          \* number of entries; 1..N is the order of the display
  Texts,      \* the texts entries are set to (none is empty)
  NoText,     \* the empty text
  Writes,     \* the entries each thread changes
  MaxChanges  \* bound: how many changes a behaviour makes

Entries == 1..N

ASSUME BoardAssumption ==
  /\ NoThread \notin Threads
  /\ N \in Nat \ {0}
  /\ NoText \notin Texts
  /\ Writes \in [Threads -> SUBSET Entries]
  /\ MaxChanges \in Nat

VARIABLES
  message,              \* the text of each entry; NoText: it is not present
  updated,              \* the flag of each entry: changed since isUpdated
  componentStatusMutex, \* the thread that holds it
  pc,                   \* where each thread is in updateStatuses
  at,                   \* the entry its chain of ifs has come to
  text,                 \* the text it has read
  due,                  \* the thread has to call updateStatuses
  shown,                \* the component status: an entry and a text
  changes               \* how many changes there have been

entryVars == <<message, updated, changes>>
vars == <<entryVars, componentStatusMutex, pc, at, text, due, shown>>

-----------------------------------------------------------------------------
\* Entry N + 1 stands for "no entry is set": "Data has been received".
Displays == (0..N + 1) \X (Texts \cup {NoText})
NothingShown == <<0, NoText>>

\* Display d is what the entries m call for: the first entry that is set.
Shows(d, m) ==
  /\ d[1] \in 1..N + 1
  /\ \A e \in Entries : e < d[1] => m[e] = NoText
  /\ IF d[1] = N + 1 THEN d[2] = NoText
                     ELSE d[2] = m[d[1]] /\ d[2] # NoText

Init ==
  /\ message = [e \in Entries |-> NoText]
  /\ updated = [e \in Entries |-> TRUE]
  /\ componentStatusMutex = NoThread
  /\ pc = [t \in Threads |-> "run"]
  /\ at = [t \in Threads |-> 1]
  /\ text = [t \in Threads |-> NoText]
  /\ due = [t \in Threads |-> TRUE]
  /\ shown = NothingShown
  /\ changes = 0

Goto(t, from, to) == pc[t] = from /\ pc' = [pc EXCEPT ![t] = to]

\* set, or reset when m is NoText. The flag is raised only by a difference.
Change(t, e, m) ==
  /\ pc[t] = "run" /\ e \in Writes[t]
  /\ changes < MaxChanges /\ changes' = changes + 1
  /\ message' = [message EXCEPT ![e] = m]
  /\ updated' = [updated EXCEPT ![e] = @ \/ message[e] # m]
  /\ due' = [due EXCEPT ![t] = TRUE]
  /\ UNCHANGED <<componentStatusMutex, pc, at, text, shown>>

\* Mutant of IsUpdated: it stops at the first flag it finds, and the others
\* are lost.
IsUpdatedFirstOnly(t) ==
  /\ \/ updated[1] /\ Goto(t, "run", "lock")
     \/ ~updated[1] /\ Goto(t, "run", "run")
  /\ updated' = [e \in Entries |-> FALSE]
  /\ due' = [due EXCEPT ![t] = FALSE]
  /\ UNCHANGED <<message, changes, componentStatusMutex, at, text, shown>>

\* updateStatuses begins: isUpdated reads and clears every flag, and nothing
\* more happens when none was raised.
IsUpdated(t) ==
  /\ \/ (\E e \in Entries : updated[e]) /\ Goto(t, "run", "lock")
     \/ (\A e \in Entries : ~updated[e]) /\ Goto(t, "run", "run")
  /\ updated' = [e \in Entries |-> FALSE]
  /\ due' = [due EXCEPT ![t] = FALSE]
  /\ UNCHANGED <<message, changes, componentStatusMutex, at, text, shown>>

\* Mutant of Lock: the chain of ifs begins one entry too early.
LockFromZero(t) ==
  /\ Goto(t, "lock", "look")
  /\ componentStatusMutex = NoThread
  /\ componentStatusMutex' = t
  /\ at' = [at EXCEPT ![t] = 0]
  /\ UNCHANGED <<entryVars, text, due, shown>>

\* Mutant of Lock: the displays of two threads are not serialised.
LockMissing(t) ==
  /\ Goto(t, "lock", "look")
  /\ at' = [at EXCEPT ![t] = 1]
  /\ UNCHANGED <<entryVars, componentStatusMutex, text, due, shown>>

Lock(t) ==
  /\ Goto(t, "lock", "look")
  /\ componentStatusMutex = NoThread
  /\ componentStatusMutex' = t
  /\ at' = [at EXCEPT ![t] = 1]
  /\ UNCHANGED <<entryVars, text, due, shown>>

\* One test of the chain of ifs: ok() of the next entry.
Look(t) ==
  /\ \/ /\ at[t] <= N /\ message[at[t]] = NoText
        /\ Goto(t, "look", "look")
        /\ at' = [at EXCEPT ![t] = @ + 1]
        /\ UNCHANGED text
     \/ /\ at[t] <= N /\ message[at[t]] # NoText
        /\ Goto(t, "look", "text")
        /\ UNCHANGED <<at, text>>
     \/ /\ at[t] = N + 1
        /\ Goto(t, "look", "publish")
        /\ text' = [text EXCEPT ![t] = NoText]
        /\ UNCHANGED at
  /\ UNCHANGED <<entryVars, componentStatusMutex, due, shown>>

\* buildStatusMessage or rawStatusMessage: the text may have changed, or be
\* empty by now, since ok() was asked.
ReadText(t) ==
  /\ Goto(t, "text", "publish")
  /\ text' = [text EXCEPT ![t] = message[at[t]]]
  /\ UNCHANGED <<entryVars, componentStatusMutex, at, due, shown>>

\* setComponentStatusWithMessage, and the end of updateStatuses.
Publish(t) ==
  /\ Goto(t, "publish", "run")
  /\ shown' = <<at[t], text[t]>>
  /\ componentStatusMutex' = NoThread
  /\ UNCHANGED <<entryVars, at, text, due>>

Step(t) == Lock(t) \/ Look(t) \/ ReadText(t) \/ Publish(t)

Next ==
  \E t \in Threads :
    \/ \E e \in Entries, m \in Texts \cup {NoText} : Change(t, e, m)
    \/ IsUpdated(t)
    \/ Step(t)

(***************************************************************************)
(* Fairness: a call of updateStatuses goes on (the mutex is handed out     *)
(* fairly: the other thread frees it again and again), and a thread that   *)
(* has changed an entry calls updateStatuses, as every path that changes   *)
(* one does while the function block lives.                                *)
(***************************************************************************)
Spec ==
  /\ Init /\ [][Next]_vars
  /\ \A t \in Threads :
       WF_vars(due[t] /\ IsUpdated(t)) /\ SF_vars(Step(t))

-----------------------------------------------------------------------------
(* Properties.                                                             *)

\* Every variable has its type.
TypeOK ==
  /\ message \in [Entries -> Texts \cup {NoText}]
  /\ updated \in [Entries -> BOOLEAN]
  /\ componentStatusMutex \in Threads \cup {NoThread}
  /\ pc \in [Threads -> {"run", "lock", "look", "text", "publish"}]
  /\ at \in [Threads -> 1..N + 1]
  /\ text \in [Threads -> Texts \cup {NoText}]
  /\ due \in [Threads -> BOOLEAN]
  /\ shown \in Displays
  /\ changes \in 0..MaxChanges

\* No change is lost between two threads: when no flag is raised and nobody
\* is inside updateStatuses, the component status is the one the entries
\* call for, even though displays are read entry by entry while they change.
NothingUnshown ==
  (\A e \in Entries : ~updated[e]) /\ (\A t \in Threads : pc[t] = "run")
     => Shows(shown, message)

\* A display can be torn (an entry is named whose text was just removed),
\* but only until the change that tore it is displayed in its turn.
ShownInTheEnd == <>[]Shows(shown, message)

=============================================================================

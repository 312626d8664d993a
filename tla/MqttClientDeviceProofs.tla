---------------------- MODULE MqttClientDeviceProofs ----------------------
(***************************************************************************)
(* Theorems of MqttAsyncClient and of MqttClientDevice, for every number   *)
(* of faults and every order of the calls. Of a client: the variables have *)
(* their types, and syncDisconnect's closure is never run, or left behind, *)
(* without its promise. The device uses its client only in ways the client *)
(* allows, so that what is proved of a client holds of that of a device; a *)
(* device that is created shows that it is connected; an error means that  *)
(* it is not.                                                              *)
(***************************************************************************)
EXTENDS MqttClientDevice, SequenceTheorems, TLAPS

-----------------------------------------------------------------------------
(* The client. *)

\* The closure runs only inside a callback, that is with cbMtx held: neither
\* InstallClosure nor ClearClosure can happen meanwhile.
ClosureUnderLock == closureRuns => libPc = "inside"

\* The inductive invariant.
CInv == ClientTypeOK /\ ClosureUnderLock /\ PromiseOutlivesClosure

LEMMA EventSequences ==
  ASSUME NEW s \in Seq(Events)
  PROVE  /\ \A t \in Seq(Events) : s \o t \in Seq(Events)
         /\ s # <<>> => Head(s) \in Events /\ Tail(s) \in Seq(Events)
  BY HeadTailProperties, ConcatProperties

LEMMA CallbackLists ==
  /\ <<>> \in Seq(Events)
  /\ \A e \in Events : <<e>> \in Seq(Events)
  /\ \A e, f \in Events : <<e, f>> \in Seq(Events)
  OBVIOUS

\* The connection's own steps touch the connection and what is due.
LEMMA HappensKeepsInv ==
  ASSUME CInv, NEW from, NEW to \in Links, NEW cbs \in Seq(Events),
         Happens(from, to, cbs), faults' \in 0..MaxFaults
  PROVE  CInv'
  <1>1. events' \in Seq(Events)
    BY EventSequences DEF CInv, ClientTypeOK, Happens
  <1> QED
    BY <1>1 DEF CInv, ClientTypeOK, ClosureUnderLock, PromiseOutlivesClosure,
                PromiseLives, Happens, callbackVars, promiseVars

LEMMA LibraryKeepsInv ==
  ASSUME CInv, Library
  PROVE  CInv'
  <1>1. faults \in 0..MaxFaults
    BY DEF CInv, ClientTypeOK
  <1>2. Fault => faults' \in 0..MaxFaults
    BY <1>1, ClientAssumption DEF Fault
  <1>3. /\ <<"connectSuccess", "connected">> \in Seq(Events)
        /\ <<"connectFailure">> \in Seq(Events)
        /\ <<"connectionLost">> \in Seq(Events)
        /\ <<"connectionLost", "disconnectFailure">> \in Seq(Events)
        /\ <<"connected">> \in Seq(Events)
        /\ <<"disconnectSuccess">> \in Seq(Events)
    BY CallbackLists DEF Events, DisconnectEvents
  <1>4. {"idle", "retry", "up"} \subseteq Links
    BY DEF Links
  <1>5. CASE Accepted
    BY <1>1, <1>3, <1>4, <1>5, HappensKeepsInv DEF Accepted
  <1>6. CASE Refused
    BY <1>2, <1>3, <1>4, <1>6, HappensKeepsInv DEF Refused
  <1>7. CASE Lost
    BY <1>2, <1>3, <1>4, <1>7, HappensKeepsInv DEF Lost
  <1>8. CASE Reconnected
    BY <1>1, <1>3, <1>4, <1>8, HappensKeepsInv DEF Reconnected
  <1>9. CASE Disconnected
    BY <1>1, <1>3, <1>4, <1>9, HappensKeepsInv DEF Disconnected
  <1> QED
    BY <1>5, <1>6, <1>7, <1>8, <1>9 DEF Library

\* The library's thread: a callback looks for the closure with cbMtx held,
\* and the closure is only there while its promise is.
LEMMA CallbackKeepsInv ==
  ASSUME CInv, LibraryCallback
  PROVE  CInv'
  <1> USE DEF CInv, ClientTypeOK, ClosureUnderLock, PromiseOutlivesClosure,
              PromiseLives, libraryVars, callbackVars, promiseVars
  <1>1. CASE BeginCallback
    <2>1. Head(events) \in Events /\ Tail(events) \in Seq(Events)
      BY <1>1, EventSequences DEF BeginCallback
    <2> QED
      BY <1>1, <2>1 DEF BeginCallback
  <1>2. CASE ResetPending
    BY <1>2 DEF ResetPending
  <1>3. CASE LockCallbacks
    BY <1>3 DEF LockCallbacks
  <1>4. CASE EndCallback
    BY <1>4 DEF EndCallback
  <1> QED
    BY <1>1, <1>2, <1>3, <1>4 DEF LibraryCallback

\* The owner's thread: the promise goes only in ClearClosure, which takes
\* the closure away and cannot happen while it runs.
LEMMA OwnerKeepsInv ==
  ASSUME CInv, SyncStep \/ OwnerCall \/ ClientGone
  PROVE  CInv'
  <1> USE DEF CInv, ClientTypeOK, ClosureUnderLock, PromiseOutlivesClosure,
              PromiseLives, libraryVars, callbackVars, promiseVars, UserGoto,
              SyncPcs, Links
  <1>0. <<>> \in Seq(Events)
    BY CallbackLists
  <1>1. CASE InstallClosure
    BY <1>1 DEF InstallClosure, CbMtxFree
  <1>2. ASSUME NEW from, NEW accepted, NEW refused,
               Disconnect(from, accepted, refused),
               \/ from = "request" /\ accepted = "await" /\ refused = "clear"
               \/ from = "open" /\ accepted = "open" /\ refused = "open"
        PROVE  CInv'
    BY <1>2 DEF Disconnect
  <1>3. CASE Answer \/ AwaitTimeout
    BY <1>3 DEF Answer, AwaitTimeout, stillSync
  <1>4. CASE ClearClosure
    BY <1>4 DEF ClearClosure, CbMtxFree
  <1>5. CASE Recheck
    BY <1>0, <1>5 DEF Recheck
  <1>6. CASE Reconnect
    BY <1>0, <1>6 DEF Reconnect
  <1>7. CASE DestroyClient
    BY <1>0, <1>7 DEF DestroyClient
  <1>10. CASE RequestConnect
    BY <1>10 DEF RequestConnect
  <1>11. CASE StorePending
    BY <1>11 DEF StorePending
  <1>8. CASE SyncDisconnect
    BY <1>8 DEF SyncDisconnect
  <1>9. CASE ClientGone
    BY <1>9 DEF ClientGone, clientVars
  <1> QED
    BY <1>1, <1>2, <1>3, <1>4, <1>5, <1>6, <1>7, <1>8, <1>9, <1>10, <1>11
       DEF SyncStep, OwnerCall

LEMMA ClientInitInv ==
  ASSUME ClientInit
  PROVE  CInv
  <1>1. <<>> \in Seq(Events) /\ 0 \in 0..MaxFaults
    BY CallbackLists, ClientAssumption
  <1>2. "connected" \in Events
    BY DEF Events
  <1> QED
    BY <1>1, <1>2 DEF ClientInit, CInv, ClientTypeOK, ClosureUnderLock,
                      PromiseOutlivesClosure, Links

LEMMA ClientStepInv ==
  ASSUME CInv, [ClientNext]_clientVars
  PROVE  CInv'
  <1>1. CASE UNCHANGED clientVars
    BY <1>1 DEF clientVars, CInv, ClientTypeOK, ClosureUnderLock,
                PromiseOutlivesClosure, PromiseLives, libraryVars,
                callbackVars, promiseVars
  <1>2. CASE ClientNext
    BY <1>2, LibraryKeepsInv, CallbackKeepsInv, OwnerKeepsInv DEF ClientNext
  <1> QED
    BY <1>1, <1>2

-----------------------------------------------------------------------------
\* CInv holds of every state of a client.
THEOREM Invariance == ClientSpec => []CInv
  BY ClientInitInv, ClientStepInv, PTL DEF ClientSpec

\* Every variable of the client keeps its type.
THEOREM TypeCorrect == ClientSpec => []ClientTypeOK
  <1>1. CInv => ClientTypeOK
    BY DEF CInv
  <1> QED
    BY <1>1, Invariance, PTL

\* syncDisconnect's closure points into its stack frame: it never runs and
\* is never left behind when that frame is gone, however many faults there
\* are and however late the library answers.
THEOREM ClosureIsSafe == ClientSpec => []PromiseOutlivesClosure
  <1>1. CInv => PromiseOutlivesClosure
    BY DEF CInv
  <1> QED
    BY <1>1, Invariance, PTL

-----------------------------------------------------------------------------
(* The device. *)

\* The device's steps are its client's steps, or no steps of the client.
LEMMA StepOfClient ==
  ASSUME [Next]_vars
  PROVE  [ClientNext]_clientVars
  <1>1. CASE LibraryThread
    BY <1>1 DEF LibraryThread, EnterCallback, LeaveCallback, SetPromise,
                SetConnectionStatus, SetComponentStatus, ClientNext,
                LibraryCallback
  <1>2. CASE OwnerThread
    BY <1>2 DEF OwnerThread, Connect, WaitConnected, WaitTimeout,
                SwapCallback, Disconnecting, Destroy, ClientNext, OwnerCall
  <1>3. CASE ChangeFunctionBlocks \/ Remove
    BY <1>3 DEF ChangeFunctionBlocks, Remove, ClientNext, OwnerCall
  <1>4. CASE Library /\ UNCHANGED devVars
    BY <1>4 DEF ClientNext
  <1>5. CASE Gone
    BY <1>5 DEF Gone, vars
  <1>6. CASE UNCHANGED vars
    BY <1>6 DEF vars
  <1> QED
    BY <1>1, <1>2, <1>3, <1>4, <1>5, <1>6 DEF Next

\* A device's client is a client: each step of the device is one of the
\* client or leaves the client alone.
THEOREM DeviceUsesClient == Spec => ClientInit /\ [][ClientNext]_clientVars
  <1>1. Init => ClientInit
    BY DEF Init
  <1> QED
    BY <1>1, StepOfClient, PTL DEF Spec

-----------------------------------------------------------------------------
\* What is left to do when the device's callback has done some of its steps.
TodoLists == {<<>>, <<"component">>, <<"promise", "component">>,
              <<"status", "component">>, <<"status", "promise", "component">>}

DevTypeOK ==
  /\ devPc \in {"construct", "wait", "swap", "live", "thrown", "removed"}
  /\ connectedPromise \in BOOLEAN /\ connectedDone \in BOOLEAN
  /\ swapped \in BOOLEAN /\ told \in BOOLEAN
  /\ todo \in TodoLists
  /\ connectionStatus \in {"Reconnecting", "Connected"}
  /\ componentStatus \in {"Ok", "Error"}

\* Only callbacks about the connection have anything to do in the device,
\* and only one for "connected" has a promise to set.
TodoForConnection ==
  /\ todo # <<>> =>
       libPc = "inside" /\ event \in {"connected", "connectionLost"}
  /\ todo \in {<<"promise", "component">>,
               <<"status", "promise", "component">>} => event = "connected"

\* "Connection lost" is shown after "Reconnecting", and an error is taken
\* back by the callback that shows "Connected".
ErrorOrder ==
  /\ todo = <<"component">> /\ event = "connectionLost" =>
       connectionStatus = "Reconnecting"
  /\ componentStatus = "Error" /\ connectionStatus = "Connected" =>
       /\ event = "connected"
       /\ todo \in {<<"component">>, <<"promise", "component">>}

\* Nothing is lost without a fault.
NoLoss ==
  faults = 0 =>
    /\ \A i \in DOMAIN events : events[i] # "connectionLost"
    /\ event # "connectionLost"
    /\ componentStatus = "Ok"

\* The status is set before the promise, the promise before the constructor
\* goes on.
PromiseOrder ==
  /\ devPc \in {"swap", "live"} => connectedPromise
  /\ faults = 0 /\ (connectedPromise \/ todo = <<"promise", "component">>) =>
       connectionStatus = "Connected"

\* The inductive invariant.
IInv ==
  CInv /\ DevTypeOK /\ TodoForConnection /\ ErrorOrder /\ NoLoss
       /\ PromiseOrder

-----------------------------------------------------------------------------
LEMMA TodoTails ==
  ASSUME todo \in TodoLists, todo # <<>>
  PROVE  /\ Tail(todo) \in TodoLists
         /\ Head(todo) = "status" =>
              Tail(todo) \in {<<"component">>, <<"promise", "component">>}
         /\ Head(todo) = "status" /\ Tail(todo) = <<"promise", "component">> =>
              todo = <<"status", "promise", "component">>
         /\ Head(todo) = "promise" =>
              todo = <<"promise", "component">> /\ Tail(todo) = <<"component">>
         /\ Head(todo) = "component" =>
              todo = <<"component">> /\ Tail(todo) = <<>>
  <1>1. CASE todo = <<"component">>
    BY <1>1 DEF TodoLists
  <1>2. CASE todo = <<"promise", "component">>
    <2>1. Head(todo) = "promise" /\ Tail(todo) = <<"component">>
      BY <1>2
    <2> QED
      BY <1>2, <2>1 DEF TodoLists
  <1>3. CASE todo = <<"status", "component">>
    <2>1. Head(todo) = "status" /\ Tail(todo) = <<"component">>
      BY <1>3
    <2>2. Tail(todo) # <<"promise", "component">>
      BY <1>3
    <2> QED
      BY <1>3, <2>1, <2>2 DEF TodoLists
  <1>4. CASE todo = <<"status", "promise", "component">>
    <2>1. /\ Head(todo) = "status"
          /\ Tail(todo) = <<"promise", "component">>
      BY <1>4
    <2> QED
      BY <1>4, <2>1 DEF TodoLists
  <1> QED
    BY <1>1, <1>2, <1>3, <1>4 DEF TodoLists

LEMMA TodoSequences ==
  TodoLists \subseteq Seq({"status", "promise", "component"})
  BY DEF TodoLists

LEMMA DifferentTodo ==
  /\ <<"component">> # <<>> /\ <<"promise", "component">> # <<>>
  /\ <<"component">> # <<"promise", "component">>
  /\ <<"component">> # <<"status", "component">>
  /\ <<"component">> # <<"status", "promise", "component">>
  /\ <<"promise", "component">> # <<"status", "component">>
  /\ <<"promise", "component">> # <<"status", "promise", "component">>
  /\ <<"status", "component">> # <<"status", "promise", "component">>
  /\ <<"status", "promise", "component">> # <<>>
  OBVIOUS
\* What the library does to the connection adds no lost connection unless it
\* counts as a fault; the rest of the device is left alone.
LEMMA HappensKeepsLoss ==
  ASSUME CInv, NoLoss, NEW from, NEW to, NEW cbs \in Seq(Events),
         Happens(from, to, cbs), UNCHANGED devVars, faults' = 0 => faults = 0,
         faults' = 0 => \A i \in DOMAIN cbs : cbs[i] # "connectionLost"
  PROVE  NoLoss'
  <1>1. events \in Seq(Events) /\ events' = events \o cbs
    BY DEF CInv, ClientTypeOK, Happens
  <1>2. /\ DOMAIN events' = 1..Len(events) + Len(cbs)
        /\ \A i \in 1..Len(events) + Len(cbs) :
             events'[i] = IF i <= Len(events) THEN events[i]
                          ELSE cbs[i - Len(events)]
        /\ DOMAIN events = 1..Len(events) /\ DOMAIN cbs = 1..Len(cbs)
        /\ Len(events) \in Nat /\ Len(cbs) \in Nat
    BY <1>1, ConcatProperties, LenProperties
  <1>3. ASSUME faults' = 0, NEW i \in DOMAIN events'
        PROVE  events'[i] # "connectionLost"
    <2>1. CASE i <= Len(events)
      BY <1>2, <1>3, <2>1 DEF NoLoss
    <2>2. CASE ~(i <= Len(events))
      <3>1. i - Len(events) \in DOMAIN cbs
        BY <1>2, <1>3, <2>2
      <3> QED
        BY <1>2, <1>3, <2>2, <3>1
    <2> QED
      BY <2>1, <2>2
  <1> QED
    BY <1>3 DEF NoLoss, Happens, devVars, callbackVars

LEMMA LibraryKeepsLoss ==
  ASSUME CInv, NoLoss, Library, UNCHANGED devVars
  PROVE  NoLoss'
  <1>1. /\ <<"connectSuccess", "connected">> \in Seq(Events)
        /\ <<"connectFailure">> \in Seq(Events)
        /\ <<"connectionLost">> \in Seq(Events)
        /\ <<"connectionLost", "disconnectFailure">> \in Seq(Events)
        /\ <<"connected">> \in Seq(Events)
        /\ <<"disconnectSuccess">> \in Seq(Events)
    BY CallbackLists DEF Events, DisconnectEvents
  <1>2. Fault => faults' # 0
    BY DEF Fault, CInv, ClientTypeOK
  <1> DEFINE NoneLost(cbs) == \A i \in DOMAIN cbs : cbs[i] # "connectionLost"
  <1>8. /\ NoneLost(<<"connectSuccess", "connected">>)
        /\ NoneLost(<<"connected">>) /\ NoneLost(<<"disconnectSuccess">>)
    OBVIOUS
  <1>3. CASE Accepted
    BY <1>1, <1>3, <1>8, HappensKeepsLoss DEF Accepted
  <1>4. CASE Refused
    BY <1>1, <1>2, <1>4, HappensKeepsLoss DEF Refused
  <1>5. CASE Lost
    BY <1>1, <1>2, <1>5, HappensKeepsLoss DEF Lost
  <1>6. CASE Reconnected
    BY <1>1, <1>6, <1>8, HappensKeepsLoss DEF Reconnected
  <1>7. CASE Disconnected
    BY <1>1, <1>7, <1>8, HappensKeepsLoss DEF Disconnected
  <1> QED
    BY <1>3, <1>4, <1>5, <1>6, <1>7 DEF Library

LEMMA LibraryKeepsDevice ==
  ASSUME IInv, Library, UNCHANGED devVars
  PROVE  IInv'
  <1>1. CInv'
    BY LibraryKeepsInv DEF IInv
  <1>2. NoLoss'
    BY LibraryKeepsLoss DEF IInv
  <1>3. UNCHANGED callbackVars /\ (faults' = 0 => faults = 0)
    BY DEF Library, Accepted, Refused, Lost, Reconnected, Disconnected,
           Happens, Fault, IInv, CInv, ClientTypeOK
  <1>4. DevTypeOK'
    BY DEF IInv, DevTypeOK, devVars
  <1>5. TodoForConnection' /\ ErrorOrder'
    BY <1>3 DEF IInv, TodoForConnection, ErrorOrder, devVars, callbackVars
  <1>6. PromiseOrder'
    BY <1>3 DEF IInv, PromiseOrder, devVars
  <1> QED
    BY <1>1, <1>2, <1>4, <1>5, <1>6 DEF IInv

-----------------------------------------------------------------------------
\* A callback begins: nothing of the last one is left to do.
LEMMA BeginKeepsDevice ==
  ASSUME IInv, BeginCallback, UNCHANGED devVars
  PROVE  IInv'
  <1>1. CInv'
    BY CallbackKeepsInv DEF IInv, LibraryCallback
  <1>2. todo = <<>> /\ UNCHANGED <<devVars, faults>>
    BY DEF IInv, TodoForConnection, BeginCallback
  <1>3. NoLoss'
    <2>1. events \in Seq(Events) /\ events # <<>>
      BY DEF IInv, CInv, ClientTypeOK, BeginCallback
    <2>2. /\ Head(events) = events[1] /\ 1 \in DOMAIN events
          /\ \A i \in DOMAIN Tail(events) :
               i + 1 \in DOMAIN events /\ Tail(events)[i] = events[i + 1]
      BY <2>1, HeadTailProperties, LenProperties
    <2> QED
      BY <1>2, <2>2 DEF IInv, NoLoss, BeginCallback, devVars
  <1>4. DevTypeOK'
    BY <1>2 DEF IInv, DevTypeOK, devVars
  <1>5. TodoForConnection' /\ ErrorOrder'
    BY <1>2, DifferentTodo DEF IInv, TodoForConnection, ErrorOrder, devVars
  <1>6. PromiseOrder'
    BY <1>2 DEF IInv, PromiseOrder, devVars
  <1> QED
    BY <1>1, <1>3, <1>4, <1>5, <1>6 DEF IInv

LEMMA ResetKeepsDevice ==
  ASSUME IInv, ResetPending, UNCHANGED devVars
  PROVE  IInv'
  <1>1. CInv'
    BY CallbackKeepsInv DEF IInv, LibraryCallback
  <1>2. todo = <<>> /\ UNCHANGED <<devVars, libraryVars, event>>
    BY DEF IInv, TodoForConnection, ResetPending
  <1>3. NoLoss' /\ DevTypeOK' /\ PromiseOrder'
    BY <1>2 DEF IInv, NoLoss, DevTypeOK, PromiseOrder, devVars, libraryVars
  <1>4. TodoForConnection' /\ ErrorOrder'
    BY <1>2, DifferentTodo DEF IInv, TodoForConnection, ErrorOrder, devVars
  <1> QED
    BY <1>1, <1>3, <1>4 DEF IInv

LEMMA EnterKeepsDevice ==
  ASSUME IInv, EnterCallback
  PROVE  IInv'
  <1>1. CInv'
    BY CallbackKeepsInv DEF IInv, LibraryCallback, EnterCallback
  <1>2. /\ todo = <<>> /\ libPc' = "inside" /\ todo' = DeviceCallback
        /\ UNCHANGED <<libraryVars, event, notCallback, connectedPromise,
                       statuses, told>>
    BY DEF IInv, TodoForConnection, EnterCallback, LockCallbacks
  <1>3. /\ todo' \in {<<>>, <<"status", "component">>,
                     <<"status", "promise", "component">>}
        /\ todo' # <<>> => event \in {"connected", "connectionLost"}
        /\ todo' = <<"status", "promise", "component">> => event = "connected"
    BY <1>2, DifferentTodo DEF DeviceCallback
  <1>4. NoLoss' /\ PromiseOrder'
    BY <1>2, <1>3, DifferentTodo
       DEF IInv, NoLoss, PromiseOrder, notCallback, statuses, libraryVars
  <1>5. DevTypeOK'
    BY <1>2, <1>3 DEF IInv, DevTypeOK, TodoLists, EnterCallback, notCallback,
                      statuses
  <1>6. TodoForConnection' /\ ErrorOrder'
    BY <1>2, <1>3, DifferentTodo
       DEF IInv, TodoForConnection, ErrorOrder, statuses
  <1> QED
    BY <1>1, <1>4, <1>5, <1>6 DEF IInv

LEMMA LeaveKeepsDevice ==
  ASSUME IInv, LeaveCallback
  PROVE  IInv'
  <1>1. CInv'
    BY CallbackKeepsInv DEF IInv, LibraryCallback, LeaveCallback
  <1>2. todo = <<>> /\ UNCHANGED <<devVars, libraryVars, event>>
    BY DEF LeaveCallback, EndCallback
  <1>3. NoLoss' /\ DevTypeOK' /\ PromiseOrder'
    BY <1>2 DEF IInv, NoLoss, DevTypeOK, PromiseOrder, devVars, libraryVars
  <1>4. TodoForConnection' /\ ErrorOrder'
    BY <1>2, DifferentTodo DEF IInv, TodoForConnection, ErrorOrder, devVars
  <1> QED
    BY <1>1, <1>3, <1>4 DEF IInv

-----------------------------------------------------------------------------
\* The steps of the device's callback.
LEMMA StatusKeepsDevice ==
  ASSUME IInv, SetConnectionStatus
  PROVE  IInv'
  <1>1. /\ todo \in TodoLists /\ todo # <<>> /\ Head(todo) = "status"
        /\ todo' = Tail(todo) /\ libPc = "inside"
        /\ event \in {"connected", "connectionLost"}
        /\ UNCHANGED <<clientVars, notCallback, connectedPromise,
                       connectedDone, componentStatus, told>>
    BY DEF IInv, DevTypeOK, TodoForConnection, SetConnectionStatus, NextToDo
  <1>2. /\ todo' \in {<<"component">>, <<"promise", "component">>}
        /\ todo' = <<"promise", "component">> => event = "connected"
    BY <1>1, TodoTails DEF IInv, TodoForConnection
  <1>3. CInv'
    BY <1>1, ClientStepInv DEF IInv
  <1>4. UNCHANGED <<libPc, event, events, faults>>
    BY <1>1 DEF clientVars, libraryVars, callbackVars
  <1>5. connectionStatus' = IF event = "connected" THEN "Connected"
                            ELSE "Reconnecting"
    BY DEF SetConnectionStatus
  <1>6. DevTypeOK'
    BY <1>1, <1>2, <1>5 DEF IInv, DevTypeOK, TodoLists, notCallback
  <1>7. TodoForConnection' /\ ErrorOrder'
    BY <1>1, <1>2, <1>4, <1>5, DifferentTodo DEF TodoForConnection, ErrorOrder
  <1>8. NoLoss'
    BY <1>1, <1>4 DEF IInv, NoLoss
  <1>9. PromiseOrder'
    BY <1>1, <1>4, <1>5 DEF IInv, NoLoss, PromiseOrder, notCallback
  <1> QED
    BY <1>3, <1>6, <1>7, <1>8, <1>9 DEF IInv

LEMMA PromiseKeepsDevice ==
  ASSUME IInv, SetPromise
  PROVE  IInv'
  <1>1. /\ todo \in TodoLists /\ todo # <<>> /\ Head(todo) = "promise"
        /\ todo' = Tail(todo) /\ connectedPromise' = TRUE
        /\ UNCHANGED <<clientVars, notCallback, connectedDone, statuses, told>>
    BY DEF IInv, DevTypeOK, SetPromise, NextToDo
  <1>2. todo = <<"promise", "component">> /\ todo' = <<"component">>
    BY <1>1, TodoTails
  <1>3. CInv'
    BY <1>1, ClientStepInv DEF IInv
  <1>4. UNCHANGED <<libPc, event, events, faults, statuses>>
    BY <1>1 DEF clientVars, libraryVars, callbackVars
  <1>5. DevTypeOK'
    BY <1>1, <1>2 DEF IInv, DevTypeOK, TodoLists, notCallback, statuses
  <1>6. TodoForConnection'
    BY <1>2, <1>4, DifferentTodo DEF IInv, TodoForConnection
  <1>7. event = "connectionLost" => connectionStatus = "Reconnecting"
    BY <1>2 DEF IInv, TodoForConnection
  <1>8. ErrorOrder'
    BY <1>2, <1>4, <1>7, DifferentTodo DEF IInv, ErrorOrder, statuses
  <1>9. NoLoss' /\ PromiseOrder'
    BY <1>1, <1>2, <1>4 DEF IInv, NoLoss, PromiseOrder, notCallback, statuses
  <1> QED
    BY <1>3, <1>5, <1>6, <1>8, <1>9 DEF IInv

LEMMA ComponentKeepsDevice ==
  ASSUME IInv, SetComponentStatus
  PROVE  IInv'
  <1>1. /\ todo \in TodoLists /\ todo # <<>> /\ Head(todo) = "component"
        /\ todo' = Tail(todo) /\ event \in {"connected", "connectionLost"}
        /\ UNCHANGED <<clientVars, notCallback, connectedPromise,
                       connectedDone, connectionStatus>>
        /\ told' \in BOOLEAN
    BY DEF IInv, DevTypeOK, TodoForConnection, SetComponentStatus, NextToDo
  <1>2. todo = <<"component">> /\ todo' = <<>>
    BY <1>1, TodoTails
  <1>3. CInv'
    BY <1>1, ClientStepInv DEF IInv
  <1>4. UNCHANGED <<libPc, event, events, faults>>
    BY <1>1 DEF clientVars, libraryVars, callbackVars
  <1>5. componentStatus' = IF event = "connected" THEN "Ok" ELSE "Error"
    BY DEF SetComponentStatus
  <1>6. DevTypeOK'
    BY <1>1, <1>2, <1>5 DEF IInv, DevTypeOK, TodoLists, notCallback
  <1>7. TodoForConnection'
    BY <1>2, DifferentTodo DEF TodoForConnection
  <1>8. ErrorOrder'
    BY <1>1, <1>2, <1>4, <1>5, DifferentTodo DEF IInv, ErrorOrder
  <1>9. NoLoss' /\ PromiseOrder'
    BY <1>1, <1>2, <1>4, <1>5, DifferentTodo
       DEF IInv, NoLoss, PromiseOrder, notCallback
  <1> QED
    BY <1>3, <1>6, <1>7, <1>8, <1>9 DEF IInv

-----------------------------------------------------------------------------
\* The owner's thread leaves the callback, its event and the faults alone.
LEMMA OwnerKeepsDevice ==
  ASSUME IInv, OwnerThread \/ ChangeFunctionBlocks \/ Remove
  PROVE  IInv'
  <1>1. CInv'
    BY StepOfClient, ClientStepInv DEF IInv, Next
  <1>2. UNCHANGED <<libPc, event, faults, todo, connectedPromise,
                    connectedDone, connectionStatus>>
    <2> USE DEF notOwner, libraryVars, callbackVars, clientVars, devVars
    <2>1. CASE Connect
      BY <2>1 DEF Connect, devRest, RequestConnect, StorePending
    <2>2. CASE WaitConnected \/ WaitTimeout
      BY <2>2 DEF WaitConnected, WaitTimeout, devRest
    <2>3. CASE SwapCallback \/ ChangeFunctionBlocks
      BY <2>3 DEF SwapCallback, ChangeFunctionBlocks
    <2>4. CASE Remove
      BY <2>4 DEF Remove, devRest, SyncDisconnect
    <2>5. CASE Disconnecting
      BY <2>5 DEF Disconnecting, SyncStep, InstallClosure, Disconnect, Answer,
                  AwaitTimeout, ClearClosure, Recheck, stillSync
    <2>6. CASE Destroy
      BY <2>6 DEF Destroy, DestroyClient
    <2> QED
      BY <2>1, <2>2, <2>3, <2>4, <2>5, <2>6 DEF OwnerThread
  <1>3. events' = events \/ events' = <<>>
    <2> USE DEF libraryVars, clientVars
    <2>1. CASE Connect
      BY <2>1 DEF Connect, RequestConnect, StorePending
    <2>2. CASE WaitConnected \/ WaitTimeout
      BY <2>2 DEF WaitConnected, WaitTimeout
    <2>3. CASE SwapCallback \/ ChangeFunctionBlocks
      BY <2>3 DEF SwapCallback, ChangeFunctionBlocks
    <2>4. CASE Remove
      BY <2>4 DEF Remove, SyncDisconnect
    <2>5. CASE Disconnecting
      BY <2>5 DEF Disconnecting, SyncStep, InstallClosure, Disconnect, Answer,
                  AwaitTimeout, ClearClosure, Recheck, stillSync
    <2>6. CASE Destroy
      BY <2>6 DEF Destroy, DestroyClient
    <2> QED
      BY <2>1, <2>2, <2>3, <2>4, <2>5, <2>6 DEF OwnerThread
  <1>4. /\ componentStatus' \in {componentStatus, "Ok"}
        /\ swapped' \in {swapped, TRUE} /\ told' = told
        /\ devPc' \in {"construct", "wait", "swap", "live", "thrown",
                       "removed"}
        /\ devPc' \in {"swap", "live"} => connectedPromise
    BY DEF OwnerThread, ChangeFunctionBlocks, Remove, Connect, WaitConnected,
           WaitTimeout, SwapCallback, Disconnecting, Destroy, DevGoto, devRest,
           devVars, IInv, DevTypeOK, PromiseOrder
  <1>5. DevTypeOK'
    BY <1>2, <1>4 DEF IInv, DevTypeOK
  <1>6. TodoForConnection' /\ ErrorOrder'
    BY <1>2, <1>4 DEF IInv, TodoForConnection, ErrorOrder
  <1>7. NoLoss'
    BY <1>2, <1>3, <1>4 DEF IInv, NoLoss
  <1>8. PromiseOrder'
    BY <1>2, <1>4 DEF IInv, PromiseOrder
  <1> QED
    BY <1>1, <1>5, <1>6, <1>7, <1>8 DEF IInv

LEMMA InitInv ==
  ASSUME Init
  PROVE  IInv
  <1>1. CInv
    BY ClientInitInv DEF Init
  <1>2. DevTypeOK
    BY DEF Init, DevTypeOK, TodoLists
  <1>3. TodoForConnection /\ ErrorOrder /\ PromiseOrder
    BY DifferentTodo DEF Init, TodoForConnection, ErrorOrder, PromiseOrder
  <1>4. NoLoss
    BY DEF Init, ClientInit, NoLoss
  <1> QED
    BY <1>1, <1>2, <1>3, <1>4 DEF IInv

LEMMA StepInv ==
  ASSUME IInv, [Next]_vars
  PROVE  IInv'
  <1>1. CASE LibraryThread
    BY <1>1, BeginKeepsDevice, ResetKeepsDevice, EnterKeepsDevice,
       LeaveKeepsDevice, StatusKeepsDevice, PromiseKeepsDevice,
       ComponentKeepsDevice DEF LibraryThread
  <1>2. CASE OwnerThread \/ ChangeFunctionBlocks \/ Remove
    BY <1>2, OwnerKeepsDevice
  <1>3. CASE Library /\ UNCHANGED devVars
    BY <1>3, LibraryKeepsDevice
  <1>4. CASE UNCHANGED vars
    <2>1. CInv'
      BY <1>4, ClientStepInv DEF IInv, vars
    <2>2. UNCHANGED <<libPc, event, events, faults, devVars>>
      BY <1>4 DEF vars, clientVars, libraryVars, callbackVars
    <2> QED
      BY <2>1, <2>2 DEF IInv, DevTypeOK, TodoForConnection, ErrorOrder,
                        NoLoss, PromiseOrder, devVars
  <1>5. CASE Gone
    BY <1>4, <1>5 DEF Gone
  <1> QED
    BY <1>1, <1>2, <1>3, <1>4, <1>5 DEF Next

-----------------------------------------------------------------------------
\* IInv holds of every state of a device.
THEOREM DeviceInvariance == Spec => []IInv
  BY InitInv, StepInv, PTL DEF Spec

\* Every variable of the device, and of its client, keeps its type.
THEOREM DeviceTypeCorrect == Spec => []TypeOK
  <1>1. IInv => TypeOK
    BY TodoSequences DEF IInv, CInv, DevTypeOK, TypeOK
  <1> QED
    BY <1>1, DeviceInvariance, PTL

\* The constructor, removed and the destructor use their client so that no
\* answer of the library reaches into a frame of syncDisconnect that is gone.
THEOREM DeviceClosureIsSafe == Spec => []PromiseOutlivesClosure
  <1>1. IInv => PromiseOutlivesClosure
    BY DEF IInv, CInv
  <1> QED
    BY <1>1, DeviceInvariance, PTL

\* A device whose creation was not disturbed shows "Connected" and "Ok" when
\* the constructor returns: nothing overtakes the promise.
THEOREM CreationIsConnection == Spec => []CreatedMeansConnected
  <1>1. IInv => CreatedMeansConnected
    BY DEF IInv, NoLoss, PromiseOrder, CreatedMeansConnected
  <1> QED
    BY <1>1, DeviceInvariance, PTL

\* No device goes on showing "Connection lost" next to "Connected".
THEOREM ErrorIsTakenBack == Spec => []ErrorMeansReconnecting
  <1>1. IInv => ErrorMeansReconnecting
    BY DifferentTodo DEF IInv, DevTypeOK, TodoForConnection, ErrorOrder,
                         ErrorMeansReconnecting, Quiet
  <1> QED
    BY <1>1, DeviceInvariance, PTL

-----------------------------------------------------------------------------
(* The connection status follows the connection.                           *)

ConnectionEvents == {"connected", "connectionLost"}

\* From the constructor's begin until the device is removed or thrown away.
Alive == devPc \in {"construct", "wait", "swap", "live"}

\* No callback about the connection is due; the last one that is due.
NoNews == \A i \in DOMAIN events : events[i] \notin ConnectionEvents
LastNews(i) ==
  /\ i \in DOMAIN events /\ events[i] \in ConnectionEvents
  /\ \A j \in DOMAIN events : events[j] \in ConnectionEvents => j <= i

InProgress == libPc # "quiet" /\ event \in ConnectionEvents
StatusDue == todo \in {<<"status", "component">>,
                       <<"status", "promise", "component">>}
ShowsConnected == connectionStatus = "Connected"

\* What the owner's thread has done in each phase of the device's life.
Phases ==
  /\ devPc = "construct" => \/ userPc = "connect" /\ link = "none"
                            \/ userPc = "store"
  /\ devPc \in {"wait", "swap", "live"} => userPc = "open"
  /\ devPc = "thrown" => userPc \in {"open", "gone"}
  /\ devPc = "removed" => userPc \notin {"connect", "store"}
  /\ link = "closing" => devPc = "removed"
  /\ devPc = "live" => swapped
  /\ told => devPc \in {"live", "removed"}

\* The newest callback about the connection says what the connection is.
NewsIsTrue ==
  Alive => /\ \A i \in DOMAIN events :
                LastNews(i) => (events[i] = "connected" <=> IsUp)
           /\ NoNews /\ InProgress => (event = "connected" <=> IsUp)

\* The status shows the callback in progress, or the last one that ended.
StatusIsTrue ==
  devPc = "live" =>
    /\ libPc = "inside" /\ event \in ConnectionEvents /\ ~StatusDue =>
         (ShowsConnected <=> event = "connected")
    /\ told /\ NoNews /\ ~InProgress => (ShowsConnected <=> IsUp)

FInv == Phases /\ NewsIsTrue /\ StatusIsTrue

-----------------------------------------------------------------------------
\* New callbacks are due: those about the connection end with the truth.
LEMMA NewsArrives ==
  ASSUME events \in Seq(Events), NEW cbs \in Seq(Events),
         events' = events \o cbs, NewsIsTrue, StatusIsTrue,
         UNCHANGED <<libPc, event, devVars>>,
         \/ /\ \A i \in DOMAIN cbs : cbs[i] \notin ConnectionEvents
            /\ IsUp' <=> IsUp
         \/ /\ Len(cbs) > 0 /\ cbs[Len(cbs)] \in ConnectionEvents
            /\ cbs[Len(cbs)] = "connected" <=> IsUp'
  PROVE  NewsIsTrue' /\ StatusIsTrue'
  <1>1. /\ DOMAIN events' = 1..Len(events) + Len(cbs)
        /\ \A i \in 1..Len(events) + Len(cbs) :
             events'[i] = IF i <= Len(events) THEN events[i]
                          ELSE cbs[i - Len(events)]
        /\ DOMAIN events = 1..Len(events) /\ DOMAIN cbs = 1..Len(cbs)
        /\ Len(events) \in Nat /\ Len(cbs) \in Nat
    BY ConcatProperties, LenProperties
  <1>2. UNCHANGED <<Alive, InProgress, StatusDue, ShowsConnected, devPc, told>>
    BY DEF devVars, Alive, InProgress, StatusDue, ShowsConnected
  <1>3. CASE /\ \A i \in DOMAIN cbs : cbs[i] \notin ConnectionEvents
             /\ IsUp' <=> IsUp
    <2>1. NoNews' => NoNews
      BY <1>1 DEF NoNews
    <2>2. ASSUME NEW i \in DOMAIN events', LastNews(i)'
          PROVE  i \in DOMAIN events /\ LastNews(i) /\ events'[i] = events[i]
      <3>1. i <= Len(events)
        <4>1. CASE ~(i <= Len(events))
          <5>1. i - Len(events) \in DOMAIN cbs
            BY <1>1, <4>1
          <5> QED
            BY <1>1, <1>3, <2>2, <4>1, <5>1 DEF LastNews
        <4> QED
          BY <4>1
      <3>2. i \in DOMAIN events /\ events'[i] = events[i]
        BY <1>1, <3>1
      <3>3. \A j \in DOMAIN events :
              j \in DOMAIN events' /\ events'[j] = events[j]
        BY <1>1
      <3> QED
        BY <2>2, <3>2, <3>3 DEF LastNews
    <2> QED
      BY <1>2, <1>3, <2>1, <2>2 DEF NewsIsTrue, StatusIsTrue
  <1>4. CASE /\ Len(cbs) > 0 /\ cbs[Len(cbs)] \in ConnectionEvents
             /\ cbs[Len(cbs)] = "connected" <=> IsUp'
    <2> DEFINE n == Len(events) + Len(cbs)
    <2>1. n \in DOMAIN events' /\ events'[n] = cbs[Len(cbs)]
      BY <1>1, <1>4
    <2>2. ~NoNews'
      BY <1>4, <2>1 DEF NoNews
    <2>3. \A i \in DOMAIN events' : LastNews(i)' => i = n
      BY <1>1, <1>4, <2>1 DEF LastNews
    <2> QED
      BY <1>2, <1>4, <2>1, <2>2, <2>3 DEF NewsIsTrue, StatusIsTrue
  <1> QED
    BY <1>3, <1>4

LEMMA LibraryFollows ==
  ASSUME IInv, FInv, Library, UNCHANGED devVars
  PROVE  FInv'
  <1>1. Phases'
    BY DEF Library, Accepted, Refused, Lost, Reconnected, Disconnected,
           Happens, FInv, Phases, devVars
  <1>2. events \in Seq(Events)
    BY DEF IInv, CInv, ClientTypeOK
  <1>3. UNCHANGED <<libPc, event, devVars>>
    BY DEF Library, Accepted, Refused, Lost, Reconnected, Disconnected,
           Happens, callbackVars
  <1> DEFINE NoneOf(cbs) == \A i \in DOMAIN cbs : cbs[i] \notin ConnectionEvents
             Ends(cbs, e) == Len(cbs) > 0 /\ cbs[Len(cbs)] = e
  <1>4. /\ <<"connectSuccess", "connected">> \in Seq(Events)
        /\ <<"connectFailure">> \in Seq(Events)
        /\ <<"connectionLost">> \in Seq(Events)
        /\ <<"connected">> \in Seq(Events)
        /\ <<"disconnectSuccess">> \in Seq(Events)
    BY CallbackLists DEF Events, DisconnectEvents
  <1>5. /\ Ends(<<"connectSuccess", "connected">>, "connected")
        /\ Ends(<<"connected">>, "connected")
        /\ Ends(<<"connectionLost">>, "connectionLost")
        /\ NoneOf(<<"connectFailure">>) /\ NoneOf(<<"disconnectSuccess">>)
    BY DEF ConnectionEvents
  <1>6. CASE Accepted
    <2>1. IsUp' /\ events' = events \o <<"connectSuccess", "connected">>
      BY <1>6 DEF Accepted, Happens, IsUp
    <2> QED
      BY <1>1, <1>2, <1>3, <1>4, <1>5, <2>1, NewsArrives
         DEF FInv, ConnectionEvents
  <1>7. CASE Reconnected
    <2>1. IsUp' /\ events' = events \o <<"connected">>
      BY <1>7 DEF Reconnected, Happens, IsUp
    <2> QED
      BY <1>1, <1>2, <1>3, <1>4, <1>5, <2>1, NewsArrives
         DEF FInv, ConnectionEvents
  <1>8. CASE Refused
    <2>1. (IsUp' <=> IsUp) /\ events' = events \o <<"connectFailure">>
      BY <1>8 DEF Refused, Happens, IsUp
    <2> QED
      BY <1>1, <1>2, <1>3, <1>4, <1>5, <2>1, NewsArrives DEF FInv
  <1>9. CASE Lost /\ Alive
    <2>1. ~IsUp' /\ events' = events \o <<"connectionLost">>
      BY <1>9 DEF Lost, Happens, IsUp, Alive, FInv, Phases
    <2> QED
      BY <1>1, <1>2, <1>3, <1>4, <1>5, <2>1, NewsArrives
         DEF FInv, ConnectionEvents
  <1>10. CASE Disconnected /\ Alive
    BY <1>10 DEF Disconnected, Happens, Alive, FInv, Phases
  <1>11. CASE ~Alive
    BY <1>1, <1>3, <1>11 DEF FInv, NewsIsTrue, StatusIsTrue, Alive, devVars
  <1> QED
    BY <1>6, <1>7, <1>8, <1>9, <1>10, <1>11 DEF Library

\* A callback begins: what was due first is now in progress.
LEMMA BeginFollows ==
  ASSUME IInv, FInv, BeginCallback, UNCHANGED devVars
  PROVE  FInv'
  <1>1. events \in Seq(Events) /\ events # <<>>
    BY DEF IInv, CInv, ClientTypeOK, BeginCallback
  <1>2. /\ Head(events) = events[1] /\ Len(Tail(events)) = Len(events) - 1
        /\ DOMAIN events = 1..Len(events) /\ Len(events) \in Nat \ {0}
        /\ DOMAIN Tail(events) = 1..Len(events) - 1
        /\ \A i \in 1..Len(events) - 1 : Tail(events)[i] = events[i + 1]
    BY <1>1, HeadTailProperties, LenProperties, EmptySeq
  <1>3. /\ libPc = "quiet" /\ libPc' # "quiet" /\ libPc' # "inside"
        /\ event' = events[1] /\ events' = Tail(events)
        /\ UNCHANGED <<userPc, link, IsUp, Alive, ShowsConnected, devVars>>
    BY <1>2 DEF BeginCallback, IsUp, Alive, ShowsConnected, devVars
  <1>4. Phases'
    BY <1>3 DEF FInv, Phases, devVars
  <1>5. ASSUME NEW i \in DOMAIN events', LastNews(i)'
        PROVE  /\ i + 1 \in DOMAIN events /\ LastNews(i + 1)
               /\ events'[i] = events[i + 1]
    <2>1. i \in 1..Len(events) - 1 /\ events'[i] = events[i + 1]
      BY <1>2, <1>3, <1>5
    <2>2. ASSUME NEW j \in DOMAIN events, events[j] \in ConnectionEvents
          PROVE  j <= i + 1
      <3>1. CASE j > 1
        <4>1. j - 1 \in DOMAIN events' /\ events'[j - 1] = events[j]
          BY <1>2, <1>3, <3>1
        <4> QED
          BY <1>2, <1>5, <2>1, <2>2, <4>1 DEF LastNews
      <3> QED
        BY <1>2, <2>1, <3>1
    <2> QED
      BY <1>2, <1>5, <2>1, <2>2 DEF LastNews
  <1>6. ASSUME NoNews', event' \in ConnectionEvents
        PROVE  1 \in DOMAIN events /\ LastNews(1)
    <2>1. ASSUME NEW j \in DOMAIN events, j > 1
          PROVE  events[j] \notin ConnectionEvents
      <3>1. j - 1 \in DOMAIN events' /\ events'[j - 1] = events[j]
        BY <1>2, <1>3, <2>1
      <3> QED
        BY <1>6, <3>1 DEF NoNews
    <2> QED
      BY <1>2, <1>3, <1>6, <2>1 DEF LastNews
  <1>7. NewsIsTrue'
    BY <1>3, <1>5, <1>6 DEF FInv, NewsIsTrue, InProgress
  <1>8. NoNews' /\ ~InProgress' => NoNews
    <2>1. \A j \in DOMAIN events : j = 1 \/ (/\ j - 1 \in DOMAIN events'
                                            /\ events'[j - 1] = events[j])
      BY <1>2, <1>3
    <2> QED
      BY <1>3, <2>1 DEF NoNews, InProgress
  <1>9. StatusIsTrue'
    BY <1>3, <1>8 DEF FInv, StatusIsTrue, InProgress, devVars
  <1> QED
    BY <1>4, <1>7, <1>9 DEF FInv

\* Steps inside a callback: what is due and the connection stay.
LEMMA CallbackFollows ==
  ASSUME IInv, FInv,
         \/ ResetPending /\ UNCHANGED devVars
         \/ EnterCallback \/ LeaveCallback
         \/ SetConnectionStatus \/ SetPromise \/ SetComponentStatus
  PROVE  FInv'
  <1>1. UNCHANGED <<userPc, link, events, event, devPc, swapped>>
    BY DEF ResetPending, EnterCallback, LeaveCallback, SetConnectionStatus,
           SetPromise, SetComponentStatus, LockCallbacks, EndCallback,
           notCallback, devVars, libraryVars, clientVars, callbackVars
  <1>2. UNCHANGED <<IsUp, Alive, NoNews>>
    BY <1>1 DEF IsUp, Alive, NoNews
  <1>3. \A i : LastNews(i)' <=> LastNews(i)
    BY <1>1 DEF LastNews
  <1>4. told' => devPc = "live" \/ told
    BY DEF ResetPending, EnterCallback, LeaveCallback, SetConnectionStatus,
           SetPromise, SetComponentStatus, devVars
  <1>5. Phases'
    BY <1>1, <1>4 DEF FInv, Phases
  <1>6. InProgress' => InProgress
    BY <1>1 DEF ResetPending, EnterCallback, LeaveCallback, clientVars,
           SetConnectionStatus, SetPromise, SetComponentStatus, LockCallbacks,
           EndCallback, InProgress, callbackVars
  <1>7. NewsIsTrue'
    BY <1>1, <1>2, <1>3, <1>6 DEF FInv, NewsIsTrue
  <1>8. CASE ResetPending /\ UNCHANGED devVars
    <2>1. (InProgress' <=> InProgress) /\ libPc' # "inside"
      BY <1>8 DEF ResetPending, InProgress, ConnectionEvents
    <2> QED
      BY <1>1, <1>2, <1>5, <1>7, <1>8, <2>1
         DEF FInv, StatusIsTrue, ShowsConnected, devVars
  <1>9. CASE EnterCallback
    <2>1. (InProgress' <=> InProgress) /\ UNCHANGED <<told, ShowsConnected>>
      BY <1>9 DEF EnterCallback, LockCallbacks, InProgress, statuses,
                  ShowsConnected
    <2>2. devPc = "live" /\ event \in ConnectionEvents => StatusDue'
      BY <1>9 DEF EnterCallback, DeviceCallback, StatusDue, FInv, Phases,
                  ConnectionEvents
    <2> QED
      BY <1>1, <1>2, <1>5, <1>7, <2>1, <2>2 DEF FInv, StatusIsTrue
  <1>10. CASE LeaveCallback
    <2>1. ~StatusDue /\ libPc = "inside" /\ libPc' = "quiet"
      BY <1>10, DifferentTodo DEF LeaveCallback, EndCallback, StatusDue
    <2>2. UNCHANGED <<told, ShowsConnected>>
      BY <1>10 DEF LeaveCallback, devVars, ShowsConnected
    <2>3. devPc = "live" => Alive
      BY DEF Alive
    <2> QED
      BY <1>1, <1>2, <1>5, <1>7, <2>1, <2>2, <2>3
         DEF FInv, StatusIsTrue, NewsIsTrue, InProgress
  <1>11. CASE SetConnectionStatus
    <2>1. InProgress' /\ event \in {"connected", "connectionLost"}
      BY <1>1, <1>11 DEF SetConnectionStatus, NextToDo, clientVars, IInv,
           TodoForConnection, callbackVars, InProgress, ConnectionEvents
    <2>2. ShowsConnected' <=> event = "connected"
      BY <1>11, <2>1 DEF SetConnectionStatus, ShowsConnected
    <2> QED
      BY <1>1, <1>5, <1>7, <2>1, <2>2 DEF FInv, StatusIsTrue
  <1>12. CASE SetPromise \/ SetComponentStatus
    <2>1. /\ InProgress' /\ libPc' = libPc /\ ~StatusDue
          /\ UNCHANGED ShowsConnected
      <3>1. Head(todo) # "status" /\ todo # <<>>
        BY <1>12 DEF SetPromise, SetComponentStatus, NextToDo
      <3>2. ~StatusDue
        BY <3>1 DEF StatusDue
      <3> QED
        BY <1>1, <1>12, <3>1, <3>2
           DEF SetPromise, SetComponentStatus, clientVars, statuses, IInv,
               TodoForConnection, callbackVars, InProgress, ConnectionEvents,
               ShowsConnected
    <2> QED
      BY <1>1, <1>5, <1>7, <2>1 DEF FInv, StatusIsTrue
  <1> QED
    BY <1>8, <1>9, <1>10, <1>11, <1>12

\* The owner's thread: until the device is removed it does not end the
\* connection, and the callback is not replaced while one runs.
LEMMA OwnerFollows ==
  ASSUME IInv, FInv, OwnerThread \/ ChangeFunctionBlocks \/ Remove
  PROVE  FInv'
  <1>1. UNCHANGED <<libPc, event>>
    BY DEF OwnerThread, Connect, WaitConnected, WaitTimeout, SwapCallback,
           Disconnecting, Destroy, ChangeFunctionBlocks, Remove, SyncDisconnect,
           RequestConnect, StorePending, SyncStep, InstallClosure, Disconnect,
           Answer, AwaitTimeout, ClearClosure, Recheck, DestroyClient,
           stillSync, callbackVars, clientVars
  <1>2. CASE Connect
    <2>0. userPc \in {"connect", "store"} /\ UNCHANGED events
      BY <1>2 DEF Connect, RequestConnect, StorePending, UserGoto, libraryVars
    <2>1. /\ devPc = "construct" /\ devPc' \in {"construct", "wait"}
          /\ UNCHANGED <<events, notOwner, swapped, told>> /\ ~told
      <3>1. devPc = "construct"
        BY <2>0 DEF IInv, DevTypeOK, FInv, Phases
      <3> QED
        BY <1>2, <2>0, <3>1 DEF Connect, DevGoto, devRest, FInv, Phases
    <2>2. (IsUp' <=> IsUp) /\ Phases'
      BY <1>2, <2>1 DEF Connect, RequestConnect, StorePending, UserGoto,
           FInv, Phases, IsUp, libraryVars, DevGoto
    <2>3. NewsIsTrue' /\ StatusIsTrue'
      BY <1>1, <2>1, <2>2 DEF FInv, NewsIsTrue, StatusIsTrue, Alive, NoNews,
                              LastNews, InProgress
    <2> QED
      BY <2>2, <2>3 DEF FInv
  <1>3. CASE WaitConnected \/ WaitTimeout
    BY <1>1, <1>3 DEF WaitConnected, WaitTimeout, DevGoto, devRest, notOwner,
         clientVars, libraryVars, FInv, Phases, NewsIsTrue, StatusIsTrue,
         Alive, NoNews, LastNews, InProgress, IsUp
  <1>4. CASE SwapCallback
    <2>1. /\ devPc = "swap" /\ devPc' = "live" /\ swapped' /\ ~told /\ ~told'
          /\ libPc' # "inside" /\ UNCHANGED <<userPc, link, events>>
      BY <1>1, <1>4 DEF SwapCallback, DevGoto, CbMtxFree, clientVars,
           libraryVars, FInv, Phases
    <2> QED
      BY <1>1, <2>1 DEF FInv, Phases, NewsIsTrue, StatusIsTrue, Alive, NoNews,
           LastNews, InProgress, IsUp
  <1>5. CASE ChangeFunctionBlocks
    BY <1>1, <1>5 DEF ChangeFunctionBlocks, notOwner, clientVars, libraryVars,
         FInv, Phases, NewsIsTrue, StatusIsTrue, Alive, NoNews, LastNews,
         InProgress, IsUp, StatusDue, ShowsConnected
  <1>6. CASE Remove
    <2>1. devPc' = "removed" /\ userPc' \in {"open", "install", "recheck"}
      BY <1>6 DEF Remove, DevGoto, SyncDisconnect, UserGoto
    <2> QED
      BY <2>1 DEF FInv, Phases, NewsIsTrue, StatusIsTrue, Alive
  <1>7. CASE Disconnecting
    <2>1. /\ userPc \in SyncPcs /\ devPc' = devPc
          /\ userPc' \in SyncPcs \cup {"open"}
      BY <1>7 DEF Disconnecting, SyncStep, InstallClosure, Disconnect, Answer,
           AwaitTimeout, ClearClosure, Recheck, UserGoto, SyncPcs, devVars
    <2>2. devPc' = "removed" /\ userPc' \notin {"connect", "store"}
      BY <2>1 DEF FInv, Phases, IInv, DevTypeOK, SyncPcs
    <2> QED
      BY <2>2 DEF FInv, Phases, NewsIsTrue, StatusIsTrue, Alive
  <1>8. CASE Destroy
    <2>1. /\ devPc' \in {"removed", "thrown"} /\ userPc' = "gone"
          /\ link' = "none" /\ UNCHANGED <<devPc, told>>
      BY <1>8 DEF Destroy, DestroyClient, UserGoto, devVars
    <2> QED
      BY <2>1 DEF FInv, Phases, NewsIsTrue, StatusIsTrue, Alive
  <1> QED
    BY <1>2, <1>3, <1>4, <1>5, <1>6, <1>7, <1>8 DEF OwnerThread

LEMMA StepFollows ==
  ASSUME IInv, FInv, [Next]_vars
  PROVE  FInv'
  <1>1. CASE LibraryThread
    BY <1>1, BeginFollows, CallbackFollows DEF LibraryThread
  <1>2. CASE OwnerThread \/ ChangeFunctionBlocks \/ Remove
    BY <1>2, OwnerFollows
  <1>3. CASE Library /\ UNCHANGED devVars
    BY <1>3, LibraryFollows
  <1>4. CASE UNCHANGED vars \/ Gone
    BY <1>4 DEF Gone, vars, clientVars, libraryVars, callbackVars, devVars,
         FInv, Phases, NewsIsTrue, StatusIsTrue, Alive, NoNews, LastNews,
         InProgress, IsUp, StatusDue, ShowsConnected
  <1> QED
    BY <1>1, <1>2, <1>3, <1>4 DEF Next

\* From the first callback that the created device receives the connection
\* status is that of the connection, whenever the library has told all it
\* has to tell: no reconnection is overtaken and none is missed.
THEOREM StatusIsFaithful == Spec => []StatusFollowsConnection
  <1>1. Init => FInv
    BY DEF Init, ClientInit, FInv, Phases, NewsIsTrue, StatusIsTrue, Alive,
           NoNews, LastNews, InProgress, IsUp
  <1>2. FInv => StatusFollowsConnection
    BY DEF FInv, StatusIsTrue, StatusFollowsConnection, Quiet, NoNews,
           InProgress, ShowsConnected
  <1> QED
    BY <1>1, <1>2, StepFollows, DeviceInvariance, PTL DEF Spec

=============================================================================

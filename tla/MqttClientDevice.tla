-------------------------- MODULE MqttClientDevice --------------------------
(***************************************************************************)
(* MqttClientDeviceImpl on top of MqttAsyncClient: the device is created   *)
(* by connecting and waiting for the connection, shows two statuses that   *)
(* the client's callbacks set, and disconnects when it is removed.         *)
(* It sets two callbacks for "connected", one after the other: the first   *)
(* acts once and tells the constructor, the second replaces it when the    *)
(* constructor has stopped waiting.                                        *)
(***************************************************************************)
EXTENDS MqttAsyncClient

VARIABLES
  devPc,             \* construct, wait, swap, live, thrown, removed
  connectedPromise,  \* the promise the constructor waits for is set
  connectedDone,     \* the first callback has acted
  swapped,           \* the second callback has replaced the first
  todo,              \* what the device's callback still does
  connectionStatus,  \* "Reconnecting" or "Connected" (ConfigurationStatus)
  componentStatus,   \* "Ok" or "Error"
  told               \* the created device has had a callback

devVars == <<devPc, connectedPromise, connectedDone, swapped, todo,
             connectionStatus, componentStatus, told>>
statuses == <<connectionStatus, componentStatus>>
vars == <<clientVars, devVars>>

\* What the device's callbacks, and what its owner's thread, never write.
notCallback == <<devPc, swapped>>
notOwner == <<connectedPromise, connectedDone, todo, connectionStatus>>

-----------------------------------------------------------------------------
Init ==
  /\ ClientInit
  /\ devPc = "construct"
  /\ connectedPromise = FALSE /\ connectedDone = FALSE
  /\ swapped = FALSE /\ todo = <<>>
  /\ connectionStatus = "Reconnecting" /\ componentStatus = "Ok"
  /\ told = FALSE

-----------------------------------------------------------------------------
(* The device's callbacks, on the library's thread, with cbMtx held.       *)

\* What a callback of the client does in the device, step by step. The first
\* callback for "connected" acts once, and tells the constructor.
DeviceCallback ==
  CASE event = "connectionLost" -> <<"status", "component">>
    [] event = "connected" /\ swapped -> <<"status", "component">>
    [] event = "connected" /\ ~swapped /\ ~connectedDone ->
         <<"status", "promise", "component">>
    [] OTHER -> <<>>

EnterCallback ==
  /\ LockCallbacks
  /\ todo' = DeviceCallback
  /\ connectedDone' = (connectedDone \/ (event = "connected" /\ ~swapped))
  /\ UNCHANGED <<notCallback, connectedPromise, statuses, told>>

NextToDo(step) == todo # <<>> /\ Head(todo) = step /\ todo' = Tail(todo)

\* Mutant of SetConnectionStatus: it takes the value for the other status.
SetConnectionStatusOk ==
  /\ NextToDo("status")
  /\ connectionStatus' = IF event = "connected" THEN "Ok" ELSE "Reconnecting"
  /\ UNCHANGED <<clientVars, notCallback, connectedPromise, connectedDone,
                 componentStatus, told>>

SetConnectionStatus ==
  /\ NextToDo("status")
  /\ connectionStatus' = IF event = "connected" THEN "Connected"
                         ELSE "Reconnecting"
  /\ UNCHANGED <<clientVars, notCallback, connectedPromise, connectedDone,
                 componentStatus, told>>

SetPromise ==
  /\ NextToDo("promise")
  /\ connectedPromise' = TRUE
  /\ UNCHANGED <<clientVars, notCallback, connectedDone, statuses, told>>

\* Mutant of SetComponentStatus: "Connection lost" is never taken back.
SetComponentStatusSticky ==
  /\ NextToDo("component")
  /\ componentStatus' = IF event = "connected" THEN componentStatus ELSE "Error"
  /\ told' = (devPc = "live")
  /\ UNCHANGED <<clientVars, notCallback, connectedPromise, connectedDone,
                 connectionStatus>>

SetComponentStatus ==
  /\ NextToDo("component")
  /\ componentStatus' = IF event = "connected" THEN "Ok" ELSE "Error"
  /\ told' = (devPc = "live")
  /\ UNCHANGED <<clientVars, notCallback, connectedPromise, connectedDone,
                 connectionStatus>>

LeaveCallback == todo = <<>> /\ EndCallback /\ UNCHANGED devVars

LibraryThread ==
  \/ (BeginCallback \/ ResetPending) /\ UNCHANGED devVars
  \/ EnterCallback \/ LeaveCallback
  \/ SetConnectionStatus \/ SetPromise \/ SetComponentStatus

-----------------------------------------------------------------------------
(* The owner's thread.                                                     *)

DevGoto(from, to) == devPc = from /\ devPc' = to

devRest == <<notOwner, swapped, componentStatus, told>>

\* initMqttSubscriber: what connect returns is not looked at.
Connect ==
  /\ RequestConnect \/ StorePending
  /\ IF userPc' = "open" THEN DevGoto("construct", "wait") ELSE UNCHANGED devPc
  /\ UNCHANGED devRest

\* waitForConnection: until the promise is set or the time is over.
WaitConnected ==
  /\ DevGoto("wait", "swap") /\ connectedPromise
  /\ UNCHANGED <<clientVars, devRest>>

\* Mutant of WaitTimeout: nobody looks at what waitForConnection returns.
WaitTimeoutIgnored ==
  /\ DevGoto("wait", "swap") /\ ~connectedPromise
  /\ UNCHANGED <<clientVars, devRest>>

\* Mutant of WaitTimeout: wait instead of wait_for.
WaitTimeoutNever == FALSE /\ UNCHANGED vars

WaitTimeout ==
  /\ DevGoto("wait", "thrown") /\ ~connectedPromise
  /\ UNCHANGED <<clientVars, devRest>>

\* Mutant of SwapCallback: the first callback stays.
SwapCallbackNot ==
  /\ DevGoto("swap", "live")
  /\ CbMtxFree
  /\ UNCHANGED <<clientVars, notOwner, swapped, componentStatus, told>>

\* setConnectedCb with the second callback, and the constructor returns.
\* (After a time-out the callback is replaced too, but the device is thrown
\* away.)
SwapCallback ==
  /\ DevGoto("swap", "live")
  /\ CbMtxFree
  /\ swapped' = TRUE
  /\ UNCHANGED <<clientVars, notOwner, componentStatus, told>>

\* onAddFunctionBlock and onRemoveFunctionBlock.
ChangeFunctionBlocks ==
  /\ devPc = "live"
  /\ componentStatus' = "Ok"
  /\ UNCHANGED <<clientVars, devPc, notOwner, swapped, told>>

\* removed.
Remove ==
  /\ DevGoto("live", "removed")
  /\ SyncDisconnect
  /\ UNCHANGED devRest

Disconnecting == SyncStep /\ UNCHANGED devVars

\* The destructor, after removed or when the constructor has thrown. (What a
\* callback still does to a device that is destroyed is not modelled.)
Destroy ==
  /\ devPc \in {"removed", "thrown"}
  /\ libPc # "inside"
  /\ DestroyClient
  /\ UNCHANGED devVars

OwnerThread == Connect \/ WaitConnected \/ WaitTimeout \/ SwapCallback
               \/ Disconnecting \/ Destroy

Gone == userPc = "gone" /\ UNCHANGED vars

Next ==
  \/ Library /\ UNCHANGED devVars
  \/ LibraryThread
  \/ OwnerThread
  \/ ChangeFunctionBlocks \/ Remove
  \/ Gone

(***************************************************************************)
(* Fairness: both threads are scheduled; a wait ends at its deadline;      *)
(* cbMtx is handed to the owner's thread however often the library calls   *)
(* back. Nothing is assumed of the broker or the network.                  *)
(***************************************************************************)
Spec ==
  /\ Init /\ [][Next]_vars
  /\ WF_vars(LibraryThread) /\ SF_vars(OwnerThread)

-----------------------------------------------------------------------------
(* Properties.                                                             *)

\* Every variable has its type.
TypeOK ==
  /\ ClientTypeOK
  /\ devPc \in {"construct", "wait", "swap", "live", "thrown", "removed"}
  /\ connectedPromise \in BOOLEAN /\ connectedDone \in BOOLEAN
  /\ swapped \in BOOLEAN /\ told \in BOOLEAN
  /\ todo \in Seq({"status", "promise", "component"})
  /\ connectionStatus \in {"Reconnecting", "Connected"}
  /\ componentStatus \in {"Ok", "Error"}

\* A device that has been created shows "Connected", unless a connection was
\* refused or lost meanwhile: the status is set before the constructor is
\* told.
CreatedMeansConnected ==
  devPc = "live" /\ faults = 0 =>
    connectionStatus = "Connected" /\ componentStatus = "Ok"

\* The constructor ends, with a device or with an exception, also when the
\* broker never answers and connect has failed unnoticed.
CreationEnds == (devPc = "construct") ~> (devPc \in {"live", "thrown"})

\* Both calls that wait for the library return: the constructor, and
\* syncDisconnect in the removal and the destructor.
WaitingEnds == CreationEnds /\ SyncDisconnectReturns

\* From the first callback that the created device receives, and while it is
\* not removed, the connection status is that of the connection. Before that it
\* may not be: a connection lost and re-established before SwapCallback reaches
\* the constructor's callback, which has already acted.
StatusFollowsConnection ==
  devPc = "live" /\ told /\ Quiet => (connectionStatus = "Connected" <=> IsUp)

\* "Connection lost" is taken back with the connection: no created device is
\* in error while it shows that it is connected.
ErrorMeansReconnecting ==
  Quiet /\ componentStatus = "Error" => connectionStatus = "Reconnecting"

=============================================================================

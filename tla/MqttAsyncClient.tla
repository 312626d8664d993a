-------------------------- MODULE MqttAsyncClient --------------------------
(***************************************************************************)
(* MqttAsyncClient: the wrapper around one handle of the Paho MQTT library.*)
(* Its owner's thread connects, asks isConnected and disconnects; the      *)
(* library's thread calls it back. cbMtx guards the callbacks the owner    *)
(* has set; pendingConnect is an atomic flag that both threads write.      *)
(*                                                                         *)
(* The library is external. What is assumed of it is what the wrapper is   *)
(* written for: it reconnects by itself, it runs one callback at a time,   *)
(* in the order in which things happened to the connection, and after      *)
(* MQTTAsync_destroy it begins none.                                       *)
(***************************************************************************)
EXTENDS Naturals, Sequences

CONSTANT MaxFaults  \* bound: how often a connection is refused or lost

ASSUME ClientAssumption == MaxFaults \in Nat

VARIABLES
  userPc,         \* where the owner's thread is
  link,           \* the library: its handle and its connection
  events,         \* the library: callbacks that are due, oldest first
  faults,         \* the library: connections refused or lost so far
  libPc,          \* where the library's thread is in a callback
  event,          \* the callback it runs
  pendingConnect,
  onInternalDisconnectCb, \* syncDisconnect's closure is set
  closureRuns,    \* the callback that runs is calling that closure
  answered        \* the promise on syncDisconnect's stack is set

libraryVars == <<link, events, faults>>
callbackVars == <<libPc, event, closureRuns>>
promiseVars == <<onInternalDisconnectCb, answered>>
clientVars == <<userPc, libraryVars, callbackVars, pendingConnect, promiseVars>>

-----------------------------------------------------------------------------
Links == {"none", "idle", "trying", "up", "retry", "closing"}
DisconnectEvents == {"disconnectSuccess", "disconnectFailure"}
Events == {"connectSuccess", "connectFailure", "connected", "connectionLost"}
            \cup DisconnectEvents

\* The steps of syncDisconnect; those in which its promise is on the stack.
SyncPcs == {"install", "request", "await", "clear", "recheck"}
PromiseLives == userPc \in {"request", "await", "clear"}

IsUp == link \in {"up", "closing"}          \* MQTTAsync_isConnected
isConnected == IF pendingConnect THEN "pending"
               ELSE IF IsUp THEN "connected" ELSE "not_connected"

CbMtxFree == libPc # "inside"

ClientInit ==
  /\ userPc = "connect"
  /\ link = "none" /\ events = <<>> /\ faults = 0
  /\ libPc = "quiet" /\ event = "connected" /\ closureRuns = FALSE
  /\ pendingConnect = FALSE
  /\ onInternalDisconnectCb = FALSE /\ answered = FALSE

-----------------------------------------------------------------------------
(* The library's connection (external).                                    *)

Happens(from, to, cbs) ==
  /\ link = from /\ link' = to
  /\ events' = events \o cbs
  /\ UNCHANGED <<userPc, callbackVars, pendingConnect, promiseVars>>

\* The first connection is reported twice, by onSuccess and by onConnected.
Accepted == Happens("trying", "up", <<"connectSuccess", "connected">>)
            /\ UNCHANGED faults

Fault == faults < MaxFaults /\ faults' = faults + 1

\* Whether the library goes on trying after a first refusal is left open.
Refused ==
  /\ Fault
  /\ \E to \in {"idle", "retry"} : Happens("trying", to, <<"connectFailure">>)

Lost ==
  /\ Fault
  /\ \/ Happens("up", "retry", <<"connectionLost">>)
     \/ Happens("closing", "idle", <<"connectionLost", "disconnectFailure">>)

\* automaticReconnect.
Reconnected == Happens("retry", "up", <<"connected">>) /\ UNCHANGED faults

Disconnected ==
  Happens("closing", "idle", <<"disconnectSuccess">>) /\ UNCHANGED faults

Library == Accepted \/ Refused \/ Lost \/ Reconnected \/ Disconnected

-----------------------------------------------------------------------------
(* The library's thread in a callback of the wrapper.                      *)

\* A callback begins: the disconnect callbacks do not touch pendingConnect.
BeginCallback ==
  /\ libPc = "quiet" /\ events # <<>>
  /\ event' = Head(events) /\ events' = Tail(events)
  /\ libPc' = IF Head(events) \in DisconnectEvents THEN "lock" ELSE "flag"
  /\ UNCHANGED <<userPc, link, faults, closureRuns, pendingConnect,
                 promiseVars>>

\* onConnected, onConnectionLost and the results of connect reset the flag
\* without cbMtx. The results of connect do nothing else.
ResetPending ==
  /\ libPc = "flag"
  /\ pendingConnect' = FALSE
  /\ libPc' = IF event \in {"connected", "connectionLost"} THEN "lock"
              ELSE "quiet"
  /\ UNCHANGED <<userPc, libraryVars, event, closureRuns, promiseVars>>

\* getCbLock; a disconnect callback looks for syncDisconnect's closure.
LockCallbacks ==
  /\ libPc = "lock" /\ libPc' = "inside"
  /\ closureRuns' = (event \in DisconnectEvents /\ onInternalDisconnectCb)
  /\ UNCHANGED <<userPc, libraryVars, event, pendingConnect, promiseVars>>

\* The end of a callback: the closure has set the promise.
EndCallback ==
  /\ libPc = "inside" /\ libPc' = "quiet"
  /\ answered' = (answered \/ closureRuns)
  /\ closureRuns' = FALSE
  /\ UNCHANGED <<userPc, libraryVars, event, pendingConnect,
                 onInternalDisconnectCb>>

-----------------------------------------------------------------------------
(* The owner's thread.                                                     *)

UserGoto(from, to) == userPc = from /\ userPc' = to

\* connect: a handle that is there is destroyed first ...
Reconnect ==
  /\ UserGoto("open", "connect")
  /\ link' = "none" /\ events' = <<>>
  /\ UNCHANGED <<faults, callbackVars, pendingConnect, promiseVars>>

\* ... then one is created and the connection requested ...
RequestConnect ==
  /\ \/ UserGoto("connect", "store") /\ link' = "trying"
     \/ UserGoto("connect", "open") /\ link' \in {"none", "idle"}
  /\ UNCHANGED <<events, faults, callbackVars, pendingConnect, promiseVars>>

\* ... and when the request was accepted the flag is set.
StorePending ==
  /\ UserGoto("store", "open")
  /\ pendingConnect' = TRUE
  /\ UNCHANGED <<libraryVars, callbackVars, promiseVars>>

\* syncDisconnect begins. (Without a handle there is nothing to do.)
SyncDisconnect ==
  /\ \/ link = "none" /\ UserGoto("open", "open")
     \/ /\ link # "none" /\ isConnected # "not_connected"
        /\ UserGoto("open", "install")
     \/ /\ link # "none" /\ isConnected = "not_connected"
        /\ UserGoto("open", "recheck")
  /\ UNCHANGED <<libraryVars, callbackVars, pendingConnect, promiseVars>>

\* The closure that sets the promise is installed, under cbMtx.
InstallClosure ==
  /\ UserGoto("install", "request")
  /\ CbMtxFree
  /\ onInternalDisconnectCb' = TRUE /\ answered' = FALSE
  /\ UNCHANGED <<libraryVars, callbackVars, pendingConnect>>

\* disconnect: the request is queued. Without a connection the library says
\* so, calls nobody back and stops reconnecting (an attempt in progress may
\* still succeed); the wrapper takes that for success. Or it is refused.
Disconnect(from, accepted, refused) ==
  /\ \/ UserGoto(from, accepted) /\ IsUp /\ link' = "closing"
     \/ /\ UserGoto(from, accepted) /\ ~IsUp
        /\ link' \in IF link = "retry" THEN {"retry", "idle"} ELSE {link}
     \/ UserGoto(from, refused) /\ UNCHANGED link
  /\ UNCHANGED <<events, faults, callbackVars, pendingConnect, promiseVars>>

stillSync == <<libraryVars, callbackVars, pendingConnect, promiseVars>>

Answer == answered /\ UserGoto("await", "clear") /\ UNCHANGED stillSync

\* Mutant of AwaitTimeout: wait instead of wait_for.
AwaitTimeoutNever == FALSE /\ UNCHANGED clientVars

\* wait_for is over: the answer may still come.
AwaitTimeout == UserGoto("await", "clear") /\ UNCHANGED stillSync

\* Mutant of ClearClosure: the closure is cleared without cbMtx.
ClearClosureUnlocked ==
  /\ UserGoto("clear", "recheck")
  /\ onInternalDisconnectCb' = FALSE
  /\ UNCHANGED <<libraryVars, callbackVars, pendingConnect, answered>>

\* The closure goes, under cbMtx, before the promise does.
ClearClosure ==
  /\ UserGoto("clear", "recheck")
  /\ CbMtxFree
  /\ onInternalDisconnectCb' = FALSE
  /\ UNCHANGED <<libraryVars, callbackVars, pendingConnect, answered>>

\* Mutant of Recheck: the handle is not null after it has been destroyed.
RecheckDangling ==
  /\ UserGoto("recheck", "open")
  /\ \/ isConnected = "not_connected" /\ link' = "dangling" /\ events' = <<>>
     \/ isConnected # "not_connected" /\ UNCHANGED <<link, events>>
  /\ UNCHANGED <<faults, callbackVars, pendingConnect, promiseVars>>

\* When the connection is gone the handle is destroyed, else it is kept.
Recheck ==
  /\ UserGoto("recheck", "open")
  /\ \/ isConnected = "not_connected" /\ link' = "none" /\ events' = <<>>
     \/ isConnected # "not_connected" /\ UNCHANGED <<link, events>>
  /\ UNCHANGED <<faults, callbackVars, pendingConnect, promiseVars>>

\* The destructor.
DestroyClient ==
  /\ UserGoto("open", "gone")
  /\ link' = "none" /\ events' = <<>>
  /\ UNCHANGED <<faults, callbackVars, pendingConnect, promiseVars>>

-----------------------------------------------------------------------------
(* The client by itself: its owner calls it in any order.                  *)

LibraryCallback == BeginCallback \/ ResetPending \/ LockCallbacks \/ EndCallback

SyncStep ==
  \/ InstallClosure \/ Disconnect("request", "await", "clear")
  \/ Answer \/ AwaitTimeout \/ ClearClosure \/ Recheck

OwnerCall ==
  \/ Reconnect \/ RequestConnect \/ StorePending
  \/ SyncDisconnect \/ Disconnect("open", "open", "open")
  \/ DestroyClient

ClientGone == userPc = "gone" /\ UNCHANGED clientVars

ClientNext == Library \/ LibraryCallback \/ SyncStep \/ OwnerCall \/ ClientGone

(***************************************************************************)
(* Fairness: both threads are scheduled; a wait ends at its deadline;      *)
(* cbMtx is handed to the owner's thread however often the library calls   *)
(* back. Nothing is assumed of the broker, the network or the owner.       *)
(***************************************************************************)
ClientSpec ==
  /\ ClientInit /\ [][ClientNext]_clientVars
  /\ WF_clientVars(LibraryCallback) /\ SF_clientVars(SyncStep)

-----------------------------------------------------------------------------
(* Properties.                                                             *)

\* Every variable of the client has its type.
ClientTypeOK ==
  /\ userPc \in {"connect", "store", "open", "gone"} \cup SyncPcs
  /\ link \in Links /\ events \in Seq(Events) /\ faults \in 0..MaxFaults
  /\ libPc \in {"quiet", "flag", "lock", "inside"} /\ event \in Events
  /\ pendingConnect \in BOOLEAN
  /\ onInternalDisconnectCb \in BOOLEAN
  /\ closureRuns \in BOOLEAN /\ answered \in BOOLEAN

\* syncDisconnect's closure, which points into its stack frame, never runs
\* and is never left behind when the frame is gone, however late the answer.
PromiseOutlivesClosure == closureRuns \/ onInternalDisconnectCb => PromiseLives

\* syncDisconnect returns, also when the library never answers.
SyncDisconnectReturns ==
  (userPc \in SyncPcs) ~> (userPc \in {"open", "gone"})

\* The library has nothing more to tell.
Quiet == libPc = "quiet" /\ events = <<>>
=============================================================================

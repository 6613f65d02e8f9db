----------------------------- MODULE IpcServer ------------------------------
(***************************************************************************)
(* The IPC service of the sysmodule: its session table                     *)
(* (sysmodule/lib/nxExt/src/ipc_server.c), the thread that serves it       *)
(* (sysmodule/src/ipc_service.cpp) and how main starts it and takes it     *)
(* down (sysmodule/src/main.cpp).                                          *)
(*                                                                         *)
(* One thread waits on the port and on every session, accepts a client or  *)
(* serves one request, and waits again.  Clients connect, ask and go away  *)
(* at any point, also while a request of theirs is being served.  The exit *)
(* request is served by that thread and ends in main waiting for it.       *)
(*                                                                         *)
(* What a request asks for is abstracted to how the server treats it.  The *)
(* kernel is modelled as the code relies on it: a wait prefers an object   *)
(* that is ready to a cancellation, a cancellation that finds no wait is   *)
(* kept for the next one, and the port admits max_sessions sessions.       *)
(***************************************************************************)
EXTENDS Naturals, Sequences, FiniteSets

CONSTANTS
    Sessions,       \* sessions that may exist at a time
    max_sessions    \* as passed to ipcServerInit

ASSUME SessionsAssumption ==
    /\ IsFiniteSet(Sessions)
    /\ "none" \notin Sessions
    /\ max_sessions \in Nat \ {0}

VARIABLES
    \* the kernel
    connecting,     \* sessions waiting at the port, in order
    clientOpen,     \* sessions whose client has not closed its end
    serverOpen,     \* sessions the server has a handle for
    message,        \* per session, the request its client waits for an answer to
    cancelled,      \* a cancellation the IPC thread has not noticed
    portOpen,
    \* IpcServer
    handles,        \* server->handles[1 .. count - 1]; handles[0] is the port
    \* the IPC thread
    pc,             \* the call it is about to make
    handleIndex,    \* the object it was woken for, 0 for the port
    session,        \* the session it has accepted
    \* the main thread
    main,           \* where it is
    managerRunning  \* ClockManager's running

kernelVars == <<connecting, clientOpen, serverOpen, message, cancelled, portOpen>>
threadVars == <<pc, handleIndex, session>>
mainVars   == <<main, managerRunning>>
vars == <<kernelVars, handles, threadVars, mainVars>>

\* A valid command, the exit command, the end of the session, another type
\* of message, and a command with a header that does not parse.
Requests == {"command", "exit", "close", "control", "garbled"}

PCs     == {"unstarted", "wait", "accept", "add", "receive", "reply", "closing", "returned"}
MainPCs == {"starting", "ticking", "joining", "freeing", "deleted"}

TypeOK ==
    /\ connecting \in Seq(Sessions)
    /\ clientOpen \in SUBSET Sessions
    /\ serverOpen \in SUBSET Sessions
    /\ message \in [Sessions -> Requests \cup {"none"}]
    /\ cancelled \in BOOLEAN
    /\ portOpen \in BOOLEAN
    /\ handles \in Seq(Sessions)
    /\ pc \in PCs
    /\ handleIndex \in Nat
    /\ session \in Sessions \cup {"none"}
    /\ main \in MainPCs
    /\ managerRunning \in BOOLEAN

Elements(seq) == {seq[i] : i \in DOMAIN seq}

(* Sessions that count against the limit of the port.                      *)
Existing == clientOpen \cup serverOpen \cup Elements(connecting)
-----------------------------------------------------------------------------
(* ClockManager::SetRunning(true) and the constructor of IpcService.       *)
Init ==
    /\ connecting = <<>>
    /\ clientOpen = {}
    /\ serverOpen = {}
    /\ message = [s \in Sessions |-> "none"]
    /\ cancelled = FALSE
    /\ portOpen = TRUE
    /\ handles = <<>>
    /\ pc = "unstarted"
    /\ handleIndex = 0
    /\ session = "none"
    /\ main = "starting"
    /\ managerRunning = TRUE
-----------------------------------------------------------------------------
(* server->max counts the port.                                            *)
max == max_sessions + 1

(* Mutant of TableFull: the port's own handle is forgotten.                *)
FullWithoutPort == Len(handles) + 1 >= max_sessions

(* _ipcServerAddSession; server->count counts the port.                    *)
TableFull == Len(handles) + 1 >= max

(* Mutant of Remove: the last session is dropped from the table.           *)
RemoveLast(i) == SubSeq(handles, 1, Len(handles) - 1)

(* _ipcServerDeleteSession moves every later handle down.                  *)
Remove(i) == SubSeq(handles, 1, i - 1) \o SubSeq(handles, i + 1, Len(handles))

(* Mutant of Ready: the last handle of the table is not waited for.        *)
ReadyButLast ==
    (IF connecting # <<>> THEN {0} ELSE {})
    \cup {i \in 1..(Len(handles) - 1) :
             message[handles[i]] # "none" \/ handles[i] \notin clientOpen}

(* A session is ready when a request or the end of its client is to be     *)
(* noticed, the port when a client waits at it.                            *)
Ready ==
    (IF connecting # <<>> THEN {0} ELSE {})
    \cup {i \in DOMAIN handles : message[handles[i]] # "none" \/ handles[i] \notin clientOpen}

(* svcWaitSynchronization in ipcServerProcess.                             *)
WaitSynchronization ==
    /\ pc = "wait"
    /\ handleIndex' \in Ready
    /\ pc' = IF handleIndex' = 0 THEN "accept" ELSE "receive"
    /\ UNCHANGED <<kernelVars, handles, session, mainVars>>

(* Mutant of WaitCancelled: the thread takes it for any other error.       *)
CancelIgnored ==
    /\ pc = "wait" /\ Ready = {} /\ cancelled
    /\ cancelled' = FALSE
    /\ UNCHANGED <<connecting, clientOpen, serverOpen, message, portOpen, handles, threadVars,
                   mainVars>>

(* ProcessThreadFunc returns when its wait was cancelled.                  *)
WaitCancelled ==
    /\ pc = "wait" /\ Ready = {} /\ cancelled
    /\ cancelled' = FALSE
    /\ pc' = "returned"
    /\ UNCHANGED <<connecting, clientOpen, serverOpen, message, portOpen, handles, handleIndex,
                   session, mainVars>>

(* _ipcServerProcessNewSession: svcAcceptSession gives the session a       *)
(* handle, _ipcServerAddSession puts it into the table or fails.           *)
AcceptSession ==
    /\ pc = "accept"
    /\ session' = Head(connecting)
    /\ connecting' = Tail(connecting)
    /\ serverOpen' = serverOpen \cup {session'}
    /\ pc' = "add"
    /\ UNCHANGED <<clientOpen, message, cancelled, portOpen, handles, handleIndex, mainVars>>

AddSession ==
    /\ pc = "add"
    /\ IF TableFull
       THEN serverOpen' = serverOpen \ {session} /\ UNCHANGED handles
       ELSE handles' = Append(handles, session) /\ UNCHANGED serverOpen
    /\ session' = "none"
    /\ pc' = "wait"
    /\ UNCHANGED <<connecting, clientOpen, message, cancelled, portOpen, handleIndex, mainVars>>

DeleteSession ==
    /\ serverOpen' = serverOpen \ {handles[handleIndex]}
    /\ handles' = Remove(handleIndex)

(* _ipcServerProcessSession up to the response: a client that is gone or   *)
(* sends garbage loses its session without one.  The handlers of           *)
(* ServiceHandlerFunc are the actions Ipc of ClockManager; here only       *)
(* IpcService::Exit matters.                                               *)
ReceiveRequest ==
    LET s == handles[handleIndex]
    IN  /\ pc = "receive"
        /\ IF s \notin clientOpen \/ message[s] = "garbled"
           THEN DeleteSession /\ pc' = "wait" /\ UNCHANGED managerRunning
           ELSE /\ pc' = IF message[s] = "close" THEN "closing" ELSE "reply"
                /\ managerRunning' = (managerRunning /\ message[s] # "exit")
                /\ UNCHANGED <<serverOpen, handles>>
        /\ UNCHANGED <<connecting, clientOpen, message, cancelled, portOpen, handleIndex,
                       session, main>>

(* svcReplyAndReceive without anything to receive: it sends the response   *)
(* and times out at once, or finds the client gone.                        *)
Reply ==
    LET s == handles[handleIndex]
    IN  /\ pc \in {"reply", "closing"}
        /\ message' = [message EXCEPT ![s] = "none"]
        /\ IF s \notin clientOpen \/ pc = "closing"
           THEN DeleteSession
           ELSE UNCHANGED <<serverOpen, handles>>
        /\ pc' = "wait"
        /\ UNCHANGED <<connecting, clientOpen, cancelled, portOpen, handleIndex, session, mainVars>>

IpcThread ==
    \/ WaitSynchronization \/ WaitCancelled \/ AcceptSession \/ AddSession
    \/ ReceiveRequest \/ Reply
-----------------------------------------------------------------------------
(* main starts the thread, ticks until ClockManager is told to stop, then  *)
(* takes the service down before it deletes the clock manager.             *)
StartService ==
    /\ main = "starting"
    /\ main' = "ticking"
    /\ pc' = "wait"
    /\ UNCHANGED <<kernelVars, handles, handleIndex, session, managerRunning>>

(* IpcService::SetRunning(false) *)
StopService ==
    /\ main = "ticking"
    /\ ~managerRunning
    /\ cancelled' = TRUE
    /\ main' = "joining"
    /\ UNCHANGED <<connecting, clientOpen, serverOpen, message, portOpen, handles, threadVars,
                   managerRunning>>

(* Mutant of JoinService: main does not wait for the thread.               *)
ServiceDetached ==
    /\ main = "joining"
    /\ main' = "freeing"
    /\ UNCHANGED <<kernelVars, handles, threadVars, managerRunning>>

JoinService ==
    /\ main = "joining"
    /\ pc = "returned"
    /\ main' = "freeing"
    /\ UNCHANGED <<kernelVars, handles, threadVars, managerRunning>>

(* ipcServerExit closes the port and every session of the table; then      *)
(* ClockManager::Exit deletes the manager.                                 *)
FreeService ==
    /\ main = "freeing"
    /\ serverOpen' = serverOpen \ Elements(handles)
    /\ handles' = <<>>
    /\ portOpen' = FALSE
    /\ connecting' = <<>>
    /\ main' = "deleted"
    /\ UNCHANGED <<clientOpen, message, cancelled, threadVars, managerRunning>>

MainThread == StartService \/ StopService \/ JoinService \/ FreeService
-----------------------------------------------------------------------------
(* Clients: the overlay, ReverseNX-RT, anything else on the console.       *)
clientFrame == <<serverOpen, cancelled, portOpen, handles, threadVars, mainVars>>

Connect(s) ==
    /\ portOpen
    /\ s \notin Existing
    /\ Cardinality(Existing) < max_sessions
    /\ connecting' = Append(connecting, s)
    /\ clientOpen' = clientOpen \cup {s}
    /\ message' = [message EXCEPT ![s] = "none"]
    /\ UNCHANGED clientFrame

Send(s, request) ==
    /\ s \in clientOpen
    /\ s \in serverOpen \cup Elements(connecting)
    /\ message[s] = "none"
    /\ message' = [message EXCEPT ![s] = request]
    /\ UNCHANGED <<connecting, clientOpen, clientFrame>>

Disconnect(s) ==
    /\ s \in clientOpen
    /\ clientOpen' = clientOpen \ {s}
    /\ UNCHANGED <<connecting, message, clientFrame>>

Clients ==
    \E s \in Sessions :
        Connect(s) \/ Disconnect(s) \/ \E request \in Requests : Send(s, request)

Service == IpcThread \/ MainThread

Next == Service \/ Clients

(* Both threads are scheduled; no client is obliged to anything.           *)
Spec == Init /\ [][Next]_vars /\ WF_vars(IpcThread) /\ WF_vars(MainThread)
-----------------------------------------------------------------------------
(* ipc_server.c: what the table holds is what the server has open, each    *)
(* once.  A handle that is open and not in the table is never waited for   *)
(* again and its client never answered; one that is closed and in the      *)
(* table makes every later wait fail.                                      *)
TableIsOpen ==
    /\ Elements(handles) = serverOpen \ {session}
    /\ session \notin Elements(handles)
    /\ \A i, j \in DOMAIN handles : handles[i] = handles[j] => i = j

(* The kernel admits as many sessions as the table has room for: no client *)
(* that was let in is thrown out for want of an entry.                     *)
RoomForSession == pc = "add" => ~TableFull

(* Taking the service down: once the clock manager is deleted the IPC      *)
(* thread, whose handlers use it, has returned, and no session is left.    *)
NoHandlerAfterDelete == main = "deleted" => pc = "returned" /\ serverOpen = {}

AtRest == <>[][Service]_vars     \* the clients do nothing any more

(* An exit request, served by the thread main is going to wait for, ends   *)
(* the process, whatever the thread is doing when it is cancelled.         *)
ExitCompletes == AtRest => <>[](managerRunning \/ main = "deleted")

(* Every client that waits for an answer gets one or loses its session.    *)
EveryRequestEnds ==
    AtRest => <>[](\A s \in clientOpen :
                      message[s] # "none" /\ s \in serverOpen \cup Elements(connecting)
                      => main = "starting")
=============================================================================

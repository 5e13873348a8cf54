---------------------------- MODULE HostLifecycle ----------------------------
(***************************************************************************)
(* How host processes come and go, and how clients find them: the          *)
(* extension's NativeConnectionManager (src/extension/src/                 *)
(* native-connection.ts), which has Chrome start a host for every port it  *)
(* opens; the host's RunNativeHost with its HTTP server (src/internal/app, *)
(* src/internal/mcpserver); the discovery file the hosts share             *)
(* (src/internal/discovery); and the clients that read it                  *)
(* (src/internal/mcpclient).  What a call does in the browser is left to   *)
(* NativeBridge and PlanApply.                                             *)
(***************************************************************************)
EXTENDS Naturals

CONSTANTS
  MaxHosts,        (* bound: host processes Chrome starts                     *)
  Clients,         (* MCP client calls: a CLI command, or one through a proxy *)
  Addresses,       (* bound: the loopback ports the system gives out          *)
  None,            (* no host, no file                                        *)
  MaxRetries,      (* options.maxRetries                                      *)
  MaxCrashes,      (* bound: hosts that end without cleaning up               *)
  MaxErrors,       (* bound: hosts whose bridge ends with an error            *)
  MaxWriteErrors,  (* bound: discovery files that could not be written        *)
  MaxRemoveErrors, (* bound: discovery files that could not be removed        *)
  MaxWorkerStops   (* bound: ends of the service worker                       *)

Hosts == 1..MaxHosts

ASSUME NoneAssumption  == None \notin Hosts
ASSUME BoundAssumption ==
  {MaxHosts, MaxRetries, MaxCrashes, MaxErrors, MaxWriteErrors, MaxRemoveErrors, MaxWorkerStops} \subseteq Nat

VARIABLES
  browser,  (* whether Chrome is running                                       *)
  manager,  (* the connection manager, gone with the service worker            *)
  port,     (* NativeConnectionManager.port: the host it is connected to       *)
  host,     (* where each host process is                                      *)
  stdin,    (* the hosts whose stdin Chrome has not closed                     *)
  address,  (* where each host listens, or has listened                        *)
  file,     (* the host the discovery file names                               *)
  client,   (* each client call: where it is, the host whose endpoint and token
               it has found, and the host it talks to                         *)
  unclean,  (* history: the hosts that have ended without seeing to the file   *)
  spent     (* how much of each bound is used up                               *)

extension == <<browser, manager, port>>
vars      == <<extension, host, stdin, address, file, client, unclean, spent>>

Manager == [loaded : BOOLEAN, retryCount : 0..MaxRetries, retryTimer : BOOLEAN]
Stages  == {"none", "starting", "serving", "stopping", "checking", "removing", "gone"}
Phases  == {"idle", "resolved", "calling", "ok", "BROWSER_DISCONNECTED"}

TypeOK ==
  /\ browser \in BOOLEAN
  /\ manager \in Manager
  /\ port \in Hosts \cup {None}
  /\ host \in [Hosts -> Stages]
  /\ stdin \subseteq Hosts
  /\ file \in Hosts \cup {None}
  /\ address \in [Hosts -> Addresses \cup {None}]
  /\ client \in [Clients -> [phase : Phases, found : Hosts \cup {None}, at : Hosts \cup {None}]]
  /\ unclean \subseteq Hosts
  /\ spent \in [crashes : 0..MaxCrashes, errors : 0..MaxErrors, writes : 0..MaxWriteErrors,
               removals : 0..MaxRemoveErrors, stops : 0..MaxWorkerStops]

Unloaded == [loaded |-> FALSE, retryCount |-> 0, retryTimer |-> FALSE]

-----------------------------------------------------------------------------
(* The connection manager.                                                 *)

\* connect(): Chrome starts one more host.
Connect ==
  \E h \in Hosts :
    /\ host[h] = "none"
    /\ \A g \in Hosts : host[g] = "none" => h <= g
    /\ port' = h
    /\ host' = [host EXCEPT ![h] = "starting"]
    /\ stdin' = stdin \cup {h}

\* The service worker starts: its module makes a manager and calls start().
LoadWorker ==
  /\ browser
  /\ ~manager.loaded
  /\ manager' = [Unloaded EXCEPT !.loaded = TRUE]
  /\ Connect
  /\ UNCHANGED <<browser, address, file, client, unclean, spent>>

\* The service worker ends, with its port and its timer; so it does with Chrome.
StopWorker ==
  /\ manager.loaded
  /\ \/ /\ spent.stops < MaxWorkerStops
        /\ spent' = [spent EXCEPT !.stops = @ + 1]
        /\ UNCHANGED browser
     \/ /\ browser' = FALSE
        /\ UNCHANGED spent
  /\ manager' = Unloaded
  /\ port' = None
  /\ stdin' = stdin \ {port}
  /\ UNCHANGED <<host, address, file, client, unclean>>

\* Variants: a retry less, a retry more.
MayRetryOnceLess == manager.retryCount + 1 < MaxRetries
MayRetryOnceMore == manager.retryCount <= MaxRetries

\* scheduleRetry's condition; retryCount counts every retry since start().
MayRetry == manager.retryCount < MaxRetries

\* onDisconnect: Chrome has seen the host's process end.
OnDisconnect ==
  /\ manager.loaded
  /\ port # None
  /\ host[port] = "gone"
  /\ port' = None
  /\ stdin' = stdin \ {port}
  /\ manager' = IF MayRetry
                THEN [manager EXCEPT !.retryCount = @ + 1, !.retryTimer = TRUE] ELSE manager
  /\ UNCHANGED <<browser, host, address, file, client, unclean, spent>>

\* Variant: a connection gives the retries back.
RetryAfresh ==
  /\ manager.retryTimer
  /\ port = None
  /\ manager' = [Unloaded EXCEPT !.loaded = TRUE]
  /\ Connect
  /\ UNCHANGED <<browser, address, file, client, unclean, spent>>

\* The retry timer fires.
Retry ==
  /\ manager.retryTimer
  /\ port = None
  /\ manager' = [manager EXCEPT !.retryTimer = FALSE]
  /\ Connect
  /\ UNCHANGED <<browser, address, file, client, unclean, spent>>

-----------------------------------------------------------------------------
(* The host process.                                                       *)

\* mcpserver.Start: the listener is open and the discovery file renamed into
\* place; the host serves clients and runs its bridge.
Publish(h) ==
  /\ host[h] = "starting"
  /\ \E a \in Addresses :
       /\ \A g \in Hosts : host[g] = "serving" => address[g] # a
       /\ address' = [address EXCEPT ![h] = a]
  /\ file' = h
  /\ host' = [host EXCEPT ![h] = "serving"]
  /\ UNCHANGED <<extension, stdin, client, unclean, spent>>

\* discovery.Write fails and Start gives up, closing its listener.  The file is
\* not there yet; or it is already renamed into place, and it is the directory
\* that could not be synced: then it stays, naming a process that ends.
FailToPublish(h) ==
  /\ host[h] = "starting"
  /\ spent.writes < MaxWriteErrors
  /\ spent' = [spent EXCEPT !.writes = @ + 1]
  /\ host' = [host EXCEPT ![h] = "gone"]
  /\ \/ UNCHANGED <<file, address, unclean>>
     \/ /\ file' = h
        /\ unclean' = unclean \cup {h}
        /\ \E a \in Addresses : address' = [address EXCEPT ![h] = a]
  /\ UNCHANGED <<extension, stdin, client>>

\* Bridge.Run reads the end of stdin; RunningServer.Close closes the listener.
StopServing(h) ==
  /\ host[h] = "serving"
  /\ h \notin stdin
  /\ host' = [host EXCEPT ![h] = "stopping"]
  /\ UNCHANGED <<extension, stdin, address, file, client, unclean, spent>>

\* Bridge.Run returns an error, which it does for an answer that no call waits
\* for; the host stops with its connection still open.
FailRun(h) ==
  /\ host[h] = "serving"
  /\ spent.errors < MaxErrors
  /\ spent' = [spent EXCEPT !.errors = @ + 1]
  /\ host' = [host EXCEPT ![h] = "stopping"]
  /\ UNCHANGED <<extension, stdin, address, file, client, unclean>>

\* Variant: Shutdown has no deadline; it waits for the calls it is serving, and
\* these wait for answers the bridge can no longer get.
Drained(h) == \A c \in Clients : ~(client[c].phase = "calling" /\ client[c].at = h)

\* Shutdown returns: nothing is being served, or three seconds have passed.
ShutdownReturns(h) == TRUE

Shutdown(h) ==
  /\ host[h] = "stopping"
  /\ ShutdownReturns(h)
  /\ host' = [host EXCEPT ![h] = "checking"]
  /\ UNCHANGED <<extension, stdin, address, file, client, unclean, spent>>

\* RemoveIfInstance returns with an error, which Close passes on and the host only
\* logs: the process ends and whatever is there stays there.
GiveUp(h) ==
  /\ spent.removals < MaxRemoveErrors
  /\ spent' = [spent EXCEPT !.removals = @ + 1]
  /\ host' = [host EXCEPT ![h] = "gone"]
  /\ unclean' = unclean \cup {h}
  /\ UNCHANGED file

\* Variant: the file is left to whoever finds it stale.
NeverMine(h) == FALSE

\* RemoveIfInstance reads the file and compares the instance.
Mine(h) == file = h

\* A file that is not there is no error; one that Read refuses is (it cannot be
\* opened or decoded, or its permissions, owner, kind or version are not right).
CheckFile(h) ==
  /\ host[h] = "checking"
  /\ \/ /\ host' = [host EXCEPT ![h] = IF Mine(h) THEN "removing" ELSE "gone"]
        /\ UNCHANGED <<file, unclean, spent>>
     \/ file # None /\ GiveUp(h)
  /\ UNCHANGED <<extension, stdin, address, client>>

\* os.Remove(path), of whatever is there now, or not; the process ends.
RemoveFile(h) ==
  /\ host[h] = "removing"
  /\ \/ /\ file' = None
        /\ host' = [host EXCEPT ![h] = "gone"]
        /\ UNCHANGED <<unclean, spent>>
     \/ GiveUp(h)
  /\ UNCHANGED <<extension, stdin, address, client>>

\* The process ends without cleaning up: a crash, or Chrome has lost patience.
Crash(h) ==
  /\ host[h] \notin {"none", "gone"}
  /\ spent.crashes < MaxCrashes
  /\ spent' = [spent EXCEPT !.crashes = @ + 1]
  /\ host' = [host EXCEPT ![h] = "gone"]
  /\ unclean' = unclean \cup {h}
  /\ UNCHANGED <<extension, stdin, address, file, client>>

-----------------------------------------------------------------------------
(* Client.Call.                                                            *)

Enter(c, phase, found, at) == client' = [client EXCEPT ![c] = [phase |-> phase, found |-> found, at |-> at]]

\* Resolve: there has to be a file that Read takes, and a process of the number it
\* names has to be alive, which need not be the host's any more.
Resolve(c) ==
  /\ client[c].phase = "idle"
  /\ \/ file # None /\ Enter(c, "resolved", file, None)
     \/ Enter(c, "BROWSER_DISCONNECTED", None, None)
  /\ UNCHANGED <<extension, host, stdin, address, file, unclean, spent>>

\* SecurityMiddleware: the token has to be the one that this host has published; no
\* two hosts draw the same.
Authorized(g, h) == g = h

\* Connect: somebody listens at the endpoint and accepts the token, or not.
ConnectSession(c) ==
  LET h == client[c].found
      listening == {g \in Hosts : host[g] = "serving" /\ address[g] = address[h] /\ Authorized(g, h)} IN
  /\ client[c].phase = "resolved"
  /\ \/ \E g \in listening : Enter(c, "calling", h, g)
     \/ listening = {} /\ Enter(c, "BROWSER_DISCONNECTED", None, None)
  /\ UNCHANGED <<extension, host, stdin, address, file, unclean, spent>>

\* CallTool returns what the extension has answered through the host.
Return(c) ==
  LET g == client[c].at IN
  /\ client[c].phase = "calling"
  /\ host[g] = "serving"
  /\ port = g
  /\ Enter(c, "ok", None, None)
  /\ UNCHANGED <<extension, host, stdin, address, file, unclean, spent>>

\* Variant: no timeout; a call ends with the process that serves it.
BrokenOff(c) == host[client[c].at] = "gone"

\* The connection breaks with the process, or the client's 30 seconds are over.
MayFail(c) == TRUE

Fail(c) ==
  /\ client[c].phase = "calling"
  /\ MayFail(c)
  /\ Enter(c, "BROWSER_DISCONNECTED", None, None)
  /\ UNCHANGED <<extension, host, stdin, address, file, unclean, spent>>

-----------------------------------------------------------------------------
\* Chrome is running and its first host is being started.  A file of an earlier
\* run is as good as none: its process is not alive.
Init ==
  /\ browser = TRUE
  /\ manager = Unloaded
  /\ port = None
  /\ host = [h \in Hosts |-> "none"]
  /\ stdin = {}
  /\ address = [h \in Hosts |-> None]
  /\ file = None
  /\ client = [c \in Clients |-> [phase |-> "idle", found |-> None, at |-> None]]
  /\ unclean = {}
  /\ spent = [crashes |-> 0, errors |-> 0, writes |-> 0, removals |-> 0, stops |-> 0]

StepOfManager == LoadWorker \/ OnDisconnect \/ Retry
StepOfHost(h) == Publish(h) \/ StopServing(h) \/ Shutdown(h) \/ CheckFile(h) \/ RemoveFile(h)

Next ==
  \/ StepOfManager \/ StopWorker
  \/ \E h \in Hosts : StepOfHost(h) \/ FailToPublish(h) \/ FailRun(h) \/ Crash(h)
  \/ \E c \in Clients : Resolve(c) \/ ConnectSession(c) \/ Return(c) \/ Fail(c)

Spec == Init /\ [][Next]_vars

\* Timers fire, Chrome notices the end of a process, and processes are scheduled.
\* Nothing makes a worker start or stop, a client call or give up, or the
\* extension answer.
Fairness ==
  /\ WF_vars(OnDisconnect)
  /\ WF_vars(Retry)
  /\ \A h \in Hosts : WF_vars(StepOfHost(h))

FairSpec == Spec /\ Fairness

-----------------------------------------------------------------------------
(* Properties.                                                             *)

\* AC-01, SYS-015: a host that ends takes its file with it, whichever hosts follow
\* or overlap it, and whoever removed or replaced the file in the meantime.  The
\* exceptions are each host's own: it crashed; or it had renamed the file into place
\* and could not sync the directory; or it could not read or remove it in the end.
NothingLeftBehind ==
  file # None /\ host[file] = "gone" => file \in unclean

\* SYS-016: the retries are limited: a worker starts no more hosts than the one it
\* begins with and one for each retry, in whatever order hosts end, timers fire and
\* workers come and go.  (Hosts are numbered as they start.)
StartsFewHosts ==
  \A h \in Hosts : host[h] # "none" => h <= (spent.stops + 1) * (MaxRetries + 1)

\* Whatever file a host has left behind, and whatever becomes of the host and its
\* connection while a call waits, every call of a client that goes on running
\* ends, in an answer or in an error.
ClientsEnd ==
  \A c \in Clients :
    WF_vars(ConnectSession(c)) /\ WF_vars(Fail(c)) =>
      (client[c].phase \in {"resolved", "calling"} ~> client[c].phase \in {"ok", "BROWSER_DISCONNECTED"})

\* SYS-015: a host whose connection Chrome has closed ends of itself, even while
\* calls wait in it for answers that will not come (Close has a deadline).
HostsEnd ==
  \A h \in Hosts : host[h] # "none" /\ h \notin stdin ~> host[h] = "gone"

\* SYS-016: the extension connects again when a host has ended, as long as its
\* worker runs and no more hosts have failed than it has retries.  (Nothing gives
\* a retry back after a good connection.)
Reconnects ==
  [](spent.crashes + spent.errors + spent.writes <= MaxRetries) =>
    (manager.loaded /\ port = None ~> port # None \/ ~manager.loaded)

\* docs/requirements.md:558-559: clients find the host through the file that it
\* has published.  While a host serves the connected extension, no other host
\* removes its file.
StaysPublished ==
  [][\A h \in Hosts :
       port = h /\ host[h] = "serving" /\ file = h /\ UNCHANGED port => file' # None]_vars
=============================================================================

------------------------- MODULE HostLifecycleProofs -------------------------
(***************************************************************************)
(* What the hosts leave behind, and how many are started, proved for any   *)
(* number of hosts, clients, retries, crashes and failures.                *)
(***************************************************************************)
EXTENDS HostLifecycle, TLAPS

Spent == [crashes : 0..MaxCrashes, errors : 0..MaxErrors, writes : 0..MaxWriteErrors,
          removals : 0..MaxRemoveErrors, stops : 0..MaxWorkerStops]

\* The host that the file names has been published; if it is gone, it has not seen
\* to its file.
NamesItsHost ==
  file # None =>
    \/ host[file] \in {"serving", "stopping", "checking", "removing"}
    \/ host[file] = "gone" /\ file \in unclean

\* Hosts started by the workers that have ended, at most; and by the one that runs.
Before == spent.stops * (MaxRetries + 1)
Used   == IF manager.loaded THEN IF manager.retryTimer THEN manager.retryCount ELSE manager.retryCount + 1
          ELSE 0

ConnectsOnce ==
  /\ manager.retryTimer => manager.loaded /\ port = None
  /\ port # None => manager.loaded
  /\ ~browser => ~manager.loaded

StartedSoFar ==
  \A h \in Hosts : host[h] # "none" =>
    IF browser THEN h <= Before + Used ELSE h <= Before + MaxRetries + 1

IInv == TypeOK /\ NamesItsHost /\ ConnectsOnce /\ StartedSoFar

-----------------------------------------------------------------------------
(* What the parts of a step do.                                            *)

\* A host that is connected to is a new one, the next in number.
LEMMA ConnectStarts ==
  ASSUME TypeOK, Connect
  PROVE  \E h \in Hosts : /\ host[h] = "none" /\ port' = h
                          /\ host' = [host EXCEPT ![h] = "starting"] /\ host' \in [Hosts -> Stages]
                          /\ stdin' \subseteq Hosts
                          /\ h = 1 \/ (h - 1 \in Hosts /\ host[h - 1] # "none")
<1>1. PICK h \in Hosts : /\ host[h] = "none" /\ port' = h
                         /\ \A g \in Hosts : host[g] = "none" => h <= g
                         /\ host' = [host EXCEPT ![h] = "starting"] /\ stdin' = stdin \cup {h}
  BY DEF Connect
<1>2. MaxHosts \in Nat
  BY BoundAssumption
<1>3. h = 1 \/ h - 1 \in Hosts
  BY <1>2 DEF Hosts
<1>4. h - 1 \in Hosts => host[h - 1] # "none"
  <2>1. ~(h <= h - 1)
    BY <1>2 DEF Hosts
  <2> QED
    BY <1>1, <2>1
<1> QED
  BY <1>1, <1>3, <1>4 DEF TypeOK, Stages

\* A host that moves on stays the only one that moves.
LEMMA HostMoves ==
  ASSUME TypeOK, NEW h \in Hosts, NEW s \in Stages, host' = [host EXCEPT ![h] = s]
  PROVE  /\ host' \in [Hosts -> Stages] /\ host'[h] = s
         /\ \A g \in Hosts \ {h} : host'[g] = host[g]
BY DEF TypeOK

\* One count of what has happened goes up.
LEMMA Counted ==
  ASSUME TypeOK
  PROVE  /\ spent.crashes < MaxCrashes =>
              LET s == [spent EXCEPT !.crashes = @ + 1] IN s \in Spent /\ s.stops = spent.stops
         /\ spent.errors < MaxErrors =>
              LET s == [spent EXCEPT !.errors = @ + 1] IN s \in Spent /\ s.stops = spent.stops
         /\ spent.writes < MaxWriteErrors =>
              LET s == [spent EXCEPT !.writes = @ + 1] IN s \in Spent /\ s.stops = spent.stops
         /\ spent.removals < MaxRemoveErrors =>
              LET s == [spent EXCEPT !.removals = @ + 1] IN s \in Spent /\ s.stops = spent.stops
         /\ spent.stops < MaxWorkerStops =>
              LET s == [spent EXCEPT !.stops = @ + 1] IN s \in Spent /\ s.stops = spent.stops + 1
<1>1. spent \in Spent
  BY DEF TypeOK, Spent
<1>2. /\ spent.crashes \in Nat /\ spent.errors \in Nat /\ spent.stops \in Nat
      /\ spent.writes \in Nat /\ spent.removals \in Nat
      /\ MaxCrashes \in Nat /\ MaxErrors \in Nat /\ MaxWriteErrors \in Nat
      /\ MaxRemoveErrors \in Nat /\ MaxWorkerStops \in Nat
  BY <1>1, BoundAssumption DEF Spent
<1>3. spent.crashes < MaxCrashes => spent.crashes + 1 \in 0..MaxCrashes
  BY <1>2
<1>4. spent.errors < MaxErrors => spent.errors + 1 \in 0..MaxErrors
  BY <1>2
<1>5. spent.stops < MaxWorkerStops => spent.stops + 1 \in 0..MaxWorkerStops
  BY <1>2
<1>6. spent.writes < MaxWriteErrors => spent.writes + 1 \in 0..MaxWriteErrors
  BY <1>2
<1>7. spent.removals < MaxRemoveErrors => spent.removals + 1 \in 0..MaxRemoveErrors
  BY <1>2
<1> QED
  BY <1>1, <1>3, <1>4, <1>5, <1>6, <1>7 DEF Spent

\* What is counted is numbers.
LEMMA CountsAreNumbers ==
  ASSUME TypeOK
  PROVE  /\ MaxRetries \in Nat /\ MaxHosts \in Nat
         /\ manager.retryCount \in 0..MaxRetries /\ manager.retryTimer \in BOOLEAN /\ manager.loaded \in BOOLEAN
         /\ spent.stops \in Nat /\ Before \in Nat /\ Used \in Nat /\ Used <= MaxRetries + 1
         /\ (spent.stops + 1) * (MaxRetries + 1) = Before + (MaxRetries + 1)
<1>1. MaxRetries \in Nat /\ MaxHosts \in Nat /\ MaxWorkerStops \in Nat
  BY BoundAssumption
<1>2. manager.retryCount \in 0..MaxRetries /\ manager.retryTimer \in BOOLEAN /\ manager.loaded \in BOOLEAN
  BY DEF TypeOK, Manager
<1>3. spent.stops \in Nat
  BY <1>1 DEF TypeOK
<1>4. \A s, r \in Nat : s * (r + 1) \in Nat /\ (s + 1) * (r + 1) = s * (r + 1) + (r + 1)
  OBVIOUS
<1>5. Before \in Nat /\ (spent.stops + 1) * (MaxRetries + 1) = Before + (MaxRetries + 1)
  BY <1>1, <1>3, <1>4 DEF Before
<1>6. Used \in Nat /\ Used <= MaxRetries + 1
  BY <1>1, <1>2 DEF Used
<1> QED
  BY <1>1, <1>2, <1>3, <1>5, <1>6

-----------------------------------------------------------------------------
(* The invariant.                                                          *)

\* It holds to begin with.
LEMMA InitInvariant == Init => IInv
<1> SUFFICES ASSUME Init PROVE IInv
  OBVIOUS
<1>1. None \notin Hosts
  BY NoneAssumption
<1>2. spent \in Spent
  BY BoundAssumption DEF Init, Spent
<1>3. manager \in Manager /\ ~manager.loaded /\ ~manager.retryTimer
  BY BoundAssumption DEF Init, Unloaded, Manager
<1>4. TypeOK
  BY <1>1, <1>2, <1>3 DEF Init, TypeOK, Spent, Stages, Phases
<1>5. NamesItsHost /\ ConnectsOnce /\ StartedSoFar
  BY <1>1, <1>3 DEF Init, NamesItsHost, ConnectsOnce, StartedSoFar
<1> QED
  BY <1>4, <1>5 DEF IInv

\* The extension starts the next host, and counts it.
LEMMA StartKeeps ==
  ASSUME IInv, Connect, UNCHANGED <<browser, address, file, client, unclean, spent>>, browser,
         manager' \in Manager, manager'.loaded, ~manager'.retryTimer, Used' = Used + 1
  PROVE  IInv'
<1>0. TypeOK /\ NamesItsHost /\ StartedSoFar
  BY DEF IInv
<1>1. PICK h \in Hosts : /\ host[h] = "none" /\ port' = h
                         /\ host' = [host EXCEPT ![h] = "starting"] /\ host' \in [Hosts -> Stages]
                         /\ stdin' \subseteq Hosts
                         /\ h = 1 \/ (h - 1 \in Hosts /\ host[h - 1] # "none")
  BY <1>0, ConnectStarts
<1>2. TypeOK'
  BY <1>0, <1>1 DEF TypeOK
<1>3. NamesItsHost'
  BY <1>0, <1>1 DEF TypeOK, NamesItsHost
<1>4. StartedSoFar'
  <2>1. Before' = Before /\ Before \in Nat /\ Used \in Nat /\ MaxHosts \in Nat
    BY <1>0, CountsAreNumbers DEF Before
  <2>2. h <= Before + Used + 1
    BY <1>0, <1>1, <2>1 DEF StartedSoFar, Hosts
  <2>3. ASSUME NEW g \in Hosts, host'[g] # "none" PROVE g <= Before' + Used'
    <3>1. CASE g = h
      BY <2>1, <2>2, <3>1 DEF Hosts
    <3>2. CASE g # h
      <4>1. g <= Before + Used
        BY <1>0, <1>1, <2>3, <3>2 DEF StartedSoFar, TypeOK
      <4> QED
        BY <2>1, <4>1 DEF Hosts
    <3> QED
      BY <3>1, <3>2
  <2> QED
    BY <2>3 DEF StartedSoFar
<1>5. ConnectsOnce'
  BY DEF ConnectsOnce
<1> QED
  BY <1>2, <1>3, <1>4, <1>5 DEF IInv

\* A step of the extension starts a host that is counted, or counts one ahead.
LEMMA ExtensionKeeps ==
  ASSUME IInv, LoadWorker \/ StopWorker \/ OnDisconnect \/ Retry
  PROVE  IInv'
<1>0. /\ TypeOK /\ ConnectsOnce /\ StartedSoFar /\ NamesItsHost /\ manager \in Manager /\ spent \in Spent
      /\ MaxRetries \in Nat
  BY BoundAssumption DEF IInv, TypeOK, Spent
<1>a. Unloaded \in Manager /\ [Unloaded EXCEPT !.loaded = TRUE] \in Manager
  <2>1. 0 \in 0..MaxRetries
    BY <1>0
  <2>2. Unloaded = [loaded |-> FALSE, retryCount |-> 0, retryTimer |-> FALSE]
    BY DEF Unloaded
  <2> QED
    BY <2>1, <2>2 DEF Manager
<1>b. manager.retryCount \in Nat
  BY <1>0 DEF Manager
<1>2. CASE LoadWorker
  <2>1. manager' \in Manager /\ manager'.loaded /\ ~manager'.retryTimer /\ manager'.retryCount = 0
    BY <1>2, <1>a DEF LoadWorker, Unloaded
  <2>2. Used' = Used + 1
    BY <1>2, <2>1 DEF LoadWorker, Used
  <2> QED
    BY <1>2, <2>1, <2>2, StartKeeps DEF LoadWorker
<1>3. CASE Retry
  <2>1. /\ manager' \in Manager /\ manager'.loaded = manager.loaded /\ ~manager'.retryTimer
        /\ manager'.retryCount = manager.retryCount
    BY <1>0, <1>3 DEF Retry, Manager
  <2>2. manager.retryTimer /\ manager.loaded /\ browser
    BY <1>0, <1>3 DEF Retry, ConnectsOnce, TypeOK
  <2>3. Used' = Used + 1
    BY <1>b, <2>1, <2>2 DEF Used
  <2> QED
    BY <1>3, <2>1, <2>2, <2>3, StartKeeps DEF Retry
<1>4. CASE OnDisconnect
  <2>0. manager.loaded /\ ~manager.retryTimer /\ browser
    BY <1>0, <1>4 DEF OnDisconnect, ConnectsOnce, TypeOK
  <2>1. manager' \in Manager /\ manager'.loaded /\ Used' = Used
    <3>1. manager.retryCount < MaxRetries => manager.retryCount + 1 \in 0..MaxRetries
      BY <1>0 DEF Manager
    <3>2. CASE MayRetry
      <4> DEFINE n == manager.retryCount + 1
      <4>1. n \in 0..MaxRetries /\ manager' = [manager EXCEPT !.retryCount = n, !.retryTimer = TRUE]
        BY <1>4, <3>1, <3>2 DEF OnDisconnect, MayRetry
      <4>2. Used = n
        BY <2>0 DEF Used
      <4> HIDE DEF n
      <4>3. manager' \in Manager /\ manager'.loaded /\ manager'.retryTimer /\ manager'.retryCount = n
        BY <1>0, <2>0, <4>1 DEF Manager
      <4> QED
        BY <4>2, <4>3 DEF Used
    <3>3. CASE ~MayRetry
      BY <1>0, <1>4, <2>0, <3>3 DEF OnDisconnect, Used
    <3> QED
      BY <3>2, <3>3
  <2>2. Before' = Before
    BY <1>4 DEF OnDisconnect, Before
  <2>3. port' = None /\ UNCHANGED <<browser, host, address, file, client, unclean, spent>> /\ stdin' \subseteq Hosts
    BY <1>0, <1>4 DEF OnDisconnect, TypeOK
  <2>4. TypeOK' /\ NamesItsHost'
    BY <1>0, <2>1, <2>3 DEF TypeOK, NamesItsHost
  <2>5. ConnectsOnce' /\ StartedSoFar'
    BY <1>0, <2>0, <2>1, <2>2, <2>3 DEF ConnectsOnce, StartedSoFar
  <2> QED
    BY <2>4, <2>5 DEF IInv
<1>5. CASE StopWorker
  <2>1. manager' = Unloaded /\ ~manager'.loaded /\ ~manager'.retryTimer /\ Used' = 0
    BY <1>5 DEF StopWorker, Unloaded, Used
  <2>2. manager.loaded /\ browser /\ port' = None /\ UNCHANGED <<host, address, file, client, unclean>>
        /\ stdin' \subseteq Hosts
    BY <1>0, <1>5 DEF StopWorker, ConnectsOnce, TypeOK
  <2>3. \/ spent' \in Spent /\ spent'.stops = spent.stops + 1 /\ browser' = browser
        \/ spent' = spent /\ browser' = FALSE
    BY <1>0, <1>5, Counted DEF StopWorker
  <2>4. TypeOK' /\ NamesItsHost'
    <3>1. spent' \in Spent /\ browser' \in BOOLEAN
      BY <1>0, <2>3 DEF TypeOK
    <3> QED
      BY <1>0, <1>a, <2>1, <2>2, <3>1 DEF TypeOK, NamesItsHost, Spent
  <2>5. ConnectsOnce'
    BY <2>1, <2>2 DEF ConnectsOnce
  <2>6. StartedSoFar'
    <3>1. /\ Before \in Nat /\ Used \in Nat /\ Used <= MaxRetries + 1 /\ MaxHosts \in Nat
          /\ (spent.stops + 1) * (MaxRetries + 1) = Before + (MaxRetries + 1)
      BY <1>0, CountsAreNumbers
    <3>2. ASSUME NEW h \in Hosts, host[h] # "none" PROVE h <= Before + (MaxRetries + 1)
      <4>1. h <= Before + Used
        BY <1>0, <2>2, <3>2 DEF StartedSoFar
      <4> QED
        BY <1>0, <3>1, <4>1 DEF Hosts
    <3>3. CASE spent'.stops = spent.stops + 1 /\ browser' = browser
      <4>1. Before' = Before + (MaxRetries + 1)
        BY <3>1, <3>3 DEF Before
      <4>2. Before' + Used' = Before + (MaxRetries + 1)
        BY <1>0, <2>1, <3>1, <4>1
      <4> QED
        BY <2>2, <3>2, <3>3, <4>2 DEF StartedSoFar
    <3>4. CASE spent' = spent /\ browser' = FALSE
      <4>1. Before' + MaxRetries + 1 = Before + (MaxRetries + 1)
        BY <1>0, <3>1, <3>4 DEF Before
      <4> QED
        BY <2>2, <3>2, <3>4, <4>1 DEF StartedSoFar
    <3> QED
      BY <2>3, <3>3, <3>4
  <2> QED
    BY <2>4, <2>5, <2>6 DEF IInv
<1> QED
  BY <1>2, <1>3, <1>4, <1>5

\* Other steps start no host and take none back.
LEMMA NoneStarted ==
  ASSUME IInv, UNCHANGED extension, spent'.stops = spent.stops,
         \A h \in Hosts : host'[h] # "none" => host[h] # "none"
  PROVE  ConnectsOnce' /\ StartedSoFar'
<1>1. Before' = Before /\ Used' = Used /\ UNCHANGED <<browser, manager, port>>
  BY DEF extension, Before, Used
<1> QED
  BY <1>1 DEF IInv, ConnectsOnce, StartedSoFar

\* A host that is not begun by a step of its own was there before.
LEMMA GoesOn ==
  ASSUME TypeOK, NEW h \in Hosts, host[h] # "none", NEW s \in Stages, host' = [host EXCEPT ![h] = s]
  PROVE  \A g \in Hosts : host'[g] # "none" => host[g] # "none"
BY DEF TypeOK

\* A host that gives up leaves the file, and is known to have.
LEMMA GiveUpKeeps ==
  ASSUME IInv, NEW h \in Hosts, host[h] # "none", GiveUp(h), UNCHANGED <<extension, stdin, address, client>>
  PROVE  IInv'
<1>0. TypeOK /\ NamesItsHost
  BY DEF IInv
<1>1. host' \in [Hosts -> Stages] /\ host'[h] = "gone" /\ \A g \in Hosts \ {h} : host'[g] = host[g]
  BY <1>0, HostMoves DEF GiveUp, Stages
<1>2. spent' \in Spent /\ spent'.stops = spent.stops
  BY <1>0, Counted DEF GiveUp
<1>3. ConnectsOnce' /\ StartedSoFar'
  BY <1>0, <1>2, NoneStarted, GoesOn DEF GiveUp, Stages
<1>4. TypeOK'
  BY <1>0, <1>1, <1>2 DEF GiveUp, extension, TypeOK, Spent
<1>5. NamesItsHost'
  BY <1>0, <1>1 DEF GiveUp, TypeOK, NamesItsHost
<1> QED
  BY <1>3, <1>4, <1>5 DEF IInv

\* A host names itself when it is published, and removes whatever the file names.
LEMMA HostKeeps ==
  ASSUME IInv, NEW h \in Hosts, StepOfHost(h)
  PROVE  IInv'
<1>0. TypeOK /\ NamesItsHost /\ None \notin Hosts
  BY NoneAssumption DEF IInv
<1>1. CASE Publish(h)
  <2>1. host' \in [Hosts -> Stages] /\ host'[h] = "serving"
    BY <1>0, <1>1, HostMoves DEF Publish, Stages
  <2>2. address' \in [Hosts -> Addresses \cup {None}]
    BY <1>0, <1>1 DEF Publish, TypeOK
  <2>3. ConnectsOnce' /\ StartedSoFar'
    BY <1>0, <1>1, NoneStarted, GoesOn DEF Publish, Stages
  <2>4. TypeOK' /\ NamesItsHost'
    BY <1>0, <1>1, <2>1, <2>2 DEF Publish, extension, TypeOK, NamesItsHost
  <2> QED
    BY <2>3, <2>4 DEF IInv
<1>2. CASE StopServing(h) \/ Shutdown(h)
  <2>1. PICK s \in {"stopping", "checking"} : host' = [host EXCEPT ![h] = s]
    BY <1>2 DEF StopServing, Shutdown
  <2>2. host[h] \in {"serving", "stopping"} /\ UNCHANGED <<extension, stdin, address, file, client, unclean, spent>>
    BY <1>2 DEF StopServing, Shutdown
  <2>3. host' \in [Hosts -> Stages] /\ host'[h] = s /\ \A g \in Hosts \ {h} : host'[g] = host[g]
    BY <1>0, <2>1, HostMoves DEF Stages
  <2>4. ConnectsOnce' /\ StartedSoFar'
    BY <1>0, <2>1, <2>2, NoneStarted, GoesOn DEF Stages
  <2>5. TypeOK' /\ NamesItsHost'
    BY <1>0, <2>2, <2>3 DEF extension, TypeOK, NamesItsHost
  <2> QED
    BY <2>4, <2>5 DEF IInv
<1>3. CASE CheckFile(h) /\ ~GiveUp(h)
  <2>1. PICK s \in {"removing", "gone"} : host' = [host EXCEPT ![h] = s] /\ (s = "gone" => file # h)
    BY <1>3 DEF CheckFile, Mine
  <2>2. host[h] = "checking" /\ UNCHANGED <<extension, stdin, address, file, client, unclean, spent>>
    BY <1>3 DEF CheckFile
  <2>3. host' \in [Hosts -> Stages] /\ host'[h] = s /\ \A g \in Hosts \ {h} : host'[g] = host[g]
    BY <1>0, <2>1, HostMoves DEF Stages
  <2>4. ConnectsOnce' /\ StartedSoFar'
    BY <1>0, <2>1, <2>2, NoneStarted, GoesOn DEF Stages
  <2>5. TypeOK' /\ NamesItsHost'
    BY <1>0, <2>1, <2>2, <2>3 DEF extension, TypeOK, NamesItsHost
  <2> QED
    BY <2>4, <2>5 DEF IInv
<1>4. CASE RemoveFile(h) /\ ~GiveUp(h)
  <2>1. host[h] = "removing" /\ file' = None /\ host' = [host EXCEPT ![h] = "gone"]
        /\ UNCHANGED <<extension, stdin, address, client, unclean, spent>>
    BY <1>4 DEF RemoveFile
  <2>2. host' \in [Hosts -> Stages]
    BY <1>0, <2>1, HostMoves DEF Stages
  <2>3. ConnectsOnce' /\ StartedSoFar'
    BY <1>0, <2>1, NoneStarted, GoesOn DEF Stages
  <2>4. TypeOK' /\ NamesItsHost'
    BY <1>0, <2>1, <2>2 DEF extension, TypeOK, NamesItsHost
  <2> QED
    BY <2>3, <2>4 DEF IInv
<1>5. CASE (CheckFile(h) \/ RemoveFile(h)) /\ GiveUp(h)
  <2>1. host[h] # "none" /\ GiveUp(h) /\ UNCHANGED <<extension, stdin, address, client>>
    BY <1>5 DEF CheckFile, RemoveFile
  <2> QED
    BY <2>1, GiveUpKeeps
<1> QED
  BY <1>1, <1>2, <1>3, <1>4, <1>5 DEF StepOfHost

\* What goes wrong is counted.
LEMMA FaultKeeps ==
  ASSUME IInv, NEW h \in Hosts, FailToPublish(h) \/ FailRun(h) \/ Crash(h)
  PROVE  IInv'
<1>0. TypeOK /\ NamesItsHost /\ None \notin Hosts
  BY NoneAssumption DEF IInv
<1>1. CASE FailToPublish(h)
  <2>1. host' \in [Hosts -> Stages] /\ host[h] = "starting" /\ host'[h] = "gone"
        /\ \A g \in Hosts \ {h} : host'[g] = host[g]
    BY <1>0, <1>1, HostMoves DEF FailToPublish, Stages
  <2>2. spent' \in Spent /\ spent'.stops = spent.stops
    BY <1>0, <1>1, Counted DEF FailToPublish
  <2>3. address' \in [Hosts -> Addresses \cup {None}]
    BY <1>0, <1>1 DEF FailToPublish, TypeOK
  <2>4. \/ file' = file /\ unclean' = unclean
        \/ file' = h /\ unclean' = unclean \cup {h}
    BY <1>1 DEF FailToPublish
  <2>5. ConnectsOnce' /\ StartedSoFar'
    BY <1>0, <1>1, <2>2, NoneStarted, GoesOn DEF FailToPublish, Stages
  <2>6. TypeOK'
    BY <1>0, <1>1, <2>1, <2>2, <2>3, <2>4 DEF FailToPublish, extension, TypeOK, Spent
  <2>7. NamesItsHost'
    BY <1>0, <2>1, <2>4 DEF TypeOK, NamesItsHost
  <2> QED
    BY <2>5, <2>6, <2>7 DEF IInv
<1>2. CASE FailRun(h)
  <2>1. host' \in [Hosts -> Stages] /\ host'[h] = "stopping" /\ \A g \in Hosts \ {h} : host'[g] = host[g]
    BY <1>0, <1>2, HostMoves DEF FailRun, Stages
  <2>2. spent' \in Spent /\ spent'.stops = spent.stops
    BY <1>0, <1>2, Counted DEF FailRun
  <2>3. ConnectsOnce' /\ StartedSoFar'
    BY <1>0, <1>2, <2>2, NoneStarted, GoesOn DEF FailRun, Stages
  <2>4. TypeOK' /\ NamesItsHost'
    BY <1>0, <1>2, <2>1, <2>2 DEF FailRun, extension, TypeOK, NamesItsHost, Spent
  <2> QED
    BY <2>3, <2>4 DEF IInv
<1>3. CASE Crash(h)
  <2>1. host' \in [Hosts -> Stages] /\ host'[h] = "gone" /\ \A g \in Hosts \ {h} : host'[g] = host[g]
    BY <1>0, <1>3, HostMoves DEF Crash, Stages
  <2>2. spent' \in Spent /\ spent'.stops = spent.stops
    BY <1>0, <1>3, Counted DEF Crash
  <2>3. ConnectsOnce' /\ StartedSoFar'
    BY <1>0, <1>3, <2>2, NoneStarted, GoesOn DEF Crash, Stages
  <2>4. TypeOK' /\ NamesItsHost'
    BY <1>0, <1>3, <2>1, <2>2 DEF Crash, extension, TypeOK, NamesItsHost, Spent
  <2> QED
    BY <2>3, <2>4 DEF IInv
<1> QED
  BY <1>1, <1>2, <1>3

\* A client changes nothing but where it is itself.
LEMMA ClientKeeps ==
  ASSUME IInv, NEW c \in Clients, Resolve(c) \/ ConnectSession(c) \/ Return(c) \/ Fail(c)
  PROVE  IInv'
<1>0. client[c] \in [phase : Phases, found : Hosts \cup {None}, at : Hosts \cup {None}] /\ file \in Hosts \cup {None}
  BY DEF IInv, TypeOK
<1>1. PICK p \in Phases, f \in Hosts \cup {None}, g \in Hosts \cup {None} : Enter(c, p, f, g)
  <2>1. CASE Resolve(c)
    BY <1>0, <2>1 DEF Resolve, Phases
  <2>2. CASE ConnectSession(c)
    BY <1>0, <2>2 DEF ConnectSession, Phases
  <2>3. CASE Return(c) \/ Fail(c)
    BY <1>0, <2>3 DEF Return, Fail, Phases
  <2> QED
    BY <2>1, <2>2, <2>3
<1>2. client' \in [Clients -> [phase : Phases, found : Hosts \cup {None}, at : Hosts \cup {None}]]
  BY <1>1 DEF Enter, IInv, TypeOK
<1>3. UNCHANGED <<extension, host, stdin, address, file, unclean, spent>>
  BY DEF Resolve, ConnectSession, Return, Fail
<1>4. ConnectsOnce' /\ StartedSoFar'
  BY <1>3, NoneStarted
<1> QED
  BY <1>2, <1>3, <1>4 DEF extension, IInv, TypeOK, NamesItsHost

\* It holds throughout.
LEMMA Invariant == Spec => []IInv
<1>1. IInv /\ [Next]_vars => IInv'
  <2> SUFFICES ASSUME IInv, [Next]_vars PROVE IInv'
    OBVIOUS
  <2>1. CASE UNCHANGED vars
    <3>1. ConnectsOnce' /\ StartedSoFar'
      BY <2>1, NoneStarted DEF vars
    <3> QED
      BY <2>1, <3>1 DEF vars, extension, IInv, TypeOK, NamesItsHost
  <2>2. CASE StepOfManager \/ StopWorker
    BY <2>2, ExtensionKeeps DEF StepOfManager
  <2>3. CASE \E h \in Hosts : StepOfHost(h) \/ FailToPublish(h) \/ FailRun(h) \/ Crash(h)
    BY <2>3, HostKeeps, FaultKeeps
  <2>4. CASE \E c \in Clients : Resolve(c) \/ ConnectSession(c) \/ Return(c) \/ Fail(c)
    BY <2>4, ClientKeeps
  <2> QED
    BY <2>1, <2>2, <2>3, <2>4 DEF Next
<1> QED
  BY <1>1, InitInvariant, PTL DEF Spec

-----------------------------------------------------------------------------
(* The theorems.                                                           *)

\* Every value keeps its type; in particular the extension never retries more
\* often than it may (scheduleRetry).
THEOREM TypeCorrect == Spec => []TypeOK
<1>1. IInv => TypeOK
  BY DEF IInv
<1> QED
  BY <1>1, Invariant, PTL

\* A host that is gone has left no file, unless it crashed, could not sync the
\* directory, or could not read or remove the file (RunningServer.Close,
\* RemoveIfInstance).
THEOREM NothingRemains == Spec => []NothingLeftBehind
<1>1. IInv => NothingLeftBehind
  BY DEF IInv, NamesItsHost, NothingLeftBehind
<1> QED
  BY <1>1, Invariant, PTL

\* However many retries a worker has, and however many workers there are: it never
\* starts more hosts than one and one for each retry (NativeConnectionManager).
THEOREM FewHosts == Spec => []StartsFewHosts
<1>1. IInv => StartsFewHosts
  <2> SUFFICES ASSUME IInv, NEW h \in Hosts, host[h] # "none"
               PROVE  h <= (spent.stops + 1) * (MaxRetries + 1)
    BY DEF StartsFewHosts
  <2>0. TypeOK /\ StartedSoFar
    BY DEF IInv
  <2>1. /\ MaxRetries \in Nat /\ MaxHosts \in Nat /\ Before \in Nat /\ Used \in Nat /\ Used <= MaxRetries + 1
        /\ (spent.stops + 1) * (MaxRetries + 1) = Before + (MaxRetries + 1)
    BY <2>0, CountsAreNumbers
  <2>2. h <= Before + Used \/ h <= Before + MaxRetries + 1
    BY <2>0 DEF StartedSoFar
  <2>3. h <= Before + (MaxRetries + 1)
    BY <2>1, <2>2 DEF Hosts
  <2> QED
    BY <2>1, <2>3
<1> QED
  BY <1>1, Invariant, PTL
=============================================================================

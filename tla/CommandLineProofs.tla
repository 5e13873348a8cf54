------------------------- MODULE CommandLineProofs -------------------------
(***************************************************************************)
(* What install and uninstall promise, whatever calls fail and whenever    *)
(* they are killed, proved of the specification of Installation for any    *)
(* number of failures, kills, hosts and other copies; and that the command *)
(* line, whatever is typed, implements that specification.  Of the command *)
(* line itself, for any lines, tabs and sessions: a script can rely on the *)
(* status of a command, no tab is closed but one that an approved line     *)
(* names and a snapshot would have shown, a line is read as it is written, *)
(* and a listing is in the order its line asks for, of tabs left alone for *)
(* as long as it says.                                                     *)
(***************************************************************************)
EXTENDS CommandLine, CommonLemmas

-----------------------------------------------------------------------------
(* Install and uninstall.                                                  *)

Installing   == {"read", "write", "register", "create", "set", "verify", "restore", "rollback", "rewrite"}
Registering  == {"create", "set", "verify", "restore", "rollback", "rewrite"}
Uninstalling == {"unregister", "look", "delete", "manifest", "runtime", "runtime?", "settings", "settings?", "directory"}
Deleting     == {"look", "delete"}
Removing     == Uninstalling \ {"unregister", "look", "delete"}

\* Where a process of each kind can be, and that only Windows has a registry.
StepsMatch ==
  /\ process.step \in Installing => process.kind = "install" /\ process.before.registry # "empty"
  /\ process.step \in Uninstalling => process.kind = "uninstall"
  /\ process.step \in Registering \cup Deleting => windows
  /\ ~windows => files.registry = "absent" /\ process.before.registry = "absent"

\* The registration is what was found, as far as this process is concerned.
AsFound == ~Disturbed => Found = process.before.registry

\* How far an install has come, or gone back.
InstallInv ==
  /\ process.step \in {"read", "write"} => files.manifest = process.before.manifest /\ AsFound /\ process.failed = 0
  /\ process.step \in {"register", "create", "set"} => AsFound /\ process.failed = 0
  /\ process.step = "verify" => process.failed = 0 /\ (~Disturbed => files.registry = "ours")
  /\ process.step = "restore" => process.failed <= 1 /\ (~Disturbed => process.failed = 1)
  /\ process.step \in {"rollback", "rewrite"} =>
       (~Disturbed => process.failed >= 1) /\ (process.failed <= 1 => AsFound)
  /\ FailedInstallRestores

\* Where a half written manifest comes from; it may be what an install finds.
TornInv ==
  /\ process.failed <= faults
  /\ Disturbed => others > 0
  /\ process.before.manifest = "torn" => kills > 0 \/ (faults > 0 /\ faults + others > 1)
  /\ ReadableManifest

\* What an uninstall has removed so far, and what it has not.
UninstallInv ==
  /\ process.step \in Removing => files.registry # "ours"
  /\ process.step \in Removing \ {"manifest"} => files.manifest = "absent"
  /\ process.step \in Removing \ {"manifest", "runtime"} /\ ~process.late => "runtime" \notin files.product
  /\ process.step \in {"settings?", "directory"} => "settings" \notin files.product
  /\ process.step = "delete" => files.registry # "foreign" \/ process.other = "delete"
  /\ process.kind = "uninstall" /\ process.before.registry = "foreign" =>
       files.registry = "foreign" /\ process.step \in {"unregister", "returned"}
  /\ UninstallRemovesOurs

IInv == InstallationTypeOK /\ StepsMatch /\ InstallInv /\ TornInv /\ UninstallInv

-----------------------------------------------------------------------------
(* What the parts of a step do to the process and the files, field by      *)
(* field; the steps are proved from these.                                 *)

SameKind == /\ process'.kind = process.kind /\ process'.before = process.before
            /\ process'.late = process.late /\ process'.other = process.other

\* A process that goes on changes its step only.
LEMMA ThenMoves ==
  ASSUME process \in Processes, NEW step \in Steps, Then(step)
  PROVE  /\ process' \in Processes /\ SameKind /\ faults' = faults
         /\ process'.step = step /\ process'.failed = process.failed /\ process'.result = process.result
BY DEF Processes, Then, SameKind

\* A process that returns keeps what it found.
LEMMA ReturnEnds ==
  ASSUME process \in Processes, NEW res \in {"ok", "error"}, Return(res)
  PROVE  /\ process' \in Processes /\ SameKind /\ faults' = faults
         /\ process'.step = "returned" /\ process'.failed = process.failed /\ process'.result = res
<1>1. "returned" \in Steps
  BY DEF Steps
<1> QED
  BY <1>1 DEF Processes, Return, SameKind

\* A failed call is counted.
LEMMA FaultMoves ==
  ASSUME process \in Processes, NEW step \in Steps, FaultThen(step)
  PROVE  /\ process' \in Processes /\ SameKind /\ faults' = faults + 1
         /\ process'.step = step /\ process'.failed = process.failed + 1 /\ process'.result = process.result
<1> DEFINE n == process.failed + 1
<1>1. n \in Nat
  BY DEF Processes
<1>2. process' = [process EXCEPT !.step = step, !.failed = n] /\ faults' = faults + 1
  BY DEF FaultThen
<1> HIDE DEF n
<1>3. /\ process' \in Processes /\ SameKind
      /\ process'.step = step /\ process'.failed = n /\ process'.result = process.result
  BY <1>1, <1>2 DEF Processes, SameKind
<1> QED
  BY <1>2, <1>3 DEF n

\* A failed call that ends the process is counted, too.
LEMMA FaultEnds ==
  ASSUME process \in Processes, FaultReturn
  PROVE  /\ process' \in Processes /\ SameKind /\ faults' = faults + 1
         /\ process'.step = "returned" /\ process'.failed = process.failed + 1 /\ process'.result = "error"
<1> DEFINE n == process.failed + 1
<1>1. n \in Nat /\ "returned" \in Steps
  BY DEF Processes, Steps
<1>2. process' = [process EXCEPT !.step = "returned", !.result = "error", !.failed = n] /\ faults' = faults + 1
  BY DEF FaultReturn
<1> HIDE DEF n
<1>3. /\ process' \in Processes /\ SameKind
      /\ process'.step = "returned" /\ process'.failed = n /\ process'.result = "error"
  BY <1>1, <1>2 DEF Processes, SameKind
<1> QED
  BY <1>2, <1>3 DEF n

\* The files are changed one at a time.
LEMMA ManifestChanges ==
  ASSUME files \in Files, NEW m \in {"absent", "old", "new", "torn"}, Manifest(m)
  PROVE  /\ files' \in Files /\ files'.manifest = m
         /\ files'.registry = files.registry /\ files'.product = files.product
BY DEF Files, Manifest

\* The same of the registration.
LEMMA RegistryChanges ==
  ASSUME files \in Files, NEW r \in Registrations, Registry(r)
  PROVE  /\ files' \in Files /\ files'.registry = r
         /\ files'.manifest = files.manifest /\ files'.product = files.product
BY DEF Files, Registrations, Registry

\* What is removed from the product's directory is one thing.
LEMMA ProductRemoved ==
  ASSUME files \in Files, NEW p \in {"runtime", "settings"}, RemoveProduct(p)
  PROVE  /\ files' \in Files /\ files'.product = files.product \ {p}
         /\ files'.manifest = files.manifest /\ files'.registry = files.registry
BY DEF Files, RemoveProduct

\* A host's writing and a kill change one thing each, too.
LEMMA HostMarks ==
  ASSUME process \in Processes, files \in Files, HostWrites
  PROVE  /\ process' \in Processes /\ process'.late = TRUE
         /\ process'.kind = process.kind /\ process'.before = process.before /\ process'.step = process.step
         /\ process'.failed = process.failed /\ process'.result = process.result /\ process'.other = process.other
         /\ files' \in Files /\ files'.manifest = files.manifest /\ files'.registry = files.registry
<1>1. process' = [process EXCEPT !.late = TRUE] /\ files' = [files EXCEPT !.product = @ \cup {"runtime"}]
  BY DEF HostWrites
<1>2. process' \in Processes /\ process'.late = TRUE
      /\ process'.kind = process.kind /\ process'.before = process.before /\ process'.step = process.step
      /\ process'.failed = process.failed /\ process'.result = process.result /\ process'.other = process.other
  BY <1>1 DEF Processes
<1>3. files' \in Files /\ files'.manifest = files.manifest /\ files'.registry = files.registry
  BY <1>1 DEF Files
<1> QED
  BY <1>2, <1>3

\* A process that is killed returns nothing.
LEMMA KillEnds ==
  ASSUME process \in Processes, Kill
  PROVE  /\ process' \in Processes /\ SameKind
         /\ process'.step = "returned" /\ process'.failed = process.failed /\ process'.result = "killed"
<1>1. process' = [process EXCEPT !.step = "returned", !.result = "killed"] /\ "returned" \in Steps
  BY DEF Kill, Steps
<1> QED
  BY <1>1 DEF Processes, SameKind

\* What is read of the registration is noted before it is replaced.
LEMMA ReadingNoted ==
  ASSUME process \in Processes, files \in Files,
         process' = [process EXCEPT !.step = "create", !.before.registry = Found]
  PROVE  /\ process' \in Processes /\ process'.kind = process.kind /\ process'.step = "create"
         /\ process'.late = process.late /\ process'.other = process.other
         /\ process'.failed = process.failed /\ process'.result = process.result
         /\ process'.before.registry = Found /\ process'.before.manifest = process.before.manifest
<1>1. Found \in Registrations /\ "create" \in Steps
  BY DEF Found, Files, Registrations, Steps
<1>2. process.before \in Files
  BY DEF Processes
<1> DEFINE before == [process.before EXCEPT !.registry = Found]
<1>3. before \in Files /\ before.registry = Found /\ before.manifest = process.before.manifest
  BY <1>1, <1>2 DEF Files
<1>4. process' = [process EXCEPT !.step = "create", !.before = before]
  BY <1>2 DEF Processes
<1> HIDE DEF before
<1> QED
  BY <1>1, <1>3, <1>4 DEF Processes

\* Another copy's registration changes two things.
LEMMA OtherMarks ==
  ASSUME process \in Processes, files \in Files, OtherRegisters
  PROVE  /\ process' \in Processes /\ process'.other = process.step
         /\ process'.kind = process.kind /\ process'.before = process.before /\ process'.step = process.step
         /\ process'.failed = process.failed /\ process'.result = process.result /\ process'.late = process.late
         /\ files' \in Files /\ files'.registry = "foreign"
         /\ files'.manifest = files.manifest /\ files'.product = files.product
<1>1. process' = [process EXCEPT !.other = process.step] /\ Registry("foreign")
  BY DEF OtherRegisters
<1>2. files' \in Files /\ files'.registry = "foreign" /\ files'.manifest = files.manifest /\ files'.product = files.product
  BY <1>1, RegistryChanges DEF Registrations
<1> QED
  BY <1>1, <1>2 DEF Processes

-----------------------------------------------------------------------------
\* Every behaviour begins with the invariant.
LEMMA InitInvariant ==
  ASSUME NEW w \in BOOLEAN, NEW f \in Files, Intact(w, f), InstallationInit(w, f)
  PROVE  IInv
<1>1. /\ windows = w /\ files = f /\ starting = FALSE /\ faults = 0 /\ kills = 0 /\ hosts = 0 /\ others = 0
      /\ process = [kind |-> "none", step |-> "none", before |-> f, failed |-> 0,
                    late |-> FALSE, other |-> "none", result |-> "none"]
      /\ f.manifest # "torn" /\ (~w => f.registry = "absent")
  BY DEF InstallationInit, Intact
<1>2. process \in Processes /\ InstallationTypeOK
  BY <1>1 DEF Processes, Steps, InstallationTypeOK
<1>3. /\ process.kind = "none" /\ process.step = "none" /\ process.before = f /\ process.failed = 0
      /\ process.other = "none"
  BY <1>1
<1> QED
  BY <1>1, <1>2, <1>3
  DEF IInv, StepsMatch, InstallInv, TornInv, UninstallInv, FailedInstallRestores, ReadableManifest,
      UninstallRemovesOurs, Ended, At, Disturbed, Installing, Registering, Uninstalling, Deleting, Removing

-----------------------------------------------------------------------------
(* Every step keeps the invariant: one lemma per action, one case per way  *)
(* it may go.                                                              *)

\* A call whose failure ends the process: the first one of an install, or one
\* of its way back, or one of an uninstall.
LEMMA FaultReturnKeeps ==
  ASSUME IInv, FaultReturn, Keep, UNCHANGED <<windows, starting, kills, hosts, others>>,
         process.step \in {"read", "write", "rollback", "rewrite"} \cup Uninstalling
  PROVE  IInv'
<1>1. /\ process' \in Processes /\ SameKind /\ faults' = faults + 1 /\ process'.step = "returned"
      /\ process'.failed = process.failed + 1 /\ process'.result = "error"
  BY FaultEnds DEF IInv, InstallationTypeOK
<1>2. process.failed \in Nat /\ faults \in Nat /\ kills \in Nat /\ others \in Nat
  BY DEF IInv, InstallationTypeOK, Processes
<1>3. InstallationTypeOK' /\ StepsMatch'
  BY <1>1, <1>2 DEF IInv, InstallationTypeOK, StepsMatch, SameKind, Keep, Installing, Registering, Deleting, Uninstalling
<1>4. InstallInv'
  BY <1>1, <1>2 DEF IInv, InstallInv, StepsMatch, FailedInstallRestores, Ended, At, SameKind, Keep, Uninstalling,
                    AsFound, Found, Disturbed
<1>5. TornInv'
  BY <1>1, <1>2 DEF IInv, TornInv, InstallInv, ReadableManifest, At, SameKind, Keep, Disturbed
<1>6. UninstallInv'
  BY <1>1 DEF IInv, UninstallInv, UninstallRemovesOurs, Ended, At, SameKind, Keep, Removing, Uninstalling
<1> QED
  BY <1>3, <1>4, <1>5, <1>6 DEF IInv

\* The manifest has been read, or not.
LEMMA ReadPreviousKeeps ==
  ASSUME IInv, ProcessStep, ReadPrevious
  PROVE  IInv'
<1> USE DEF IInv, InstallationTypeOK, StepsMatch, InstallInv, TornInv, UninstallInv, FailedInstallRestores,
            ReadableManifest, UninstallRemovesOurs, Ended, SameKind, At, Keep, Steps, Installing, Registering, Uninstalling, Deleting, Removing,
            AsFound, Found, Disturbed
<1>0. UNCHANGED <<windows, starting, kills, hosts, others>> /\ At("read")
  BY DEF ProcessStep, ReadPrevious
<1>1. CASE Then("write") /\ Keep
  BY <1>0, <1>1, ThenMoves
<1>2. CASE FaultReturn /\ Keep
  BY <1>0, <1>2, FaultReturnKeeps
<1> QED
  BY <1>0, <1>1, <1>2 DEF ReadPrevious

\* Until it is renamed into place the new manifest is nowhere to be seen.
LEMMA WriteManifestKeeps ==
  ASSUME IInv, ProcessStep, WriteManifest
  PROVE  IInv'
<1> USE DEF IInv, InstallationTypeOK, StepsMatch, InstallInv, TornInv, UninstallInv, FailedInstallRestores,
            ReadableManifest, UninstallRemovesOurs, Ended, SameKind, At, Keep, Steps, Installing, Registering, Uninstalling, Deleting, Removing,
            AsFound, Found, Disturbed
<1>0. UNCHANGED <<windows, starting, kills, hosts, others>> /\ At("write")
  BY DEF ProcessStep, WriteManifest
<1>1. CASE Then("register") /\ Manifest("new")
  BY <1>0, <1>1, ThenMoves, ManifestChanges
<1>2. CASE FaultReturn /\ Keep
  BY <1>0, <1>2, FaultReturnKeeps
<1> QED
  BY <1>0, <1>1, <1>2 DEF WriteManifest

\* As long as no call has failed there is nothing to put back.
LEMMA RegisterKeeps ==
  ASSUME IInv, ProcessStep, Register
  PROVE  IInv'
<1> USE DEF IInv, InstallationTypeOK, StepsMatch, InstallInv, TornInv, UninstallInv, FailedInstallRestores,
            ReadableManifest, UninstallRemovesOurs, Ended, SameKind, At, Keep, Steps, Installing, Registering, Uninstalling, Deleting, Removing,
            AsFound, Found, Disturbed
<1>0. UNCHANGED <<windows, starting, kills, hosts, others>>
  BY DEF ProcessStep, Register
<1>1. CASE At("register") /\ windows /\ Keep
           /\ process' = [process EXCEPT !.step = "create", !.before.registry = Found] /\ UNCHANGED faults
  BY <1>0, <1>1, ReadingNoted DEF Files, Registrations
<1>2. CASE At("register") /\ windows /\ FaultThen("rollback") /\ Keep
  BY <1>0, <1>2, FaultMoves
<1>3. CASE At("register") /\ ~windows /\ Return("ok") /\ Keep
  BY <1>0, <1>3, ReturnEnds
<1>4. CASE At("create") /\ Found = "absent" /\ Then("set") /\ Registry("empty")
  BY <1>0, <1>4, ThenMoves, RegistryChanges DEF Registrations
<1>5. CASE At("create") /\ Then("set") /\ Keep
  BY <1>0, <1>5, ThenMoves
<1>6. CASE At("set") /\ Then("verify") /\ Registry("ours")
  BY <1>0, <1>6, ThenMoves, RegistryChanges DEF Registrations
<1>7. CASE (At("create") \/ At("set")) /\ FaultThen("rollback") /\ Keep
  BY <1>0, <1>7, FaultMoves
<1>8. CASE At("verify") /\ Return("ok") /\ Keep
  BY <1>0, <1>8, ReturnEnds
<1>9. CASE At("verify") /\ files.registry # "ours" /\ Then("restore") /\ Keep
  BY <1>0, <1>9, ThenMoves
<1>10. CASE At("verify") /\ FaultThen("restore") /\ Keep
  BY <1>0, <1>10, FaultMoves
<1> QED
  BY <1>0, <1>1, <1>2, <1>3, <1>4, <1>5, <1>6, <1>7, <1>8, <1>9, <1>10 DEF Register

\* The registration is put back, or a second call has failed.
LEMMA RestoreRegistrationKeeps ==
  ASSUME IInv, ProcessStep, RestoreRegistration
  PROVE  IInv'
<1> USE DEF IInv, InstallationTypeOK, StepsMatch, InstallInv, TornInv, UninstallInv, FailedInstallRestores,
            ReadableManifest, UninstallRemovesOurs, Ended, SameKind, At, Keep, Steps, Installing, Registering, Uninstalling, Deleting, Removing,
            AsFound, Found, Disturbed
<1>0. UNCHANGED <<windows, starting, kills, hosts, others>> /\ At("restore")
  BY DEF ProcessStep, RestoreRegistration
<1>1. CASE Then("rollback") /\ Registry(process.before.registry)
  <2>1. process.before.registry \in Registrations
    BY DEF Files, Processes
  <2> QED
    BY <1>0, <1>1, <2>1, ThenMoves, RegistryChanges
<1>2. CASE FaultThen("rollback") /\ Keep
  <2>1. /\ process' \in Processes /\ process'.kind = process.kind /\ process'.before = process.before
        /\ process'.late = process.late /\ process'.other = process.other /\ faults' = faults + 1
        /\ process'.step = "rollback" /\ process'.failed = process.failed + 1 /\ process'.result = process.result
    BY <1>2, FaultMoves
  <2>2. /\ process.failed \in Nat /\ faults \in Nat /\ kills \in Nat /\ others \in Nat
        /\ process.step = "restore" /\ files' = files
    BY <1>0, <1>2 DEF Processes
  <2>3. InstallationTypeOK' /\ StepsMatch'
    BY <1>0, <2>1, <2>2
  <2>4. InstallInv'
    <3>1. ~Disturbed => process'.failed >= 1
      BY <2>1, <2>2
    <3>2. process'.failed <= 1 => Disturbed
      BY <2>1, <2>2
    <3> QED
      BY <2>1, <3>1, <3>2
  <2>5. TornInv'
    BY <1>0, <2>1, <2>2
  <2>6. UninstallInv'
    BY <1>0, <2>1, <2>2
  <2> QED
    BY <2>3, <2>4, <2>5, <2>6
<1> QED
  BY <1>0, <1>1, <1>2 DEF RestoreRegistration

\* The manifest is put back, or a second call has failed.
LEMMA RollBackKeeps ==
  ASSUME IInv, ProcessStep, RollBack
  PROVE  IInv'
<1> USE DEF IInv, InstallationTypeOK, StepsMatch, InstallInv, TornInv, UninstallInv, FailedInstallRestores,
            ReadableManifest, UninstallRemovesOurs, Ended, SameKind, At, Keep, Steps, Installing, Registering, Uninstalling, Deleting, Removing,
            AsFound, Found, Disturbed
<1>0. UNCHANGED <<windows, starting, kills, hosts, others>>
  BY DEF ProcessStep, RollBack
<1>1. CASE At("rollback") /\ process.before.manifest = "absent" /\ Return("error") /\ Manifest("absent")
  BY <1>0, <1>1, ReturnEnds, ManifestChanges DEF Files, Processes
<1>2. CASE At("rollback") /\ process.before.manifest # "absent" /\ Then("rewrite") /\ Manifest("torn")
  BY <1>0, <1>2, ThenMoves, ManifestChanges DEF Files, Processes
<1>3. CASE At("rewrite") /\ Return("error") /\ Manifest(process.before.manifest)
  BY <1>0, <1>3, ReturnEnds, ManifestChanges DEF Files, Processes
<1>4. CASE (At("rollback") \/ At("rewrite")) /\ FaultReturn /\ Keep
  BY <1>0, <1>4, FaultReturnKeeps
<1> QED
  BY <1>0, <1>1, <1>2, <1>3, <1>4 DEF RollBack

\* A registration that is not ours ends the uninstall.
LEMMA UnregisterKeeps ==
  ASSUME IInv, ProcessStep, Unregister
  PROVE  IInv'
<1> USE DEF IInv, InstallationTypeOK, StepsMatch, InstallInv, TornInv, UninstallInv, FailedInstallRestores,
            ReadableManifest, UninstallRemovesOurs, Ended, SameKind, At, Keep, Steps, Installing, Registering, Uninstalling, Deleting, Removing,
            AsFound, Found, Disturbed
<1>0. UNCHANGED <<windows, starting, kills, hosts, others>>
  BY DEF ProcessStep
<1>1. CASE At("unregister") /\ ~windows /\ Then("manifest") /\ Keep
  BY <1>0, <1>1, ThenMoves
<1>2. CASE At("unregister") /\ windows /\ Look("look")
  <2>1. CASE Found = "ours" /\ Then("look") /\ Keep
    BY <1>0, <1>2, <2>1, ThenMoves
  <2>2. CASE Found = "absent" /\ Then("manifest") /\ Keep
    BY <1>0, <1>2, <2>2, ThenMoves
  <2>3. CASE Found = "foreign" /\ Return("error") /\ Keep
    BY <1>0, <1>2, <2>3, ReturnEnds
  <2>4. CASE FaultReturn /\ Keep
    BY <1>0, <1>2, <2>4, FaultReturnKeeps
  <2> QED
    BY <1>2, <2>1, <2>2, <2>3, <2>4 DEF Look
<1>3. CASE At("look") /\ Look("delete")
  <2>1. CASE Found = "ours" /\ Then("delete") /\ Keep
    BY <1>0, <1>3, <2>1, ThenMoves
  <2>2. CASE Found = "absent" /\ Then("manifest") /\ Keep
    BY <1>0, <1>3, <2>2, ThenMoves
  <2>3. CASE Found = "foreign" /\ Return("error") /\ Keep
    BY <1>0, <1>3, <2>3, ReturnEnds
  <2>4. CASE FaultReturn /\ Keep
    BY <1>0, <1>3, <2>4, FaultReturnKeeps
  <2> QED
    BY <1>3, <2>1, <2>2, <2>3, <2>4 DEF Look
<1>4. CASE At("delete") /\ Then("manifest") /\ Registry("absent")
  BY <1>0, <1>4, ThenMoves, RegistryChanges DEF Registrations
<1>5. CASE At("delete") /\ FaultReturn /\ Keep
  BY <1>0, <1>5, FaultReturnKeeps
<1> QED
  BY <1>0, <1>1, <1>2, <1>3, <1>4, <1>5 DEF Unregister, UnregisterStore

\* The manifest is gone, or the uninstall has failed.
LEMMA RemoveManifestKeeps ==
  ASSUME IInv, ProcessStep, RemoveManifest
  PROVE  IInv'
<1> USE DEF IInv, InstallationTypeOK, StepsMatch, InstallInv, TornInv, UninstallInv, FailedInstallRestores,
            ReadableManifest, UninstallRemovesOurs, Ended, SameKind, At, Keep, Steps, Installing, Registering, Uninstalling, Deleting, Removing,
            AsFound, Found, Disturbed
<1>0. UNCHANGED <<windows, starting, kills, hosts, others>> /\ At("manifest")
  BY DEF ProcessStep, RemoveManifest
<1>1. CASE Then("runtime") /\ Manifest("absent")
  BY <1>0, <1>1, ThenMoves, ManifestChanges
<1>2. CASE FaultReturn /\ Keep
  BY <1>0, <1>2, FaultReturnKeeps
<1> QED
  BY <1>0, <1>1, <1>2 DEF RemoveManifest

\* What is managed is gone and was looked for, or the uninstall has failed.
LEMMA RemoveManagedKeeps ==
  ASSUME IInv, ProcessStep, RemoveManaged
  PROVE  IInv'
<1> USE DEF IInv, InstallationTypeOK, StepsMatch, InstallInv, TornInv, UninstallInv, FailedInstallRestores,
            ReadableManifest, UninstallRemovesOurs, Ended, SameKind, At, Keep, Steps, Installing, Registering, Uninstalling, Deleting, Removing,
            AsFound, Found, Disturbed
<1>0. UNCHANGED <<windows, starting, kills, hosts, others>>
  BY DEF ProcessStep, RemoveManaged
<1>1. CASE At("runtime") /\ Then("runtime?") /\ RemoveProduct("runtime")
  BY <1>0, <1>1, ThenMoves, ProductRemoved
<1>2. CASE At("settings") /\ Then("settings?") /\ RemoveProduct("settings")
  BY <1>0, <1>2, ThenMoves, ProductRemoved
<1>3. CASE At("runtime?") /\ "runtime" \notin files.product /\ Then("settings") /\ Keep
  BY <1>0, <1>3, ThenMoves
<1>4. CASE At("settings?") /\ "settings" \notin files.product /\ Then("directory") /\ Keep
  BY <1>0, <1>4, ThenMoves
<1>5. CASE (At("runtime?") \/ At("settings?")) /\ Return("error") /\ Keep
  BY <1>0, <1>5, ReturnEnds
<1>6. CASE process.step \in Removing /\ FaultReturn /\ Keep
  BY <1>0, <1>6, FaultReturnKeeps
<1> QED
  BY <1>0, <1>1, <1>2, <1>3, <1>4, <1>5, <1>6 DEF RemoveManaged, RemoveProduct

\* Nothing else is removed.
LEMMA RemoveDirectoryKeeps ==
  ASSUME IInv, ProcessStep, RemoveDirectory
  PROVE  IInv'
<1> USE DEF IInv, InstallationTypeOK, StepsMatch, InstallInv, TornInv, UninstallInv, FailedInstallRestores,
            ReadableManifest, UninstallRemovesOurs, Ended, SameKind, At, Keep, Steps, Installing, Registering, Uninstalling, Deleting, Removing,
            AsFound, Found, Disturbed
<1>0. UNCHANGED <<windows, starting, kills, hosts, others>> /\ At("directory")
  BY DEF ProcessStep, RemoveDirectory
<1>1. CASE Return("ok") /\ Keep
  BY <1>0, <1>1, ReturnEnds DEF Files
<1>2. CASE FaultReturn /\ Keep
  BY <1>0, <1>2, FaultReturnKeeps
<1> QED
  BY <1>0, <1>1, <1>2 DEF RemoveDirectory

\* A process that is killed leaves things as they are.
LEMMA KillKeeps ==
  ASSUME IInv, Kill
  PROVE  IInv'
<1>1. kills' = kills + 1 /\ UNCHANGED <<windows, files, starting, faults, hosts, others>>
  BY DEF Kill, Keep
<1>2. /\ process' \in Processes /\ SameKind /\ process'.step = "returned"
      /\ process'.failed = process.failed /\ process'.result = "killed"
  BY KillEnds DEF IInv, InstallationTypeOK
<1> QED
  BY <1>1, <1>2
  DEF SameKind, IInv, InstallationTypeOK, StepsMatch, InstallInv, TornInv, UninstallInv, FailedInstallRestores,
     ReadableManifest, UninstallRemovesOurs, Ended, At, Steps, Installing, Registering, Uninstalling, Deleting, Removing,
     AsFound, Found, Disturbed

\* A host is started ...
LEMMA StartHostKeeps ==
  ASSUME IInv, StartHost
  PROVE  IInv'
BY DEF StartHost, Usable, Keep, IInv, InstallationTypeOK, StepsMatch, InstallInv, TornInv, UninstallInv, FailedInstallRestores,
     ReadableManifest, UninstallRemovesOurs, Ended, At, Steps, Installing, Registering, Uninstalling, Deleting, Removing,
     AsFound, Found, Disturbed

\* ... before it writes.
LEMMA HostWritesKeeps ==
  ASSUME IInv, HostWrites
  PROVE  IInv'
<1>1. UNCHANGED <<windows, faults, kills, hosts, others>> /\ starting' = FALSE
  BY DEF HostWrites
<1>2. /\ process' \in Processes /\ process'.late = TRUE
      /\ process'.kind = process.kind /\ process'.before = process.before /\ process'.step = process.step
      /\ process'.failed = process.failed /\ process'.result = process.result /\ process'.other = process.other
      /\ files' \in Files /\ files'.manifest = files.manifest /\ files'.registry = files.registry
  BY HostMarks DEF IInv, InstallationTypeOK
<1>3. "settings" \notin files.product => "settings" \notin files'.product
  BY DEF HostWrites, IInv, InstallationTypeOK, Files
<1>4. InstallationTypeOK' /\ StepsMatch'
  BY <1>1, <1>2 DEF IInv, InstallationTypeOK, StepsMatch
<1>5. InstallInv' /\ TornInv'
  BY <1>1, <1>2 DEF IInv, InstallInv, TornInv, FailedInstallRestores, ReadableManifest, Ended, At, AsFound, Found, Disturbed
<1>6. UninstallInv'
  BY <1>1, <1>2, <1>3 DEF IInv, UninstallInv, UninstallRemovesOurs, Ended
<1> QED
  BY <1>4, <1>5, <1>6 DEF IInv

\* Whatever an install or an uninstall finds.
LEMMA BeginKeeps ==
  ASSUME IInv, NEW kind \in {"install", "uninstall"},
         NEW step \in {"read", "unregister"}, (kind = "install") <=> (step = "read"),
         ~Running, Begin(kind, step), UNCHANGED <<windows, files, starting, faults, kills, hosts, others>>
  PROVE  IInv'
<1> DEFINE before == [files EXCEPT !.registry = Found]
<1>0. /\ before \in Files /\ before.registry = Found /\ before.manifest = files.manifest /\ Found # "empty"
      /\ Found = files.registry \/ Found = "absent"
  BY DEF IInv, InstallationTypeOK, Files, Registrations, Found
<1>1. /\ process'.kind = kind /\ process'.step = step /\ process'.before = before
      /\ process'.failed = 0 /\ process'.late = FALSE /\ process'.other = "none" /\ process'.result = "none"
  BY DEF Begin
<1>2. process' \in Processes
  <2>1. process' = [kind |-> kind, step |-> step, before |-> before, failed |-> 0,
                    late |-> FALSE, other |-> "none", result |-> "none"]
    BY DEF Begin
  <2> HIDE DEF before
  <2> QED
    BY <1>0, <2>1 DEF Processes, Steps
<1> HIDE DEF before
<1>3. process.step \in {"none", "returned"}
  BY DEF Running
<1>4. InstallationTypeOK' /\ StepsMatch'
  BY <1>0, <1>1, <1>2 DEF IInv, InstallationTypeOK, StepsMatch, Installing, Registering, Deleting, Uninstalling
<1>5. InstallInv' /\ UninstallInv'
  BY <1>0, <1>1 DEF InstallInv, UninstallInv, FailedInstallRestores, UninstallRemovesOurs, Ended, Uninstalling, Removing,
                    AsFound, Found, Disturbed
<1>6. TornInv'
  BY <1>0, <1>1, <1>3 DEF IInv, InstallationTypeOK, TornInv, ReadableManifest, At, Disturbed
<1> QED
  BY <1>4, <1>5, <1>6 DEF IInv

\* Another copy takes the registration for itself.
LEMMA OtherRegistersKeeps ==
  ASSUME IInv, OtherRegisters
  PROVE  IInv'
<1>1. /\ process' \in Processes /\ process'.other = process.step
      /\ process'.kind = process.kind /\ process'.before = process.before /\ process'.step = process.step
      /\ process'.failed = process.failed /\ process'.result = process.result /\ process'.late = process.late
      /\ files' \in Files /\ files'.registry = "foreign"
      /\ files'.manifest = files.manifest /\ files'.product = files.product
  BY OtherMarks DEF IInv, InstallationTypeOK
<1>2. windows /\ others' = others + 1 /\ UNCHANGED <<windows, starting, faults, kills, hosts>>
  BY DEF OtherRegisters
<1>3. InstallationTypeOK' /\ StepsMatch'
  BY <1>1, <1>2 DEF IInv, InstallationTypeOK, StepsMatch
<1>4. process.step # "none" => Disturbed'
  BY <1>1 DEF Disturbed
<1>5. InstallInv'
  BY <1>1, <1>4 DEF IInv, InstallInv, FailedInstallRestores, Ended, At, AsFound
<1>6. TornInv'
  BY <1>1, <1>2 DEF IInv, InstallationTypeOK, TornInv, ReadableManifest, At
<1>7. UninstallInv'
  BY <1>1 DEF IInv, UninstallInv, UninstallRemovesOurs, Ended, At
<1> QED
  BY <1>3, <1>5, <1>6, <1>7 DEF IInv

\* No step breaks the invariant.
LEMMA StepKeeps ==
  ASSUME IInv, [InstallationNext]_installation
  PROVE  IInv'
<1>1. CASE UNCHANGED installation
  BY <1>1 DEF installation, IInv, InstallationTypeOK, StepsMatch, InstallInv, TornInv, UninstallInv, FailedInstallRestores,
              ReadableManifest, UninstallRemovesOurs, Ended, At, AsFound, Found, Disturbed
<1>2. CASE BeginInstall
  BY <1>2, BeginKeeps DEF BeginInstall
<1>3. CASE BeginUninstall
  BY <1>3, BeginKeeps DEF BeginUninstall
<1>4. CASE ProcessStep
  BY <1>4, ReadPreviousKeeps, WriteManifestKeeps, RegisterKeeps, RestoreRegistrationKeeps, RollBackKeeps,
     UnregisterKeeps, RemoveManifestKeeps, RemoveManagedKeeps, RemoveDirectoryKeeps DEF ProcessStep
<1>5. CASE Kill \/ StartHost \/ HostWrites \/ OtherRegisters
  BY <1>5, KillKeeps, StartHostKeeps, HostWritesKeeps, OtherRegistersKeeps
<1> QED
  BY <1>1, <1>2, <1>3, <1>4, <1>5 DEF InstallationNext, InstallationStep

-----------------------------------------------------------------------------
(* The theorems.                                                           *)

\* The invariant holds of install and uninstall (install.go, registration.go).
THEOREM InstallInvariant == InstallationSpec => []IInv
<1>1. (\E w \in BOOLEAN, f \in Files : Intact(w, f) /\ InstallationInit(w, f)) => IInv
  BY InitInvariant
<1>2. IInv /\ [InstallationNext]_installation => IInv'
  BY StepKeeps
<1> QED
  BY <1>1, <1>2, PTL DEF InstallationSpec

\* Every value keeps its type.
THEOREM TypeCorrect == InstallationSpec => []InstallationTypeOK
<1>1. IInv => InstallationTypeOK
  BY DEF IInv
<1> QED
  BY <1>1, InstallInvariant, PTL

\* One failed call, whichever it is, and install leaves the manifest and the
\* registration as it found them (Install, registerStore).
THEOREM FailureRestores == InstallationSpec => []FailedInstallRestores
<1>1. IInv => FailedInstallRestores
  BY DEF IInv, InstallInv
<1> QED
  BY <1>1, InstallInvariant, PTL

\* Chrome reads a whole manifest at any moment but those that are named
\* (WriteManifest, and the way back in Install).
THEOREM ManifestReadable == InstallationSpec => []ReadableManifest
<1>1. IInv => ReadableManifest
  BY DEF IInv, TornInv
<1> QED
  BY <1>1, InstallInvariant, PTL

\* An uninstall that succeeds leaves nothing of the product (Uninstall).
THEOREM UninstallComplete == InstallationSpec => []UninstallRemovesOurs
<1>1. IInv => UninstallRemovesOurs
  BY DEF IInv, UninstallInv
<1> QED
  BY <1>1, InstallInvariant, PTL

\* A registration changes hands only where it may: an uninstall deletes that of
\* another copy only if it was made after the second look, and one that finds such
\* a registration removes nothing (unregisterPlatform, unregisterStore, Uninstall).
THEOREM OthersKept == InstallationSpec => KeepsWhatIsNotOurs
<1> DEFINE Kept == process.kind = "uninstall" =>
             /\ files.registry = "foreign" /\ files'.registry # "foreign" => process.other = "delete"
             /\ process.before.registry = "foreign" =>
                  /\ files'.registry = "foreign"
                  /\ files'.manifest = files.manifest /\ files.product \subseteq files'.product
<1>1. ASSUME IInv, [InstallationNext]_installation
      PROVE  Kept
  <2>1. files \in Files /\ process \in Processes /\ StepsMatch /\ UninstallInv
    BY <1>1 DEF IInv, InstallationTypeOK
  <2> SUFFICES ASSUME process.kind = "uninstall"
               PROVE  /\ files.registry = "foreign" /\ files'.registry # "foreign" => process.other = "delete"
                      /\ process.before.registry = "foreign" =>
                           /\ files'.registry = "foreign"
                           /\ files'.manifest = files.manifest /\ files.product \subseteq files'.product
    OBVIOUS
  <2>2. process.before.registry = "foreign" =>
          files.registry = "foreign" /\ process.step \in {"unregister", "returned"}
    BY <2>1 DEF UninstallInv
  <2>3. CASE UNCHANGED files
    BY <2>2, <2>3
  <2>4. CASE OtherRegisters
    BY <2>1, <2>4, OtherMarks
  <2>5. CASE HostWrites
    <3>1. files' = [files EXCEPT !.product = @ \cup {"runtime"}]
      BY <2>5 DEF HostWrites
    <3>2. files'.registry = files.registry /\ files'.manifest = files.manifest /\ files.product \subseteq files'.product
      BY <2>1, <3>1 DEF Files
    <3> QED
      BY <2>2, <3>2
  <2>6. CASE process.step \in {"manifest", "runtime", "settings"} /\ files'.registry = files.registry
    BY <2>2, <2>6
  <2>7. CASE process.step = "delete"
    BY <2>1, <2>2, <2>7 DEF UninstallInv
  <2>8. \/ UNCHANGED files \/ OtherRegisters \/ HostWrites \/ process.step = "delete"
        \/ process.step \in {"manifest", "runtime", "settings"} /\ files'.registry = files.registry
    <3>1. process.step \notin Installing
      BY <2>1 DEF StepsMatch
    <3>2. CASE ReadPrevious \/ WriteManifest \/ Register \/ RestoreRegistration \/ RollBack
      BY <3>1, <3>2 DEF ReadPrevious, WriteManifest, Register, RestoreRegistration, RollBack, At, Installing
    <3>3. CASE Unregister
      BY <3>3 DEF Unregister, UnregisterStore, Look, Keep, At
    <3>4. CASE RemoveManifest
      BY <2>1, <3>4, ManifestChanges DEF RemoveManifest, Keep, At
    <3>5. CASE RemoveManaged \/ RemoveDirectory
      BY <2>1, <3>5, ProductRemoved DEF RemoveManaged, RemoveDirectory, Keep, At
    <3> QED
      BY <1>1, <3>2, <3>3, <3>4, <3>5 DEF InstallationNext, InstallationStep, ProcessStep, BeginInstall, BeginUninstall, Kill,
                                          StartHost, Keep, installation
  <2> QED
    BY <2>3, <2>4, <2>5, <2>6, <2>7, <2>8
<1>2. IInv /\ [InstallationNext]_installation => [Kept]_installation
  BY <1>1
<1> QED
  BY <1>2, InstallInvariant, PTL DEF InstallationSpec, KeepsWhatIsNotOurs

-----------------------------------------------------------------------------
(* The command line.                                                       *)

\* A step of the command line begins an install or an uninstall, is one of
\* their steps, or leaves manifest, registration and files alone.
LEMMA StepsOfInstallation ==
  ASSUME [Next]_vars
  PROVE  [InstallationNext]_installation
<1>1. CASE TypeLine
  BY <1>1 DEF TypeLine, InstallationNext
<1>2. CASE Installs
  BY <1>2 DEF Installs, InstallationNext
<1>3. CASE Disconnect
  BY <1>3 DEF Disconnect
<1>4. CASE UserCloses \/ UserIgnores
  BY <1>4 DEF UserCloses, UserIgnores
<1>5. CASE Done
  BY <1>5 DEF Done, vars
<1>6. CASE UNCHANGED <<session, lost, changes, installation>>
  BY <1>6
<1>7. CASE UNCHANGED vars
  BY <1>7 DEF vars
<1> QED BY <1>1, <1>2, <1>3, <1>4, <1>5, <1>6, <1>7 DEF Next

\* The command line implements the specification of Installation, if it finds
\* manifest and registration as nothing that has failed half-way leaves them.
THEOREM ImplementsInstallation ==
  ASSUME NEW Sessions,
         \A s \in Sessions : s.windows \in BOOLEAN /\ Intact(s.windows, s.files)
  PROVE  Init(Sessions) /\ [][Next]_vars => InstallationSpec
<1>1. Init(Sessions) => \E w \in BOOLEAN, f \in Files : Intact(w, f) /\ InstallationInit(w, f)
  BY DEF Init, Intact
<1>2. [Next]_vars => [InstallationNext]_installation
  BY StepsOfInstallation
<1> QED BY <1>1, <1>2, PTL DEF InstallationSpec

-----------------------------------------------------------------------------
(* What the status of a command says.                                      *)

\* How far an install has come that may end well.
InstalledInv ==
  /\ process.step \in {"register", "create", "set", "verify"} => files.manifest = "new"
  /\ Ended("install", "ok") => Usable \/ Disturbed
  /\ process.step = "none" => process.result = "none"

\* An install that returns "ok" has written both; what a host writes is neither.
LEMMA InstalledKeeps ==
  ASSUME IInv, InstalledInv, [InstallationNext]_installation
  PROVE  InstalledInv'
<1>1. files \in Files /\ process \in Processes /\ StepsMatch
  BY DEF IInv, InstallationTypeOK
<1>2. CASE UNCHANGED installation
  BY <1>2 DEF installation, InstalledInv, Ended, At, Usable, Disturbed
<1>3. CASE BeginInstall \/ BeginUninstall
  BY <1>3 DEF BeginInstall, BeginUninstall, Begin, InstalledInv, Ended, At
<1>4. CASE Kill
  <2>1. process'.step = "returned" /\ process'.result = "killed"
    BY <1>1, <1>4, KillEnds
  <2> QED
    BY <2>1 DEF InstalledInv, Ended, At
<1>5. CASE StartHost
  BY <1>5 DEF StartHost, Keep, InstalledInv, Ended, At, Usable, Disturbed
<1>6. CASE HostWrites
  <2>1. /\ process'.kind = process.kind /\ process'.step = process.step /\ process'.result = process.result
        /\ files'.manifest = files.manifest /\ files'.registry = files.registry /\ windows' = windows
        /\ process'.other = process.other
    BY <1>1, <1>6, HostMarks DEF HostWrites
  <2> QED
    BY <2>1 DEF InstalledInv, Ended, At, Usable, Disturbed
\* A process that goes on goes to a step that promises nothing, or keeps what is promised.
<1>7. ASSUME NEW step \in Steps, Then(step) \/ FaultThen(step), step \notin {"none", "register", "create", "set", "verify", "returned"}
      PROVE  InstalledInv'
  <2>1. process'.step = step
    BY <1>1, <1>7, ThenMoves, FaultMoves
  <2> QED
    BY <1>7, <2>1 DEF InstalledInv, Ended, At
<1>8. ASSUME FaultReturn \/ Return("error")
      PROVE  InstalledInv'
  <2>1. process'.step = "returned" /\ process'.result = "error"
    BY <1>1, <1>8, ReturnEnds, FaultEnds
  <2> QED
    BY <2>1 DEF InstalledInv, Ended, At
<1>9. ASSUME Return("ok"), process.kind = "uninstall"
      PROVE  InstalledInv'
  <2>1. process'.step = "returned" /\ process'.kind = "uninstall"
    BY <1>1, <1>9, ReturnEnds DEF SameKind
  <2> QED
    BY <2>1 DEF InstalledInv, Ended, At
<1>10. CASE ReadPrevious
  BY <1>7, <1>8, <1>10 DEF ReadPrevious, Steps
<1>11. CASE WriteManifest
  <2>1. CASE Then("register") /\ Manifest("new")
    <3>1. process'.step = "register" /\ files'.manifest = "new"
      BY <1>1, <2>1, ThenMoves, ManifestChanges DEF Steps
    <3> QED
      BY <3>1 DEF InstalledInv, Ended, At
  <2> QED
    BY <1>8, <1>11, <2>1 DEF WriteManifest
<1>12. CASE Register /\ UNCHANGED windows
  <2>1. CASE At("register") /\ Keep /\ process' = [process EXCEPT !.step = "create", !.before.registry = Found]
    <3>1. process'.step = "create"
      BY <1>1, <2>1, ReadingNoted
    <3> QED
      BY <2>1, <3>1 DEF InstalledInv, Ended, At, Keep
  <2>2. CASE FaultThen("rollback") \/ FaultThen("restore") \/ Then("restore")
    BY <1>7, <2>2 DEF Steps
  <2>3. CASE At("register") /\ ~windows /\ Return("ok") /\ Keep
    <3>1. files'.manifest = "new" /\ ~windows'
      BY <1>12, <2>3 DEF InstalledInv, At, Keep
    <3>2. process'.step = "returned"
      BY <1>1, <2>3, ReturnEnds
    <3> QED
      BY <3>1, <3>2 DEF InstalledInv, Usable
  <2>4. CASE At("create") /\ Then("set") /\ (Registry("empty") \/ Keep)
    <3>1. process'.step = "set" /\ files'.manifest = files.manifest
      BY <1>1, <2>4, ThenMoves, RegistryChanges DEF Steps, Registrations, Keep
    <3> QED
      BY <2>4, <3>1 DEF InstalledInv, Ended, At
  <2>5. CASE At("set") /\ Then("verify") /\ Registry("ours")
    <3>1. process'.step = "verify" /\ files'.manifest = files.manifest
      BY <1>1, <2>5, ThenMoves, RegistryChanges DEF Steps, Registrations
    <3> QED
      BY <2>5, <3>1 DEF InstalledInv, Ended, At
  <2>6. CASE At("verify") /\ files.registry = "ours" /\ Return("ok") /\ Keep
    <3>1. files'.manifest = "new" /\ files'.registry = "ours"
      BY <2>6 DEF InstalledInv, At, Keep
    <3>2. process'.step = "returned"
      BY <1>1, <2>6, ReturnEnds
    <3> QED
      BY <3>1, <3>2 DEF InstalledInv, Usable
  <2> QED
    BY <1>12, <2>1, <2>2, <2>3, <2>4, <2>5, <2>6 DEF Register
<1>13. CASE RestoreRegistration
  BY <1>7, <1>13 DEF RestoreRegistration, Steps
<1>14. CASE RollBack
  BY <1>7, <1>8, <1>14 DEF RollBack, Steps
<1>15. CASE Unregister \/ RemoveManifest \/ RemoveManaged
  BY <1>7, <1>8, <1>15 DEF Unregister, UnregisterStore, Look, RemoveManifest, RemoveManaged, Steps
<1>16. CASE RemoveDirectory
  BY <1>1, <1>8, <1>9, <1>16 DEF RemoveDirectory, At, StepsMatch, Uninstalling
<1>17. CASE OtherRegisters
  <2>1. process'.kind = process.kind /\ process'.step = process.step /\ process'.result = process.result
        /\ files'.manifest = files.manifest /\ process'.other = process.step
    BY <1>1, <1>17, OtherMarks
  <2> QED
    BY <2>1 DEF InstalledInv, Ended, At, Disturbed
<1> QED
  BY <1>2, <1>3, <1>4, <1>5, <1>6, <1>10, <1>11, <1>12, <1>13, <1>14, <1>15, <1>16, <1>17
  DEF InstallationNext, InstallationStep, ProcessStep

\* No request to close tabs has been made for line n, and so no tab closed.
Nothing(n) == (\A r \in removals : r.of # n) /\ \A c \in closed : c.of # n

CommandIds == Elements(command.outcome.input.ids)

IsCommand ==
  /\ command = [number |-> command.number, phase |-> command.phase, outcome |-> command.outcome,
                status |-> command.status, code |-> command.code, listed |-> command.listed]
  /\ command.number \in Nat
  /\ command.phase \in {"calling", "closing", "answered"} => command.outcome.kind \in {"call", "status"}

\* Requests are of lines that have been typed, and close what the last one asks for.
RequestsInv ==
  /\ \A r \in removals : r.of \in 0..command.number
  /\ \A c \in closed : c.of \in 0..command.number
  /\ \A r \in removals : r.of = command.number => Asks("close") /\ r.ids = command.outcome.input.ids
  /\ ~Nothing(command.number) => Asks("close")

\* What the answer, and then the status, say of them.
AnsweredInv ==
  /\ ~Nothing(command.number) =>
       \/ command.phase = "closing"
       \/ command.phase = "answered" /\ command.code \in {"OK", "TAB_CLOSE_FAILED", "BROWSER_DISCONNECTED"}
       \/ command.phase = "exited" /\ command.status \in {0, 1, 3}
  /\ Asks("close") /\ ((command.phase = "answered" /\ command.code = "OK") \/ Exited({0})) => CommandIds \cap open = {}

\* What an install has left.
RunningInv ==
  /\ command.phase = "running" => process.kind = command.outcome.kind
  /\ command.phase # "running" => ~Running
  /\ Exited({0}) /\ command.outcome.kind = "install" => Ended("install", "ok")

CommandInv == IsCommand /\ RequestsInv /\ AnsweredInv /\ RunningInv

\* An answer changes the phase and the code, and what is listed.
AnswersWith(code, listed) ==
  command' = [number |-> command.number, phase |-> "answered", outcome |-> command.outcome,
              status |-> command.status, code |-> code, listed |-> listed]

\* An answer moves the command on and keeps all else of it.
LEMMA Answered ==
  ASSUME IsCommand, command.outcome.kind \in {"call", "status"}, NEW code, NEW listed, AnswersWith(code, listed)
  PROVE  /\ command'.phase = "answered" /\ command'.code = code
         /\ command'.number = command.number /\ command'.outcome = command.outcome
         /\ command'.status = command.status
         /\ IsCommand'
BY DEF IsCommand, AnswersWith

\* Answer and AnswerList are such answers.
LEMMA AnAnswer ==
  ASSUME IsCommand
  PROVE  /\ \A code : Answer(code) => \E listed : AnswersWith(code, listed)
         /\ \A result : AnswerList(result) => \E code, listed : AnswersWith(code, listed)
<1>1. ASSUME NEW code, Answer(code)
      PROVE  \E listed : AnswersWith(code, listed)
  <2>1. command' = [number |-> command.number, phase |-> "answered", outcome |-> command.outcome,
                    status |-> command.status, code |-> code, listed |-> command.listed]
    BY <1>1 DEF IsCommand, Answer
  <2> QED
    BY <2>1 DEF AnswersWith
<1>2. ASSUME NEW result, AnswerList(result)
      PROVE  \E code, listed : AnswersWith(code, listed)
  <2> DEFINE listed == IF result.code = "OK" THEN result.value ELSE <<>>
  <2>1. command' = [command EXCEPT !.phase = "answered", !.code = result.code, !.listed = listed]
    BY <1>2 DEF AnswerList
  <2> HIDE DEF listed
  <2>2. AnswersWith(result.code, listed)
    BY <2>1 DEF IsCommand, AnswersWith
  <2> QED
    BY <2>2
<1> QED
  BY <1>1, <1>2

\* A line is typed: nothing has been asked for it yet.
LEMMA TypeLineKeeps ==
  ASSUME CommandInv, IInv, TypeLine
  PROVE  CommandInv'
<1>1. PICK phase, outcome, status :
        /\ command' = NewCommand(command.number + 1, phase, outcome, status)
        /\ \/ outcome.kind = "exit" /\ phase = "exited" /\ UNCHANGED installation
           \/ outcome.kind = "report" /\ phase = "exited" /\ UNCHANGED installation
           \/ outcome.kind \in {"call", "status"} /\ phase = "calling" /\ UNCHANGED installation
           \/ outcome.kind = "install" /\ phase = "running" /\ BeginInstall
           \/ outcome.kind = "uninstall" /\ phase = "running" /\ BeginUninstall
  BY DEF TypeLine
<1>2. /\ command.phase \in {"none", "exited"} /\ UNCHANGED <<session, open, removals, closed>> /\ command.number \in Nat
      /\ \A r \in removals : r.of \in 0..command.number
      /\ \A c \in closed : c.of \in 0..command.number
  BY DEF TypeLine, CommandInv, IsCommand, RequestsInv
<1>3. /\ command'.number = command.number + 1 /\ command'.phase = phase /\ command'.outcome = outcome
      /\ command'.status = status
  BY <1>1 DEF NewCommand
<1>4. Nothing(command.number)'
  BY <1>2, <1>3 DEF Nothing
<1>5. IsCommand'
  <2>1. command' = [number |-> command'.number, phase |-> command'.phase, outcome |-> command'.outcome,
                    status |-> command'.status, code |-> command'.code, listed |-> command'.listed]
    BY <1>1 DEF NewCommand
  <2>2. phase \in {"calling", "closing", "answered"} => outcome.kind \in {"call", "status"}
    BY <1>1
  <2> QED
    BY <1>2, <1>3, <2>1, <2>2 DEF IsCommand
<1>6. RequestsInv'
  <2>1. \A n \in 0..command.number : n \in 0..(command.number + 1) /\ n # command.number + 1
    BY <1>2
  <2> QED
    BY <1>2, <1>3, <1>4, <2>1 DEF RequestsInv
<1>7. AnsweredInv'
  <2>1. ~((Asks("close"))' /\ (command'.phase = "answered" \/ command'.phase = "exited"))
    BY <1>1, <1>3 DEF Asks
  <2> QED
    BY <1>4, <2>1 DEF AnsweredInv, Exited
<1>8. RunningInv'
  <2>1. process'.kind = outcome.kind \/ phase # "running"
    BY <1>1 DEF BeginInstall, BeginUninstall, Begin
  <2>2. phase # "running" => UNCHANGED installation
    BY <1>1
  <2>3. ~Running
    BY <1>2 DEF CommandInv, RunningInv
  <2>4. ~(phase = "exited" /\ outcome.kind = "install")
    BY <1>1
  <2> QED
    BY <1>3, <2>1, <2>2, <2>3, <2>4 DEF RunningInv, Running, Exited, installation
<1> QED
  BY <1>5, <1>6, <1>7, <1>8 DEF CommandInv

\* The command in hand is answered, and the tabs are as they were.
LEMMA AnswerKeeps ==
  ASSUME CommandInv, NEW code, NEW listed, command.phase \in {"calling", "closing"}, AnswersWith(code, listed),
         UNCHANGED <<open, closed, installation>>, removals' \subseteq removals,
         \/ Nothing(command.number) /\ (code = "OK" => ~Asks("close"))
         \/ code = "BROWSER_DISCONNECTED"
  PROVE  CommandInv'
<1>1. /\ command'.phase = "answered" /\ command'.code = code
      /\ command'.number = command.number /\ command'.outcome = command.outcome
      /\ command'.status = command.status
      /\ IsCommand'
  BY Answered DEF CommandInv, IsCommand
<1>2. (Nothing(command.number) => Nothing(command.number)') /\ (Asks("close"))' = Asks("close") /\ CommandIds' = CommandIds
  BY <1>1 DEF Nothing, Asks, CommandIds
<1>3. RequestsInv'
  BY <1>1, <1>2 DEF CommandInv, RequestsInv
<1>4. AnsweredInv'
  BY <1>1, <1>2 DEF AnsweredInv, Exited
<1>5. RunningInv'
  BY <1>1 DEF CommandInv, RunningInv, Running, Exited, installation
<1> QED
  BY <1>1, <1>3, <1>4, <1>5 DEF CommandInv

\* A tool that closes nothing answers.
LEMMA ToolsKeep ==
  ASSUME CommandInv, Lists \/ Reads \/ Plans \/ Status, UNCHANGED <<session, lost, changes, installation>>
  PROVE  CommandInv'
<1>1. command.phase = "calling" /\ ~Asks("close") /\ UNCHANGED <<open, removals, closed, installation>>
  BY DEF Lists, Reads, Plans, Status, Asked, Asks, chrome
<1>2. PICK code, listed : AnswersWith(code, listed)
  <2>1. (\E result : AnswerList(result)) \/ \E c : Answer(c)
    BY DEF Lists, Reads, Plans, Status
  <2> QED
    BY <2>1, AnAnswer DEF CommandInv
<1>3. Nothing(command.number)
  BY <1>1 DEF CommandInv, RequestsInv
<1>4. removals' \subseteq removals /\ (code = "OK" => ~Asks("close"))
  BY <1>1
<1> QED
  BY <1>1, <1>2, <1>3, <1>4, AnswerKeeps

\* The connection breaks: the request of the last line may be dropped, or not.
LEMMA DisconnectKeeps ==
  ASSUME CommandInv, Disconnect
  PROVE  CommandInv'
<1>1. /\ command.phase \in {"calling", "closing"} /\ Answer("BROWSER_DISCONNECTED")
      /\ removals' \subseteq removals /\ UNCHANGED <<open, closed, installation>>
  BY DEF Disconnect
<1>2. PICK listed : AnswersWith("BROWSER_DISCONNECTED", listed)
  BY <1>1, AnAnswer DEF CommandInv
<1> QED
  BY <1>1, <1>2, AnswerKeeps

\* The extension is asked to close what is open, or the command is refused.
LEMMA ClosesKeeps ==
  ASSUME CommandInv, Closes, UNCHANGED <<session, lost, changes, installation>>
  PROVE  CommandInv'
<1> DEFINE input == command.outcome.input
           code  == CheckClose(input, OpenTabs)
<1>1. /\ command.phase = "calling" /\ Asks("close") /\ UNCHANGED <<open, closed, installation>>
      /\ Nothing(command.number) /\ IsCommand
  BY DEF Closes, Asked, Asks, CommandInv, AnsweredInv, Exited
<1>2. CASE code = "OK"
  <2>1. /\ command' = [command EXCEPT !.phase = "closing"]
        /\ removals' = removals \cup {[of |-> command.number, ids |-> input.ids]}
    BY <1>2 DEF Closes
  <2>2. /\ command'.phase = "closing" /\ command'.code = command.code
        /\ command'.number = command.number /\ command'.outcome = command.outcome
        /\ command'.status = command.status
        /\ IsCommand'
    BY <1>1, <2>1 DEF IsCommand
  <2>4. (Asks("close"))' /\ CommandIds' = CommandIds
    BY <1>1, <2>2 DEF Asks, CommandIds
  <2>5. RequestsInv'
    <3>1. command.number \in 0..command.number
      BY <1>1 DEF IsCommand
    <3> QED
      BY <1>1, <2>1, <2>2, <2>4, <3>1 DEF CommandInv, RequestsInv
  <2>6. AnsweredInv'
    BY <2>2 DEF AnsweredInv, Exited
  <2>7. RunningInv'
    BY <1>1, <2>2 DEF CommandInv, RunningInv, Running, Exited, installation
  <2> QED
    BY <2>2, <2>5, <2>6, <2>7 DEF CommandInv
<1>3. CASE code # "OK"
  <2>1. Answer(code) /\ UNCHANGED removals
    BY <1>3 DEF Closes
  <2>2. PICK listed : AnswersWith(code, listed)
    BY <1>1, <2>1, AnAnswer
  <2> HIDE DEF code
  <2> QED
    BY <1>1, <1>3, <2>1, <2>2, AnswerKeeps
<1> QED
  BY <1>2, <1>3

\* Tabs are closed; whoever has asked for that, and still waits, is told whether
\* all of them are gone.
LEMMA RemoveTabsKeeps ==
  ASSUME CommandInv, RemoveTabs, UNCHANGED <<session, lost, changes, installation>>
  PROVE  CommandInv'
<1>1. PICK r \in removals :
        /\ removals' = removals \ {r}
        /\ open' = open \ Removed(r.ids, open)
        /\ closed' = closed \cup {[of |-> r.of, id |-> i] : i \in Removed(r.ids, open)}
        /\ IF command.number = r.of /\ command.phase = "closing" THEN Answer(CloseAnswer(r.ids, open)) ELSE UNCHANGED command
  BY DEF RemoveTabs
<1>2. /\ open' \subseteq open /\ removals' \subseteq removals
      /\ \A c \in closed' : c \in closed \/ c.of = r.of
      /\ r.of \in 0..command.number /\ IsCommand /\ UNCHANGED installation
  BY <1>1 DEF CommandInv, RequestsInv
<1>3. CASE UNCHANGED command
  <2>1. ~Nothing(command.number)' => ~Nothing(command.number)
    BY <1>1, <1>2, <1>3 DEF Nothing
  <2>2. UNCHANGED <<CommandIds, Asks("close"), Exited({0})>>
    BY <1>3 DEF CommandIds, Asks, Exited
  <2>3. RequestsInv'
    BY <1>2, <1>3, <2>1, <2>2 DEF CommandInv, RequestsInv
  <2>4. AnsweredInv'
    BY <1>2, <1>3, <2>1, <2>2 DEF CommandInv, AnsweredInv
  <2>5. RunningInv'
    BY <1>2, <1>3, <2>2 DEF CommandInv, RunningInv, Running, Ended, At, installation
  <2> QED
    BY <1>2, <1>3, <2>3, <2>4, <2>5 DEF CommandInv, IsCommand
<1>4. CASE command.number = r.of /\ command.phase = "closing"
  <2> DEFINE code == CloseAnswer(r.ids, open)
  <2>1. Asks("close") /\ r.ids = command.outcome.input.ids
    BY <1>4 DEF CommandInv, RequestsInv, Nothing
  <2>2. PICK listed : AnswersWith(code, listed)
    BY <1>1, <1>2, <1>4, AnAnswer
  <2>3. code \in {"OK", "TAB_CLOSE_FAILED"} /\ (code = "OK" => CommandIds \cap open' = {})
    BY <1>1, <2>1 DEF CloseAnswer, Removed, CommandIds, Elements
  <2> HIDE DEF code
  <2>4. /\ command'.phase = "answered" /\ command'.code = code
        /\ command'.number = command.number /\ command'.outcome = command.outcome
        /\ command'.status = command.status
        /\ IsCommand'
    BY <1>2, <1>4, <2>2, Answered DEF IsCommand
  <2>5. CommandIds' = CommandIds /\ (Asks("close"))'
    BY <2>1, <2>4 DEF CommandIds, Asks
  <2>6. RequestsInv'
    BY <1>2, <2>1, <2>4, <2>5 DEF CommandInv, RequestsInv
  <2>7. AnsweredInv'
    BY <2>3, <2>4, <2>5 DEF AnsweredInv, Exited
  <2>8. RunningInv'
    BY <1>2, <1>4, <2>4 DEF CommandInv, RunningInv, Running, Exited, installation
  <2> QED
    BY <2>4, <2>6, <2>7, <2>8 DEF CommandInv
<1> QED
  BY <1>1, <1>3, <1>4

\* The command exits, with the status of what it has been told.
LEMMA FinishKeeps ==
  ASSUME CommandInv, InstalledInv, IInv, Finish, UNCHANGED <<session, lost, changes, installation>>
  PROVE  CommandInv'
<1>1. PICK status :
        /\ command' = [command EXCEPT !.phase = "exited", !.status = status]
        /\ \/ command.phase = "answered" /\ status = ExitCode(command.code)
           \/ /\ command.phase = "running" /\ ~Running
              /\ status = IF process.result = "ok" THEN 0 ELSE 1
  BY DEF Finish
<1>2. IsCommand /\ UNCHANGED <<open, removals, closed, installation>>
  BY DEF Finish, chrome, CommandInv
<1>3. /\ command'.phase = "exited" /\ command'.status = status
      /\ command'.number = command.number /\ command'.outcome = command.outcome
      /\ IsCommand'
  BY <1>1, <1>2 DEF IsCommand
<1>4. Nothing(command.number)' = Nothing(command.number) /\ CommandIds' = CommandIds /\ (Asks("close"))' = Asks("close")
  BY <1>2, <1>3 DEF Nothing, CommandIds, Asks
<1>5. RequestsInv'
  BY <1>2, <1>3, <1>4 DEF CommandInv, RequestsInv
<1>6. CASE command.phase = "answered" /\ status = ExitCode(command.code)
  <2>1. /\ command.code = "OK" => status = 0
        /\ command.code = "TAB_CLOSE_FAILED" => status = 1
        /\ command.code = "BROWSER_DISCONNECTED" => status = 3
        /\ status = 0 => command.code = "OK"
    BY <1>6 DEF ExitCode
  <2>2. AnsweredInv'
    BY <1>2, <1>3, <1>4, <1>6, <2>1 DEF CommandInv, AnsweredInv, Exited
  <2>3. command.outcome.kind # "install"
    BY <1>2, <1>6 DEF IsCommand
  <2>4. RunningInv'
    BY <1>2, <1>3, <1>6, <2>3 DEF CommandInv, RunningInv, Running, Exited, installation
  <2> QED
    BY <1>3, <1>5, <2>2, <2>4 DEF CommandInv
<1>7. CASE command.phase = "running" /\ ~Running /\ status = IF process.result = "ok" THEN 0 ELSE 1
  <2>1. process.kind = command.outcome.kind /\ process.kind \in {"none", "install", "uninstall"}
    BY <1>7 DEF CommandInv, RunningInv, IInv, InstallationTypeOK, Processes
  <2>2. ~Asks("close")
    BY <2>1 DEF Asks
  <2>3. Nothing(command.number)
    BY <2>2 DEF CommandInv, RequestsInv
  <2>4. AnsweredInv'
    BY <1>4, <2>2, <2>3 DEF AnsweredInv
  <2>5. command.outcome.kind = "install" /\ status = 0 => Ended("install", "ok") \/ process.step = "none"
    BY <1>7, <2>1 DEF Ended, At, Running
  <2>6. process.step = "none" => process.result = "none"
    BY DEF InstalledInv
  <2>7. RunningInv'
    BY <1>2, <1>3, <1>7, <2>5, <2>6 DEF RunningInv, Running, Exited, installation, Ended, At
  <2> QED
    BY <1>3, <1>5, <2>4, <2>7 DEF CommandInv
<1> QED
  BY <1>1, <1>6, <1>7

\* Fewer tabs are open, or the same: what was said of them stays true.
LEMMA UserActs ==
  ASSUME CommandInv, UserCloses \/ UserIgnores
  PROVE  CommandInv'
<1>1. open' \subseteq open /\ UNCHANGED <<session, command, removals, closed, lost, installation>>
  BY DEF UserCloses, UserIgnores
<1>2. UNCHANGED <<CommandIds, Nothing(command.number), Asks("close"), Exited({0})>>
  BY <1>1 DEF CommandIds, Nothing, Asks, Exited
<1>3. RequestsInv'
  BY <1>1, <1>2 DEF CommandInv, RequestsInv
<1>4. AnsweredInv'
  BY <1>1, <1>2 DEF CommandInv, AnsweredInv
<1>5. RunningInv'
  BY <1>1, <1>2 DEF CommandInv, RunningInv, Running, Ended, At, installation
<1> QED
  BY <1>1, <1>3, <1>4, <1>5 DEF CommandInv, IsCommand

\* While no install runs, nothing but hosts and other copies changes what is on disk
\* and in the registry; while one runs, it stays an install.
LEMMA InstallsKeeps ==
  ASSUME CommandInv, IInv, Installs
  PROVE  CommandInv'
<1>1. InstallationStep /\ UNCHANGED <<session, command, open, removals, closed, lost>>
  BY DEF Installs, chrome
<1>2. UNCHANGED <<CommandIds, Nothing(command.number), Asks("close"), Exited({0})>>
  BY <1>1 DEF CommandIds, Nothing, Asks, Exited
<1>3. RequestsInv'
  BY <1>1, <1>2 DEF CommandInv, RequestsInv
<1>4. AnsweredInv'
  BY <1>1, <1>2 DEF CommandInv, AnsweredInv
<1>5. process \in Processes /\ files \in Files
  BY DEF IInv, InstallationTypeOK
<1>6. CASE ~Running
  <2>1. StartHost \/ HostWrites \/ OtherRegisters
    BY <1>1, <1>6
    DEF InstallationStep, ProcessStep, Kill, Running, At, ReadPrevious, WriteManifest, Register, RestoreRegistration,
        RollBack, Unregister, UnregisterStore, RemoveManifest, RemoveManaged, RemoveDirectory
  <2>2. process'.kind = process.kind /\ process'.step = process.step /\ process'.result = process.result
    <3>1. CASE StartHost
      BY <3>1 DEF StartHost, Keep
    <3>2. CASE HostWrites \/ OtherRegisters
      BY <1>5, <3>2, HostMarks, OtherMarks
    <3> QED
      BY <2>1, <3>1, <3>2
  <2> QED
    BY <1>1, <1>2, <1>3, <1>4, <2>2 DEF CommandInv, IsCommand, RunningInv, Running, Ended, At
<1>7. CASE Running
  <2>1. command.phase = "running"
    BY <1>7 DEF CommandInv, RunningInv
  <2>2. process'.kind = process.kind
    <3>1. CASE \E step \in Steps : Then(step) \/ FaultThen(step)
      BY <1>5, <3>1, ThenMoves, FaultMoves DEF SameKind
    <3>2. CASE FaultReturn \/ Return("ok") \/ Return("error")
      BY <1>5, <3>2, ReturnEnds, FaultEnds DEF SameKind
    <3>3. CASE Kill \/ HostWrites \/ StartHost \/ OtherRegisters
      BY <1>5, <3>3, KillEnds, HostMarks, OtherMarks DEF SameKind, StartHost
    <3>4. CASE process' = [process EXCEPT !.step = "create", !.before.registry = Found]
      BY <1>5, <3>4, ReadingNoted
    <3>5. ProcessStep => \/ \E step \in Steps : Then(step) \/ FaultThen(step)
                         \/ FaultReturn \/ Return("ok") \/ Return("error")
                         \/ process' = [process EXCEPT !.step = "create", !.before.registry = Found]
      <4> SUFFICES ASSUME ProcessStep
                   PROVE  \/ \E step \in Steps : Then(step) \/ FaultThen(step)
                          \/ FaultReturn \/ Return("ok") \/ Return("error")
                          \/ process' = [process EXCEPT !.step = "create", !.before.registry = Found]
        OBVIOUS
      <4>1. CASE ReadPrevious \/ WriteManifest \/ Register \/ RestoreRegistration
        BY <4>1 DEF ReadPrevious, WriteManifest, Register, RestoreRegistration, Steps
      <4>2. CASE RollBack \/ Unregister \/ RemoveManifest
        BY <4>2 DEF RollBack, Unregister, UnregisterStore, Look, RemoveManifest, Steps
      <4>3. CASE RemoveManaged \/ RemoveDirectory
        BY <4>3 DEF RemoveManaged, RemoveDirectory, Steps
      <4> QED
        BY <4>1, <4>2, <4>3 DEF ProcessStep
    <3> QED
      BY <1>1, <3>1, <3>2, <3>3, <3>4, <3>5 DEF InstallationStep
  <2> QED
    BY <1>1, <1>2, <1>3, <1>4, <2>1, <2>2 DEF CommandInv, IsCommand, RunningInv, Exited
<1> QED
  BY <1>6, <1>7

\* Nothing has been typed.
LEMMA InitKeeps ==
  ASSUME NEW Sessions, Init(Sessions)
  PROVE  CommandInv /\ InstalledInv
<1>1. /\ command = NewCommand(0, "none", Exit(0), 0) /\ removals = {} /\ closed = {}
      /\ process.kind = "none" /\ process.step = "none" /\ process.result = "none"
  BY DEF Init, InstallationInit
<1>2. /\ command.number = 0 /\ command.phase = "none" /\ IsCommand
  BY <1>1 DEF NewCommand, IsCommand
<1> QED
  BY <1>1, <1>2 DEF CommandInv, RequestsInv, AnsweredInv, RunningInv, InstalledInv, Nothing, Running, Exited, Ended, At

\* Every step of the command line keeps what is said of the command in hand.
LEMMA StepsKeep ==
  ASSUME CommandInv, InstalledInv, IInv, [Next]_vars
  PROVE  CommandInv'
<1>1. CASE TypeLine
  BY <1>1, TypeLineKeeps
<1>2. CASE Disconnect
  BY <1>2, DisconnectKeeps
<1>3. CASE UserCloses \/ UserIgnores
  BY <1>3, UserActs
<1>4. CASE Installs
  BY <1>4, InstallsKeeps
<1>5. CASE (Lists \/ Reads \/ Plans \/ Status) /\ UNCHANGED <<session, lost, changes, installation>>
  BY <1>5, ToolsKeep
<1>6. CASE Closes /\ UNCHANGED <<session, lost, changes, installation>>
  BY <1>6, ClosesKeeps
<1>7. CASE RemoveTabs /\ UNCHANGED <<session, lost, changes, installation>>
  BY <1>7, RemoveTabsKeeps
<1>8. CASE Finish /\ UNCHANGED <<session, lost, changes, installation>>
  BY <1>8, FinishKeeps
<1>9. CASE UNCHANGED vars
  BY <1>9 DEF vars, chrome, installation, CommandInv, IsCommand, RequestsInv, AnsweredInv, RunningInv,
              Nothing, CommandIds, Asks, Exited, Running, Ended, At
<1> QED
  BY <1>1, <1>2, <1>3, <1>4, <1>5, <1>6, <1>7, <1>8, <1>9 DEF Next, Done

\* The three invariants hold at first, and each step keeps them.
LEMMA BeginsWell ==
  ASSUME NEW Sessions, \A s \in Sessions : Proper(s), Init(Sessions)
  PROVE  IInv /\ InstalledInv /\ CommandInv
<1>1. session \in Sessions /\ InstallationInit(session.windows, session.files) /\ Proper(session)
  BY DEF Init
<1>2. session.windows \in BOOLEAN /\ session.files \in Files /\ Intact(session.windows, session.files)
  BY <1>1 DEF Proper, Intact
<1>3. IInv
  BY <1>1, <1>2, InitInvariant
<1> QED
  BY <1>3, InitKeeps

\* The three invariants are kept together.
LEMMA GoesOnWell ==
  ASSUME IInv, InstalledInv, CommandInv, [Next]_vars
  PROVE  (IInv /\ InstalledInv /\ CommandInv)'
<1>1. [InstallationNext]_installation
  BY StepsOfInstallation
<1> QED
  BY <1>1, StepKeeps, InstalledKeeps, StepsKeep

\* ExitCodeForError and writeError: whatever is typed, closed by others, lost or
\* killed, a usage error says that nothing is closed for the line, and zero that
\* all of its tabs are gone, or that Chrome finds the host it has installed.
THEOREM StatusCanBeReliedOn ==
  ASSUME NEW Sessions, \A s \in Sessions : Proper(s)
  PROVE  Init(Sessions) /\ [][Next]_vars => []StatusIsTrue
<1> DEFINE I == IInv /\ InstalledInv /\ CommandInv
<1>1. Init(Sessions) => I
  BY BeginsWell
<1>2. I /\ [Next]_vars => I'
  BY GoesOnWell
<1>3. I => StatusIsTrue
  <2> SUFFICES ASSUME I
               PROVE  StatusIsTrue
    OBVIOUS
  <2>1. Exited({2, 4}) => Nothing(command.number)
    BY DEF CommandInv, AnsweredInv, Exited
  <2>2. Nothing(command.number) => ClosedFor(command.number) = {} /\ \A r \in removals : r.of # command.number
    BY DEF Nothing, ClosedFor
  <2>3. Exited({0}) => /\ Asks("close") => CommandIds \cap open = {}
                       /\ command.outcome.kind = "install" => Usable \/ Disturbed
    BY DEF CommandInv, AnsweredInv, RunningInv, InstalledInv
  <2> QED
    BY <2>1, <2>2, <2>3 DEF StatusIsTrue, CommandIds
<1> QED
  BY <1>1, <1>2, <1>3, PTL

-----------------------------------------------------------------------------
(* What a line is read as.  The readers are recursive functions on the     *)
(* first n tokens of the line, or on those of them that stand at some      *)
(* places; so what they come to is proved token by token.                  *)

\* The tokens of seq are tokens among the first n of line, in their order.
InOrder(seq, line, n) ==
  /\ \A k \in DOMAIN seq : \E a \in 1..n : line[a] = seq[k]
  /\ \A k, l \in DOMAIN seq : k < l => \E a, b \in 1..n : a < b /\ line[a] = seq[k] /\ line[b] = seq[l]

\* One more token, taken or left out, keeps the order.
LEMMA Longer ==
  ASSUME NEW line, NEW n \in Nat, NEW seq \in Seq(Tokens), InOrder(seq, line, n), line[n + 1] \in Tokens
  PROVE  /\ InOrder(seq, line, n + 1)
         /\ Append(seq, line[n + 1]) \in Seq(Tokens) /\ InOrder(Append(seq, line[n + 1]), line, n + 1)
<1> DEFINE t == line[n + 1]
           u == Append(seq, t)
<1>1. /\ u \in Seq(Tokens) /\ Len(seq) \in Nat /\ DOMAIN seq = 1..Len(seq) /\ DOMAIN u = 1..(Len(seq) + 1)
      /\ \A k \in 1..Len(seq) : u[k] = seq[k]
      /\ u[Len(seq) + 1] = t
  <2>1. t \in Tokens
    OBVIOUS
  <2> HIDE DEF t
  <2> QED
    BY <2>1, AppendProperties, LenProperties
<1>2. /\ n + 1 \in 1..(n + 1)
      /\ \A a \in 1..n : a \in 1..(n + 1) /\ a < n + 1
      /\ \A k \in 1..(Len(seq) + 1) : k \in 1..Len(seq) \/ k = Len(seq) + 1
  BY <1>1
<1>3. InOrder(seq, line, n + 1)
  BY <1>2 DEF InOrder
<1> HIDE DEF u
<1>4. \A k \in DOMAIN u : \E a \in 1..(n + 1) : line[a] = u[k]
  BY <1>1, <1>2 DEF InOrder
<1>5. ASSUME NEW k \in DOMAIN u, NEW l \in DOMAIN u, k < l
      PROVE  \E a, b \in 1..(n + 1) : a < b /\ line[a] = u[k] /\ line[b] = u[l]
  <2>1. CASE l = Len(seq) + 1
    <3>1. k \in 1..Len(seq)
      BY <1>1, <1>5, <2>1
    <3>2. PICK a \in 1..n : line[a] = seq[k]
      BY <1>1, <3>1 DEF InOrder
    <3> QED
      BY <1>1, <1>2, <2>1, <3>1, <3>2
  <2>2. CASE l # Len(seq) + 1
    <3>1. k \in 1..Len(seq) /\ l \in 1..Len(seq)
      BY <1>1, <1>5, <2>2
    <3>2. PICK a, b \in 1..n : a < b /\ line[a] = seq[k] /\ line[b] = seq[l]
      <4>1. k \in DOMAIN seq /\ l \in DOMAIN seq /\ k < l
        BY <1>1, <1>5, <3>1
      <4> QED
        BY <4>1, Zenon DEF InOrder
    <3> QED
      BY <1>1, <1>2, <3>1, <3>2
  <2> QED
    BY <2>1, <2>2
<1> QED
  BY <1>1, <1>3, <1>4, <1>5 DEF u, InOrder

\* parseGlobalJSON drops tokens; the others keep their order.
LEMMA KeepsOrder ==
  ASSUME NEW line \in Seq(Tokens)
  PROVE  ParseGlobalJSON(line) \in Seq(Tokens) /\ InOrder(ParseGlobalJSON(line), line, Len(line))
<1> DEFINE N == Len(line)
<1>1. N \in Nat /\ \A n \in 1..N : line[n] \in Tokens
  BY LenProperties, ElementOfSeq
<1> DEFINE places == {i \in DOMAIN line : line[i] # JsonToken}
<1>2. PICK filtered : KeepingOf(filtered, line, places)
  BY Keeping
<1> DEFINE good == {n \in 0..N : filtered[n] \in Seq(Tokens) /\ InOrder(filtered[n], line, n)}
<1>3. 0 \in good
  <2>1. <<>> \in Seq(Tokens) /\ DOMAIN <<>> = {}
    BY EmptySeq
  <2>2. InOrder(<<>>, line, 0)
    BY <2>1 DEF InOrder
  <2>3. filtered[0] = <<>> /\ 0 \in 0..N
    BY <1>1, <1>2 DEF KeepingOf
  <2> QED
    BY <2>1, <2>2, <2>3
<1>4. ASSUME NEW n \in 0..N, n < N, n \in good
      PROVE  n + 1 \in good
  <2>1. n \in Nat /\ n + 1 \in 0..N /\ line[n + 1] \in Tokens
    BY <1>1, <1>4
  <2>2. /\ InOrder(filtered[n], line, n + 1)
        /\ Append(filtered[n], line[n + 1]) \in Seq(Tokens) /\ InOrder(Append(filtered[n], line[n + 1]), line, n + 1)
    BY <1>4, <2>1, Longer
  <2>3. filtered[n + 1] = IF n + 1 \in places THEN Append(filtered[n], line[n + 1]) ELSE filtered[n]
    <3>1. n + 1 \in 1..N /\ (n + 1) - 1 = n
      BY <1>1, <1>4
    <3> HIDE DEF places
    <3> QED
      BY <1>2, <3>1 DEF KeepingOf
  <2> QED
    BY <1>4, <2>1, <2>2, <2>3
<1>5. N \in good
  <2> HIDE DEF good
  <2>1. 0..N \subseteq good
    BY <1>1, <1>3, <1>4, UpTo
  <2> QED
    BY <1>1, <2>1
<1>6. ParseGlobalJSON(line) = filtered[N]
  <2>1. ParseGlobalJSON(line) = ItemsAt(line, places)
    BY DEF ParseGlobalJSON, Chosen
  <2> HIDE DEF places
  <2> QED
    BY <1>2, <2>1 DEF KeepingOf
<1> QED
  BY <1>5, <1>6

Start == [at |-> "flags", flag |-> "", set |-> <<>>, rest |-> <<>>]

\* What Parse has come to when it has read the last argument.
End(s) ==
  [set |-> s.set, rest |-> s.rest,
   result |-> CASE s.at \in {"flags", "rest"}  -> "ok"
                [] s.at \in {"value", "error"} -> "error"
                [] s.at = "help"               -> "help"]

\* state[n] is where Parse is behind the first n arguments.
ReaderOf(state, kinds, args) ==
  /\ state[0] = Start
  /\ \A n \in 1..Len(args) : state[n] = ReadToken(kinds, state[n - 1], args[n])
  /\ ParseFlags(kinds, args) = End(state[Len(args)])

\* The flag package reads one argument after the other.
LEMMA Reader ==
  ASSUME NEW kinds, NEW args, Len(args) \in Nat
  PROVE  \E state : ReaderOf(state, kinds, args)
<1> DEFINE N == Len(args)
           Is(f, m) == f = [i \in 0..m |-> IF i = 0 THEN Start ELSE ReadToken(kinds, f[i - 1], args[i])]
           good == {m \in 0..N : \E f : Is(f, m)}
           state == CHOOSE f : Is(f, N)
<1>1. N \in Nat
  OBVIOUS
<1>2. 0 \in good
  <2> DEFINE f == [i \in 0..0 |-> Start]
  <2>1. \A i \in 0..0 : i = 0 /\ f[i] = Start
    OBVIOUS
  <2>2. Is(f, 0)
    BY <2>1
  <2> HIDE DEF Is, f
  <2> QED
    BY <1>1, <2>2
<1>3. ASSUME NEW m \in 0..N, m < N, m \in good
      PROVE  m + 1 \in good
  <2>1. PICK f : Is(f, m)
    BY <1>3
  <2>2. m + 1 \in 0..N /\ m \in Nat
    BY <1>1, <1>3
  <2> DEFINE g == [i \in 0..(m + 1) |-> IF i = m + 1 THEN ReadToken(kinds, f[m], args[m + 1]) ELSE f[i]]
  <2>3. ASSUME NEW i \in 0..(m + 1)
        PROVE  g[i] = IF i = 0 THEN Start ELSE ReadToken(kinds, g[i - 1], args[i])
    <3>1. CASE i = m + 1
      <4>1. i # 0 /\ i - 1 = m /\ m \in 0..(m + 1) /\ m # m + 1
        BY <2>2, <3>1
      <4> QED
        BY <3>1, <4>1
    <3>2. CASE i # m + 1
      <4>1. i \in 0..m /\ (i # 0 => i - 1 \in 0..(m + 1) /\ i - 1 # m + 1)
        BY <2>2, <3>2
      <4>2. g[i] = f[i] /\ (i # 0 => g[i - 1] = f[i - 1])
        BY <3>2, <4>1
      <4>3. f[i] = IF i = 0 THEN Start ELSE ReadToken(kinds, f[i - 1], args[i])
        BY <2>1, <4>1
      <4> QED
        BY <4>2, <4>3
    <3> QED
      BY <3>1, <3>2
  <2>4. Is(g, m + 1)
    <3>1. g = [i \in 0..(m + 1) |-> g[i]]
      OBVIOUS
    <3> HIDE DEF g
    <3> QED
      BY <2>3, <3>1
  <2> HIDE DEF Is, g
  <2> QED
    BY <2>2, <2>4
<1>4. Is(state, N)
  <2> HIDE DEF good, Is
  <2>1. 0..N \subseteq good
    BY <1>1, <1>2, <1>3, UpTo
  <2>2. \E f : Is(f, N)
    BY <1>1, <2>1 DEF good
  <2> QED
    BY <2>2
<1>5. ParseFlags(kinds, args) = End(state[N])
  BY DEF ParseFlags, End, Start
<1> HIDE DEF state
<1>6. state[0] = Start
  BY <1>1, <1>4
<1>7. ASSUME NEW n \in 1..N
      PROVE  state[n] = ReadToken(kinds, state[n - 1], args[n])
  <2>1. n \in 0..N /\ n # 0
    BY <1>1
  <2> QED
    BY <1>4, <2>1
<1> QED
  BY <1>5, <1>6, <1>7 DEF ReaderOf

\* state[n] is where Parse is behind those of the first n arguments that stand at
\* places.
ReaderAt(state, kinds, args, places) ==
  /\ state[0] = Start
  /\ \A n \in 1..Len(args) : state[n] = IF n \in places THEN ReadToken(kinds, state[n - 1], args[n]) ELSE state[n - 1]
  /\ ParseFlags(kinds, ItemsAt(args, places)) = End(state[Len(args)])

\* Reading some of the arguments is reading them all and passing over the others.
LEMMA PassesOver ==
  ASSUME NEW kinds, NEW args \in Seq(Tokens), NEW places
  PROVE  \E state : ReaderAt(state, kinds, args, places)
<1> DEFINE N == Len(args)
           items == ItemsAt(args, places)
<1>1. N \in Nat /\ items \in Seq(Tokens) /\ Len(items) \in Nat
  BY LenProperties, ItemsAreAList
<1>2. PICK kept : /\ kept \in [0..N -> Seq(Tokens)] /\ KeepingOf(kept, args, places)
                  /\ StandsBehind(kept, args, places)
  BY KeptBefore
<1> HIDE DEF items
<1>3. PICK reader : ReaderOf(reader, kinds, items)
  BY <1>1, Reader
<1> DEFINE state == [n \in 0..N |-> reader[Len(kept[n])]]
<1>4. state[0] = Start
  <2>1. kept[0] = <<>> /\ Len(<<>>) = 0
    BY <1>2, EmptySeq DEF KeepingOf
  <2> QED
    BY <1>1, <1>3, <2>1 DEF ReaderOf
<1>5. ASSUME NEW n \in 1..N
      PROVE  state[n] = IF n \in places THEN ReadToken(kinds, state[n - 1], args[n]) ELSE state[n - 1]
  <2>1. n \in 0..N /\ n - 1 \in 0..N
    BY <1>1
  <2>2. state[n] = reader[Len(kept[n])] /\ state[n - 1] = reader[Len(kept[n - 1])]
    BY <2>1
  <2> HIDE DEF state
  <2>3. CASE n \in places
    <3> DEFINE p == Len(kept[n])
    <3>1. p = Len(kept[n - 1]) + 1 /\ p \in 1..Len(items) /\ items[p] = args[n] /\ Len(kept[n - 1]) \in Nat
      <4>1. Len(kept[n - 1]) \in Nat
        BY <1>2, <2>1, LenProperties
      <4> QED
        BY <1>2, <2>3, <4>1 DEF StandsBehind, items
    <3>2. p - 1 = Len(kept[n - 1])
      BY <3>1
    <3> HIDE DEF p
    <3>3. reader[p] = ReadToken(kinds, reader[p - 1], items[p])
      BY <1>3, <3>1 DEF ReaderOf
    <3> QED
      BY <2>2, <2>3, <3>1, <3>2, <3>3 DEF p
  <2>4. CASE n \notin places
    BY <1>2, <2>2, <2>4 DEF KeepingOf
  <2> QED
    BY <2>3, <2>4
<1>6. ParseFlags(kinds, items) = End(state[N])
  <2>1. kept[N] = items
    BY <1>2 DEF KeepingOf, items
  <2>2. N \in 0..N
    BY <1>1
  <2> QED
    BY <1>3, <2>1, <2>2 DEF ReaderOf
<1> HIDE DEF state
<1> QED
  BY <1>4, <1>5, <1>6 DEF ReaderAt, items

\* Where the flag package is, as a record.
IsState(s) == s = [at |-> s.at, flag |-> s.flag, set |-> s.set, rest |-> s.rest]

\* It is one at first.
LEMMA StartIsState == IsState(Start)
BY DEF IsState, Start

\* What it comes to: it stops, passes over a token, sets a flag, waits for a value,
\* or leaves a token.
Stops(u)              == u.at \in {"error", "help"}
Goes(s, u, at)        == u.at = at /\ u.flag = s.flag /\ u.set = s.set /\ u.rest = s.rest
Sets(s, u, flag, value) ==
  /\ u.at = "flags" /\ u.rest = s.rest
  /\ DOMAIN u.set = DOMAIN s.set \cup {flag} /\ u.set[flag] = value
  /\ \A f \in DOMAIN s.set \ {flag} : u.set[f] = s.set[f]
Waits(s, u, flag)     == u.at = "value" /\ u.flag = flag /\ u.set = s.set /\ u.rest = s.rest
Leaves(s, u, t)       == u.at = "rest" /\ u.set = s.set /\ u.rest = Append(s.rest, t)

\* A flag is set to a value, or the value is none.
LEMMA Assigning ==
  ASSUME NEW kinds, NEW s, NEW flag, NEW t, NEW u, IsState(s), u = Assign(kinds, s, flag, t)
  PROVE  /\ IsState(u)
         /\ \/ Stops(u)
            \/ kinds[flag] = "int" /\ ParseInt(t) # Null /\ Sets(s, u, flag, ParseInt(t))
            \/ kinds[flag] = "string" /\ Sets(s, u, flag, Text(t))
            \/ kinds[flag] \notin {"int", "string"} /\ \E value : Sets(s, u, flag, value)
<1> DEFINE value == CASE kinds[flag] = "int"    -> ParseInt(t)
                      [] kinds[flag] = "bool"   -> ParseBool(t.name)
                      [] kinds[flag] = "string" -> Text(t)
           set == [f \in DOMAIN s.set \cup {flag} |-> IF f = flag THEN value ELSE s.set[f]]
<1>1. u = IF value = Null THEN [s EXCEPT !.at = "error"] ELSE [s EXCEPT !.at = "flags", !.set = set]
  BY DEF Assign
<1>2. /\ kinds[flag] = "int" => value = ParseInt(t)
      /\ kinds[flag] = "string" => value = Text(t)
  OBVIOUS
<1>3. DOMAIN set = DOMAIN s.set \cup {flag} /\ set[flag] = value /\ \A f \in DOMAIN s.set \ {flag} : set[f] = s.set[f]
  OBVIOUS
<1> HIDE DEF value, set
<1>4. CASE value = Null
  <2>1. u = [at |-> "error", flag |-> s.flag, set |-> s.set, rest |-> s.rest]
    BY <1>1, <1>4 DEF IsState
  <2> QED
    BY <2>1 DEF IsState, Stops
<1>5. CASE value # Null
  <2>1. u = [at |-> "flags", flag |-> s.flag, set |-> set, rest |-> s.rest]
    BY <1>1, <1>5 DEF IsState
  <2>2. IsState(u) /\ u.at = "flags" /\ u.set = set /\ u.rest = s.rest
    BY <2>1 DEF IsState
  <2>3. Sets(s, u, flag, value)
    BY <1>3, <2>2 DEF Sets
  <2> QED
    BY <1>2, <1>5, <2>2, <2>3
<1> QED
  BY <1>4, <1>5

\* A flag is read, without its dashes.
Flagged(kinds, s, u, t) ==
  \/ Stops(u)
  \/ /\ t.name \in DOMAIN kinds
     /\ \/ /\ t.value # ""
           /\ \/ /\ kinds[t.name] = "int" /\ ParseInt(Word(t.value)) # Null
                 /\ Sets(s, u, t.name, ParseInt(Word(t.value)))
              \/ kinds[t.name] = "string" /\ Sets(s, u, t.name, t.value)
              \/ kinds[t.name] \notin {"int", "string"} /\ \E value : Sets(s, u, t.name, value)
        \/ t.value = "" /\ kinds[t.name] = "bool" /\ \E value : Sets(s, u, t.name, value)
        \/ t.value = "" /\ kinds[t.name] # "bool" /\ Waits(s, u, t.name)

\* ReadFlag does one of these.
LEMMA FlagReading ==
  ASSUME NEW kinds, NEW s, NEW t, NEW u, IsState(s), u = ReadFlag(kinds, s, t)
  PROVE  IsState(u) /\ Flagged(kinds, s, u, t)
<1>1. CASE t.name \notin DOMAIN kinds
  <2>1. PICK at \in {"help", "error"} : u = [s EXCEPT !.at = at]
    BY <1>1 DEF ReadFlag
  <2>2. u = [at |-> at, flag |-> s.flag, set |-> s.set, rest |-> s.rest]
    BY <2>1 DEF IsState
  <2>3. IsState(u) /\ u.at = at
    BY <2>2 DEF IsState
  <2>4. Stops(u)
    BY <2>3 DEF Stops
  <2> QED
    BY <2>3, <2>4 DEF Flagged
<1>2. CASE t.name \in DOMAIN kinds /\ t.value # ""
  <2>1. u = Assign(kinds, s, t.name, Word(t.value))
    BY <1>2 DEF ReadFlag
  <2>2. Text(Word(t.value)) = t.value
    BY DEF Text, Word, Token
  <2> QED
    BY <1>2, <2>1, <2>2, Assigning DEF Flagged
<1>3. CASE t.name \in DOMAIN kinds /\ t.value = "" /\ kinds[t.name] = "bool"
  <2>1. u = Assign(kinds, s, t.name, Word("true"))
    BY <1>3 DEF ReadFlag
  <2>2. kinds[t.name] \notin {"int", "string"}
    BY <1>3
  <2> QED
    BY <1>3, <2>1, <2>2, Assigning DEF Flagged
<1>4. CASE t.name \in DOMAIN kinds /\ t.value = "" /\ kinds[t.name] # "bool"
  <2>1. u = [s EXCEPT !.at = "value", !.flag = t.name]
    BY <1>4 DEF ReadFlag
  <2>2. u = [at |-> "value", flag |-> t.name, set |-> s.set, rest |-> s.rest]
    BY <2>1 DEF IsState
  <2>3. IsState(u) /\ Waits(s, u, t.name)
    BY <2>2 DEF IsState, Waits
  <2> QED
    BY <1>4, <2>3 DEF Flagged
<1> QED
  BY <1>1, <1>2, <1>3, <1>4

\* One token is read.
Advances(kinds, s, u, t) ==
  \/ s.at \in {"error", "help"} /\ u = s
  \/ /\ s.at = "value"
     /\ \/ Stops(u)
        \/ kinds[s.flag] = "int" /\ ParseInt(t) # Null /\ Sets(s, u, s.flag, ParseInt(t))
        \/ kinds[s.flag] = "string" /\ Sets(s, u, s.flag, Text(t))
        \/ kinds[s.flag] \notin {"int", "string"} /\ \E value : Sets(s, u, s.flag, value)
  \/ s.at \notin {"error", "help", "value"} /\ (s.at = "rest" \/ t.dashes = 0 \/ t = Dash) /\ Leaves(s, u, t)
  \/ s.at \notin {"error", "help", "value", "rest"} /\ t = Terminator /\ Goes(s, u, "rest")
  \/ s.at \notin {"error", "help", "value", "rest"} /\ t.dashes # 0 /\ Flagged(kinds, s, u, t)

\* ReadToken does one of these.
LEMMA TokenReading ==
  ASSUME NEW kinds, NEW s, NEW t, NEW u, IsState(s), u = ReadToken(kinds, s, t)
  PROVE  IsState(u) /\ Advances(kinds, s, u, t)
<1>1. CASE s.at \in {"error", "help"}
  BY <1>1 DEF ReadToken, Advances
<1>2. CASE s.at = "value"
  <2>1. u = Assign(kinds, s, s.flag, t)
    BY <1>2 DEF ReadToken
  <2> QED
    BY <1>2, <2>1, Assigning DEF Advances
<1>3. CASE s.at \notin {"error", "help", "value"} /\ (s.at = "rest" \/ t.dashes = 0 \/ t = Dash)
  <2>1. u = [s EXCEPT !.at = "rest", !.rest = Append(s.rest, t)]
    BY <1>3 DEF ReadToken
  <2> DEFINE more == Append(s.rest, t)
  <2>2. u = [at |-> "rest", flag |-> s.flag, set |-> s.set, rest |-> more]
    <3>1. u = [s EXCEPT !.at = "rest", !.rest = more]
      BY <2>1
    <3> HIDE DEF more
    <3> QED
      BY <3>1 DEF IsState
  <2>3. IsState(u) /\ u.at = "rest" /\ u.set = s.set /\ u.rest = more
    <3> HIDE DEF more
    <3> QED
      BY <2>2 DEF IsState
  <2>4. Leaves(s, u, t)
    BY <2>3 DEF Leaves
  <2> QED
    BY <1>3, <2>3, <2>4 DEF Advances
<1>4. CASE s.at \notin {"error", "help", "value", "rest"} /\ ~(t.dashes = 0 \/ t = Dash) /\ t = Terminator
  <2>1. u = [s EXCEPT !.at = "rest"]
    <3>1. ReadToken(kinds, s, t) = [s EXCEPT !.at = "rest"]
      BY <1>4, Zenon DEF ReadToken
    <3> QED
      BY <3>1
  <2>2. u = [at |-> "rest", flag |-> s.flag, set |-> s.set, rest |-> s.rest]
    BY <2>1 DEF IsState
  <2>3. IsState(u) /\ Goes(s, u, "rest")
    BY <2>2 DEF IsState, Goes
  <2> QED
    BY <1>4, <2>3 DEF Advances
<1>5. CASE s.at \notin {"error", "help", "value", "rest"} /\ ~(t.dashes = 0 \/ t = Dash) /\ t # Terminator
  <2>1. u = ReadFlag(kinds, s, t)
    BY <1>5 DEF ReadToken
  <2> QED
    BY <1>5, <2>1, FlagReading DEF Advances
<1> QED
  BY <1>1, <1>2, <1>3, <1>4, <1>5

-----------------------------------------------------------------------------
(* Which command a line is for.                                            *)

\* A command comes to what one of the commands comes to.
LEMMA Dispatches ==
  ASSUME NEW args, NEW json, args # <<>>
  PROVE  LET rest == Tail(args) IN
         RunCommand(args, json) \in {
           Exit(0), Unknown(json), Alone("report", rest), Alone("status", rest), Alone("install", rest),
           Alone("uninstall", rest), ListTabsCommand(rest, json), ContentCommand(rest, json),
           CompareCommand(rest, json), DiffCommand(rest, json), CloseCommand(rest, json), GroupCommands(rest, json)}
BY DEF RunCommand

\* The commands that the properties are about.
CommandOf(tool, args, json) ==
  CASE tool = "list"    -> ListTabsCommand(args, json)
    [] tool = "content" -> ContentCommand(args, json)
    [] tool = "compare" -> CompareCommand(args, json)
    [] tool = "diff"    -> DiffCommand(args, json)
    [] tool = "close"   -> CloseCommand(args, json)

AsksFor(outcome, tools) == outcome.kind = "call" => outcome.tool \in tools

\* Each command asks for its own tool.
LEMMA AsksForItsOwn ==
  ASSUME NEW args, NEW json
  PROVE  /\ AsksFor(ListTabsCommand(args, json), {"list"}) /\ AsksFor(ContentCommand(args, json), {"content"})
         /\ AsksFor(CompareCommand(args, json), {"compare"}) /\ AsksFor(DiffCommand(args, json), {"diff"})
         /\ AsksFor(CloseCommand(args, json), {"close"})
         /\ AsksFor(GroupCommands(args, json), {"group list", "group preview", "group apply", "group undo"})
<1>1. \A tools, x : AsksFor(Exit(x), tools) /\ AsksFor(Reject(x), tools)
  BY DEF AsksFor, Exit, Reject
<1>2. \A tools, tool, input : tool \in tools => AsksFor(Call(tool, input), tools)
  BY DEF AsksFor, Call
<1>3. \A tools, parsed, outcome : AsksFor(outcome, tools) => AsksFor(AfterParse(parsed, json, outcome), tools)
  BY <1>1 DEF AfterParse
<1>4. AsksFor(ListTabsCommand(args, json), {"list"})
  <2> DEFINE parsed   == ParseFlags(ListFlags, args)
             window   == Setting(parsed, "window", 0)
             group    == Setting(parsed, "group", 0)
             word     == Setting(parsed, "inactive-for", "")
             duration == ParseDuration(word)
             input    == [window |-> OrNone(window), group |-> OrNone(group),
                          ungrouped |-> Setting(parsed, "ungrouped", FALSE),
                          inactive |-> IF word = "" THEN Null ELSE duration \div Units["s"],
                          sort |-> Setting(parsed, "sort", ""), order |-> Setting(parsed, "sort-order", "asc")]
             outcome  == IF parsed.rest # <<>> \/ window < 0 \/ group < 0 THEN Reject("INVALID_ARGUMENT")
                         ELSE IF word # "" /\ duration = Null THEN Reject("INVALID_DURATION")
                         ELSE Call("list", input)
  <2>1. ListTabsCommand(args, json) = AfterParse(parsed, json, outcome)
    BY DEF ListTabsCommand
  <2> HIDE DEF parsed, window, group, word, duration, input
  <2>2. outcome \in {Reject("INVALID_ARGUMENT"), Reject("INVALID_DURATION"), Call("list", input)}
    BY Zenon
  <2> HIDE DEF outcome
  <2>3. AsksFor(outcome, {"list"})
    BY <1>1, <1>2, <2>2
  <2> QED
    BY <1>3, <2>1, <2>3
<1>5. \A a, tools : "group list" \in tools => AsksFor(ListGroupsCommand(a, json), tools)
  BY <1>1, <1>2, <1>3 DEF ListGroupsCommand
<1>6. AsksFor(ContentCommand(args, json), {"content"})
  <2>1. PICK parsed, tabs, id :
          ContentCommand(args, json) =
            AfterParse(parsed, json,
              IF Len(tabs) # 1 \/ Bad(<<id>>) THEN Reject("INVALID_ARGUMENT")
              ELSE Call("content", [id |-> id, max |-> Setting(parsed, "max-chars", 0)]))
    BY DEF ContentCommand
  <2> DEFINE outcome == IF Len(tabs) # 1 \/ Bad(<<id>>) THEN Reject("INVALID_ARGUMENT")
                        ELSE Call("content", [id |-> id, max |-> Setting(parsed, "max-chars", 0)])
  <2>2. AsksFor(outcome, {"content"})
    BY <1>1, <1>2
  <2>3. ContentCommand(args, json) = AfterParse(parsed, json, outcome)
    BY <2>1
  <2> HIDE DEF outcome
  <2> QED
    BY <1>3, <2>2, <2>3
<1>7. AsksFor(CompareCommand(args, json), {"compare"}) /\ AsksFor(DiffCommand(args, json), {"diff"})
  BY <1>1, <1>2, <1>3 DEF CompareCommand, DiffCommand
<1>8. AsksFor(CloseCommand(args, json), {"close"})
  BY <1>1, <1>2, <1>3 DEF CloseCommand
<1>9. \A tool, flag, a, tools : tool \in tools => AsksFor(GroupCommand(tool, flag, a, json), tools)
  BY <1>1, <1>2, <1>3 DEF GroupCommand
<1>10. AsksFor(GroupCommands(args, json), {"group list", "group preview", "group apply", "group undo"})
  <2> DEFINE tools == {"group list", "group preview", "group apply", "group undo"}
  <2>1. "group list" \in tools /\ "group preview" \in tools /\ "group apply" \in tools /\ "group undo" \in tools
    OBVIOUS
  <2>2. AsksFor(Unknown(json), tools)
    BY <1>1 DEF Unknown
  <2> HIDE DEF tools
  <2>3. AsksFor(GroupCommands(args, json), tools)
    BY <1>5, <1>9, <2>1, <2>2 DEF GroupCommands
  <2> QED
    BY <2>3 DEF tools
<1> QED
  BY <1>4, <1>6, <1>7, <1>8, <1>10

\* Command.Run: a tool that is asked for is asked for by its command.
LEMMA RunsCommand ==
  ASSUME NEW args, NEW json, NEW tool \in {"list", "content", "compare", "diff", "close"},
         RunCommand(args, json).kind = "call", RunCommand(args, json).tool = tool
  PROVE  args # <<>> /\ RunCommand(args, json) = CommandOf(tool, Tail(args), json)
<1> DEFINE rest == Tail(args)
           outcome == RunCommand(args, json)
           None(out) == out.kind # "call"
<1>1. /\ \A x : None(Exit(x)) /\ None(Reject(x))
      /\ \A what : what \in {"report", "status", "install", "uninstall"} => None(Do(what))
  BY DEF Exit, Reject, Do
<1>2. ~None(outcome) /\ outcome.tool = tool
  OBVIOUS
<1> HIDE DEF None
<1>3. /\ None(Unknown(json))
      /\ None(Alone("report", rest)) /\ None(Alone("status", rest))
      /\ None(Alone("install", rest)) /\ None(Alone("uninstall", rest))
  BY <1>1 DEF Unknown, Alone
<1>4. args # <<>>
  BY <1>2, <1>3 DEF RunCommand
<1>5. outcome \in {
         Exit(0), Unknown(json), Alone("report", rest), Alone("status", rest), Alone("install", rest),
         Alone("uninstall", rest), ListTabsCommand(rest, json), ContentCommand(rest, json),
         CompareCommand(rest, json), DiffCommand(rest, json), CloseCommand(rest, json), GroupCommands(rest, json)}
  BY <1>4, Dispatches
<1> HIDE DEF outcome, rest
<1>6. outcome \in {ListTabsCommand(rest, json), ContentCommand(rest, json), CompareCommand(rest, json),
                   DiffCommand(rest, json), CloseCommand(rest, json), GroupCommands(rest, json)}
  BY <1>1, <1>2, <1>3, <1>5
<1>7. outcome.kind = "call"
  BY <1>2 DEF None
<1>8. /\ outcome = ListTabsCommand(rest, json) => tool = "list"
      /\ outcome = ContentCommand(rest, json) => tool = "content"
      /\ outcome = CompareCommand(rest, json) => tool = "compare"
      /\ outcome = DiffCommand(rest, json) => tool = "diff"
      /\ outcome = CloseCommand(rest, json) => tool = "close"
      /\ outcome # GroupCommands(rest, json)
  <2>1. \A tools : AsksFor(outcome, tools) => tool \in tools
    BY <1>2, <1>7 DEF AsksFor
  <2>2. /\ AsksFor(ListTabsCommand(rest, json), {"list"}) /\ AsksFor(ContentCommand(rest, json), {"content"})
        /\ AsksFor(CompareCommand(rest, json), {"compare"}) /\ AsksFor(DiffCommand(rest, json), {"diff"})
        /\ AsksFor(CloseCommand(rest, json), {"close"})
        /\ AsksFor(GroupCommands(rest, json), {"group list", "group preview", "group apply", "group undo"})
    BY AsksForItsOwn
  <2>3. outcome = ListTabsCommand(rest, json) => tool = "list"
    BY <2>1, <2>2
  <2>4. outcome = ContentCommand(rest, json) => tool = "content"
    BY <2>1, <2>2
  <2>5. outcome = CompareCommand(rest, json) => tool = "compare"
    BY <2>1, <2>2
  <2>6. outcome = DiffCommand(rest, json) => tool = "diff"
    BY <2>1, <2>2
  <2>7. outcome = CloseCommand(rest, json) => tool = "close"
    BY <2>1, <2>2
  <2>8. outcome # GroupCommands(rest, json)
    BY <2>1, <2>2
  <2> QED
    BY <2>3, <2>4, <2>5, <2>6, <2>7, <2>8
<1>9. outcome = CommandOf(tool, rest, json)
  BY <1>6, <1>8 DEF CommandOf
<1> QED
  BY <1>4, <1>9 DEF outcome, rest

\* A command that asks for a tool has been parsed, and is what its arguments ask for.
LEMMA AsksWhenParsed ==
  ASSUME NEW parsed, NEW json, NEW outcome, AfterParse(parsed, json, outcome).kind = "call"
  PROVE  parsed.result = "ok" /\ AfterParse(parsed, json, outcome) = outcome
<1>1. \A x : Exit(x).kind # "call" /\ Reject(x).kind # "call"
  BY DEF Exit, Reject
<1> QED
  BY <1>1 DEF AfterParse

\* A line's arguments, without --json and the command.
Arguments(line) == Tail(Chosen(line, LAMBDA t : t # JsonToken))

\* main: a line that calls a tool is its command's.
LEMMA RunsAsCommand ==
  ASSUME NEW line \in Seq(Tokens), NEW tool \in {"list", "content", "compare", "diff", "close"},
         Run(line).kind = "call", Run(line).tool = tool
  PROVE  Arguments(line) \in Seq(Tokens) /\ \E json : Run(line) = CommandOf(tool, Arguments(line), json)
<1> DEFINE args == ParseGlobalJSON(line)
<1>1. PICK json : Run(line) = RunCommand(args, json)
  <2>1. Run(line) # Exit(0)
    BY DEF Exit
  <2> QED
    BY <2>1, Zenon DEF Run
<1>2. args # <<>> /\ Run(line) = CommandOf(tool, Tail(args), json)
  BY <1>1, RunsCommand
<1>3. args \in Seq(Tokens)
  BY KeepsOrder
<1>4. Arguments(line) = Tail(args)
  BY DEF Arguments, ParseGlobalJSON
<1> HIDE DEF args
<1>5. Tail(args) \in Seq(Tokens)
  BY <1>2, <1>3, HeadTailProperties
<1> QED
  BY <1>2, <1>4, <1>5

-----------------------------------------------------------------------------
(* The line in hand: what it has come to, and what a step does to that.    *)

\* What a line has come to is what Run says of it.
LineInv ==
  /\ session.script \in Seq(Seq(Tokens))
  /\ command.number \in 0..Len(session.script)
  /\ command.outcome = IF command.number = 0 THEN Exit(0) ELSE Run(Line(command.number))

\* A line is typed, or the last one stays what it is, and lists tabs at most.
TypesNext ==
  LET n == command.number + 1
  IN n <= Len(session.script) /\ command'.number = n /\ command'.outcome = Run(Line(n)) /\ command'.listed = <<>>

ListsNow ==
  \/ Asks("group list")
  \/ LET result == ListTabs(Tabs, command.outcome.input, Now)
     IN Asks("list") /\ command'.listed = IF result.code = "OK" THEN result.value ELSE <<>>

StaysTheLine ==
  /\ command'.number = command.number /\ command'.outcome = command.outcome
  /\ command'.listed = command.listed \/ ListsNow

\* Whatever code it answers with, an answer lists nothing.
LEMMA PlainAnswer ==
  ASSUME IsCommand, NEW code, Answer(code)
  PROVE  command'.number = command.number /\ command'.outcome = command.outcome /\ command'.listed = command.listed
BY DEF IsCommand, Answer

\* An answer with tabs lists these.
LEMMA ListAnswer ==
  ASSUME IsCommand, NEW result, AnswerList(result)
  PROVE  /\ command'.number = command.number /\ command'.outcome = command.outcome
         /\ command'.listed = IF result.code = "OK" THEN result.value ELSE <<>>
<1> DEFINE listed == IF result.code = "OK" THEN result.value ELSE <<>>
<1>1. command' = [command EXCEPT !.phase = "answered", !.code = result.code, !.listed = listed]
  BY DEF AnswerList
<1> HIDE DEF listed
<1>2. command'.number = command.number /\ command'.outcome = command.outcome /\ command'.listed = listed
  BY <1>1 DEF IsCommand
<1> QED
  BY <1>2 DEF listed

\* So it is with every step.
LEMMA EveryStep ==
  ASSUME IsCommand, [Next]_vars
  PROVE  UNCHANGED session /\ (TypesNext \/ StaysTheLine)
<1>1. CASE TypeLine
  <2> DEFINE n == command.number + 1
             outcome == Run(Line(n))
  <2>1. UNCHANGED session /\ n <= Len(session.script)
    BY <1>1 DEF TypeLine
  <2>2. PICK phase, status : command' = NewCommand(n, phase, outcome, status)
    BY <1>1 DEF TypeLine
  <2> HIDE DEF n, outcome
  <2>3. command'.outcome = outcome /\ command'.number = n /\ command'.listed = <<>>
    BY <2>2 DEF NewCommand
  <2> QED
    BY <2>1, <2>3 DEF TypesNext, n, outcome
<1>2. CASE Lists /\ UNCHANGED <<session, lost, changes, installation>>
  <2>1. CASE Asked("list") /\ AnswerList(ListTabs(Tabs, command.outcome.input, Now))
    <3> DEFINE result == ListTabs(Tabs, command.outcome.input, Now)
    <3>1. AnswerList(result) /\ Asks("list")
      BY <2>1 DEF Asked, Asks
    <3> HIDE DEF result
    <3>2. /\ command'.number = command.number /\ command'.outcome = command.outcome
          /\ command'.listed = IF result.code = "OK" THEN result.value ELSE <<>>
      BY <3>1, ListAnswer
    <3> QED
      BY <1>2, <3>1, <3>2 DEF StaysTheLine, ListsNow, result
  <2>2. CASE Asked("group list") /\ AnswerList(ListGroups(Tabs, session.groups, command.outcome.input))
    <3> DEFINE result == ListGroups(Tabs, session.groups, command.outcome.input)
    <3>1. AnswerList(result) /\ Asks("group list")
      BY <2>2 DEF Asked, Asks
    <3> HIDE DEF result
    <3>2. command'.number = command.number /\ command'.outcome = command.outcome
      BY <3>1, ListAnswer
    <3> QED
      BY <1>2, <3>1, <3>2 DEF StaysTheLine, ListsNow
  <2> QED
    BY <1>2, <2>1, <2>2 DEF Lists
<1>3. CASE (Reads \/ Plans \/ Status) /\ UNCHANGED <<session, lost, changes, installation>>
  <2>1. \E code : Answer(code)
    BY <1>3 DEF Reads, Plans, Status
  <2> QED
    BY <1>3, <2>1, PlainAnswer DEF StaysTheLine
<1>4. CASE Closes /\ UNCHANGED <<session, lost, changes, installation>>
  <2>1. (\E code : Answer(code)) \/ command' = [command EXCEPT !.phase = "closing"]
    BY <1>4 DEF Closes
  <2>2. command' = [command EXCEPT !.phase = "closing"] =>
          command'.number = command.number /\ command'.outcome = command.outcome /\ command'.listed = command.listed
    BY DEF IsCommand
  <2> QED
    BY <1>4, <2>1, <2>2, PlainAnswer DEF StaysTheLine
<1>5. CASE RemoveTabs /\ UNCHANGED <<session, lost, changes, installation>>
  <2>1. (\E code : Answer(code)) \/ command' = command
    BY <1>5 DEF RemoveTabs
  <2> QED
    BY <1>5, <2>1, PlainAnswer DEF StaysTheLine
<1>6. CASE Disconnect
  BY <1>6, PlainAnswer DEF Disconnect, StaysTheLine
<1>7. CASE Finish /\ UNCHANGED <<session, lost, changes, installation>>
  <2>1. command'.number = command.number /\ command'.outcome = command.outcome /\ command'.listed = command.listed
    BY <1>7 DEF Finish, IsCommand
  <2> QED
    BY <1>7, <2>1 DEF StaysTheLine
<1>8. CASE UserCloses \/ UserIgnores \/ Installs \/ UNCHANGED vars
  BY <1>8 DEF UserCloses, UserIgnores, Installs, vars, StaysTheLine
<1> QED
  BY <1>1, <1>2, <1>3, <1>4, <1>5, <1>6, <1>7, <1>8 DEF Next, Done

\* Before the first line nothing has been asked for, and nothing listed.
LEMMA LineInvBegins ==
  ASSUME NEW Sessions, \A s \in Sessions : Proper(s), Init(Sessions)
  PROVE  LineInv /\ command.listed = <<>>
<1>1. session.script \in Seq(Seq(Tokens)) /\ command = NewCommand(0, "none", Exit(0), 0)
  BY DEF Init, Proper
<1>2. command.number = 0 /\ command.outcome = Exit(0) /\ command.listed = <<>>
  BY <1>1 DEF NewCommand
<1>3. 0 \in 0..Len(session.script)
  BY <1>1, LenProperties
<1> QED
  BY <1>1, <1>2, <1>3 DEF LineInv

\* A line is read once, when it is typed.
LEMMA LineInvKeeps ==
  ASSUME LineInv, IsCommand, [Next]_vars
  PROVE  LineInv'
<1>1. UNCHANGED session /\ (TypesNext \/ StaysTheLine)
  BY EveryStep
<1>2. CASE TypesNext
  <2> DEFINE n == command.number + 1
  <2>1. n <= Len(session.script) /\ command'.number = n /\ command'.outcome = Run(Line(n))
    BY <1>2 DEF TypesNext
  <2>2. Len(session.script) \in Nat /\ command.number \in Nat
    BY LenProperties DEF LineInv, IsCommand
  <2>3. n \in 0..Len(session.script) /\ n # 0
    BY <2>1, <2>2
  <2> HIDE DEF n
  <2> QED
    BY <1>1, <2>1, <2>3 DEF LineInv, Line
<1>3. CASE StaysTheLine
  BY <1>1, <1>3 DEF StaysTheLine, LineInv, Line
<1> QED
  BY <1>1, <1>2, <1>3

\* A tool that is asked for is asked for by the line that has been typed.
LEMMA LineInHand ==
  ASSUME LineInv, NEW tool, Asks(tool)
  PROVE  /\ Line(command.number) \in Seq(Tokens) /\ command.outcome = Run(Line(command.number))
         /\ Run(Line(command.number)).kind = "call" /\ Run(Line(command.number)).tool = tool
<1>1. Exit(0).kind # "call"
  BY DEF Exit
<1>2. command.number # 0 /\ command.outcome = Run(Line(command.number))
  BY <1>1 DEF LineInv, Asks
<1>3. command.number \in 1..Len(session.script)
  BY <1>2, LenProperties DEF LineInv
<1>4. Line(command.number) \in Seq(Tokens)
  BY <1>3, ElementOfSeq DEF LineInv, Line
<1> QED
  BY <1>2, <1>4 DEF Asks

-----------------------------------------------------------------------------
(* Closing tabs.                                                           *)

\* The flags of close.
CloseFlags == Flags({"confirm", "json"}, {}, {})

Settings == UNION {[D -> BOOLEAN] : D \in SUBSET {"confirm", "json"}}
Readings == [at : {"flags", "rest", "error", "help"}, flag : {""}, set : Settings, rest : Seq(Tokens)]

Confirms(t)   == t.dashes > 0 /\ t.name = "confirm" /\ t.value \in {""} \cup TrueWords
Confirmed(s)  == "confirm" \in DOMAIN s.set /\ s.set["confirm"] = TRUE

\* A bool that is set is false, unless it is said to be true.
LEMMA AssignKeeps ==
  ASSUME NEW s \in Readings, NEW flag \in {"confirm", "json"}, NEW w,
         NEW u, u = Assign(CloseFlags, s, flag, Word(w))
  PROVE  /\ u \in Readings /\ u.rest = s.rest /\ u.at \in {"flags", "error"}
         /\ Confirmed(u) => Confirmed(s) \/ (flag = "confirm" /\ w \in TrueWords)
<1> DEFINE t == Word(w)
           value == CASE CloseFlags[flag] = "int"    -> ParseInt(t)
                      [] CloseFlags[flag] = "bool"   -> ParseBool(t.name)
                      [] CloseFlags[flag] = "string" -> t.name
           set == [f \in DOMAIN s.set \cup {flag} |-> IF f = flag THEN value ELSE s.set[f]]
<1>1. t.name = w /\ value = ParseBool(w)
  <2>1. t.name = w
    BY DEF Word, Token
  <2>2. CloseFlags[flag] = "bool"
    BY DEF CloseFlags, Flags
  <2>3. value = ParseBool(t.name)
    BY <2>2
  <2> QED
    BY <2>1, <2>3
<1>2. u = IF value = Null THEN [s EXCEPT !.at = "error"] ELSE [s EXCEPT !.at = "flags", !.set = set]
  BY DEF Assign
<1> HIDE DEF value, t
<1>3. CASE value = Null
  BY <1>2, <1>3 DEF Readings, Confirmed
<1>4. CASE value # Null
  <2>1. value \in BOOLEAN /\ (value = TRUE => w \in TrueWords)
    BY <1>1, <1>4 DEF ParseBool
  <2>2. set \in Settings
    <3>1. PICK D \in SUBSET {"confirm", "json"} : s.set \in [D -> BOOLEAN]
      BY DEF Readings, Settings
    <3>2. set \in [D \cup {flag} -> BOOLEAN]
      BY <2>1, <3>1
    <3> QED
      BY <3>2 DEF Settings
  <2>3. /\ "confirm" \in DOMAIN set /\ set["confirm"] = TRUE => Confirmed(s) \/ (flag = "confirm" /\ w \in TrueWords)
    BY <2>1 DEF Confirmed
  <2> HIDE DEF set
  <2>4. u.set = set /\ u.rest = s.rest /\ u.at = "flags" /\ u \in Readings
    BY <1>2, <1>4, <2>2 DEF Readings
  <2> QED
    BY <2>3, <2>4 DEF Confirmed
<1> QED
  BY <1>3, <1>4

\* A token is read: one that is no flag is left, and so are those behind it.
LEMMA ReadTokenKeeps ==
  ASSUME NEW s \in Readings, NEW t \in Tokens, NEW u, u = ReadToken(CloseFlags, s, t)
  PROVE  /\ u \in Readings
         /\ \/ u.rest = s.rest /\ (s.at = "rest" => u = s)
            \/ u.rest = Append(s.rest, t) /\ u.at = "rest" /\ u.set = s.set
         /\ Confirmed(u) => Confirmed(s) \/ (s.at = "flags" /\ Confirms(t) /\ u.rest = s.rest)
<1>1. DOMAIN CloseFlags = {"confirm", "json"} /\ CloseFlags["confirm"] = "bool" /\ CloseFlags["json"] = "bool"
  BY DEF CloseFlags, Flags
<1>2. t.dashes \in 0..2 /\ t.name \in STRING /\ t.value \in STRING
  BY DEF Tokens
<1>3. CASE s.at \in {"error", "help"}
  BY <1>3 DEF ReadToken
<1>4. CASE s.at = "rest" \/ (s.at = "flags" /\ (t.dashes = 0 \/ t = Dash))
  <2>1. u = [s EXCEPT !.at = "rest", !.rest = Append(s.rest, t)]
    BY <1>4 DEF ReadToken, Readings
  <2>2. Append(s.rest, t) \in Seq(Tokens)
    BY AppendProperties DEF Readings
  <2>3. u \in Readings /\ u.rest = Append(s.rest, t) /\ u.at = "rest" /\ u.set = s.set
    BY <2>1, <2>2 DEF Readings
  <2> QED
    BY <2>3 DEF Confirmed
<1>5. CASE s.at = "flags" /\ t.dashes > 0 /\ t # Dash /\ t = Terminator
  <2>1. u = [s EXCEPT !.at = "rest"]
    BY <1>2, <1>5 DEF ReadToken
  <2>2. u \in Readings /\ u.rest = s.rest /\ u.set = s.set
    BY <2>1 DEF Readings
  <2> QED
    BY <1>5, <2>2 DEF Confirmed
<1>6. CASE s.at = "flags" /\ t.dashes > 0 /\ t # Dash /\ t # Terminator /\ t.name \notin {"confirm", "json"}
  <2>1. u = [s EXCEPT !.at = IF t.name \in {"help", "h"} THEN "help" ELSE "error"]
    BY <1>1, <1>2, <1>6 DEF ReadToken, ReadFlag
  <2>2. u \in Readings /\ u.rest = s.rest /\ u.set = s.set
    BY <2>1 DEF Readings
  <2> QED
    BY <1>6, <2>2 DEF Confirmed
<1>7. CASE s.at = "flags" /\ t.dashes > 0 /\ t # Dash /\ t # Terminator /\ t.name \in {"confirm", "json"}
  <2>0. u = ReadFlag(CloseFlags, s, t)
    BY <1>7 DEF ReadToken
  <2>1. PICK w : u = Assign(CloseFlags, s, t.name, Word(w)) /\ (w \in TrueWords => t.value \in {""} \cup TrueWords)
    <3>1. CASE t.value # ""
      <4>1. u = Assign(CloseFlags, s, t.name, Word(t.value))
        BY <1>1, <1>7, <2>0, <3>1 DEF ReadFlag
      <4> QED
        BY <3>1, <4>1
    <3>2. CASE t.value = ""
      <4>1. u = Assign(CloseFlags, s, t.name, Word("true"))
        BY <1>1, <1>7, <2>0, <3>2 DEF ReadFlag
      <4> QED
        BY <3>2, <4>1
    <3> QED
      BY <3>1, <3>2
  <2>2. /\ u \in Readings /\ u.rest = s.rest
        /\ Confirmed(u) => Confirmed(s) \/ (t.name = "confirm" /\ w \in TrueWords)
    <3>1. PICK flag \in {"confirm", "json"} : flag = t.name /\ u = Assign(CloseFlags, s, flag, Word(w))
      BY <1>7, <2>1
    <3>2. /\ u \in Readings /\ u.rest = s.rest /\ u.at \in {"flags", "error"}
          /\ Confirmed(u) => Confirmed(s) \/ (flag = "confirm" /\ w \in TrueWords)
      BY <3>1, AssignKeeps
    <3> QED
      BY <3>1, <3>2
  <2> QED
    BY <1>7, <2>1, <2>2 DEF Confirms
<1>8. s.at \in {"flags", "rest", "error", "help"}
  BY DEF Readings
<1>9. t.dashes = 0 \/ t.dashes > 0
  BY <1>2
<1> QED
  BY <1>3, <1>4, <1>5, <1>6, <1>7, <1>8, <1>9

\* The flag package before the first argument.
LEMMA FirstReading == Start \in Readings
<1>1. <<>> \in Settings
  <2>1. <<>> \in [{} -> BOOLEAN]
    OBVIOUS
  <2> QED
    BY <2>1 DEF Settings
<1>2. <<>> \in Seq(Tokens)
  BY EmptySeq
<1> QED
  BY <1>1, <1>2 DEF Readings, Start

\* What is left of the first n tokens is among them, and if the closing is
\* confirmed then by a token in front of it.
Behind(s, args, n) ==
  /\ s.at # "rest" => s.rest = <<>>
  /\ Confirmed(s) => \E a \in 1..n : Confirms(args[a])
  /\ \A k \in DOMAIN s.rest : \E b \in 1..n :
       args[b] = s.rest[k] /\ (Confirmed(s) => \E a \in 1..n : a < b /\ Confirms(args[a]))

\* One more argument: what is left for tabIds stands behind the flag that confirms.
LEMMA BehindKeeps ==
  ASSUME NEW args, NEW n \in Nat, NEW s \in Readings, Behind(s, args, n), args[n + 1] \in Tokens,
         NEW u, u = ReadToken(CloseFlags, s, args[n + 1])
  PROVE  u \in Readings /\ Behind(u, args, n + 1)
<1> DEFINE t == args[n + 1]
<1>1. /\ u \in Readings
      /\ \/ u.rest = s.rest /\ (s.at = "rest" => u = s)
         \/ u.rest = Append(s.rest, t) /\ u.at = "rest" /\ u.set = s.set
      /\ Confirmed(u) => Confirmed(s) \/ (s.at = "flags" /\ Confirms(t) /\ u.rest = s.rest)
  <2>1. PICK x \in Tokens : x = t
    OBVIOUS
  <2> HIDE DEF t
  <2>2. u = ReadToken(CloseFlags, s, x)
    BY <2>1 DEF t
  <2>3. /\ u \in Readings
        /\ \/ u.rest = s.rest /\ (s.at = "rest" => u = s)
           \/ u.rest = Append(s.rest, x) /\ u.at = "rest" /\ u.set = s.set
        /\ Confirmed(u) => Confirmed(s) \/ (s.at = "flags" /\ Confirms(x) /\ u.rest = s.rest)
    BY <2>2, ReadTokenKeeps
  <2> QED
    BY <2>1, <2>3
<1>2. /\ n + 1 \in 1..(n + 1)
      /\ \A a \in 1..n : a \in 1..(n + 1) /\ a < n + 1
  OBVIOUS
<1>3. Confirmed(u) => \E a \in 1..(n + 1) : Confirms(args[a])
  BY <1>1, <1>2 DEF Behind
<1>4. CASE u.rest = s.rest /\ (s.at = "rest" => u = s)
  <2>1. u.at # "rest" => u.rest = <<>>
    BY <1>4 DEF Behind
  <2>2. ASSUME NEW k \in DOMAIN u.rest
        PROVE  \E b \in 1..(n + 1) :
                 args[b] = u.rest[k] /\ (Confirmed(u) => \E a \in 1..(n + 1) : a < b /\ Confirms(args[a]))
    <3>1. s.rest # <<>> /\ s.at = "rest" /\ u = s
      <4>1. DOMAIN s.rest # {}
        BY <1>4, <2>2
      <4>2. s.rest # <<>>
        BY <4>1
      <4> QED
        BY <1>4, <4>2 DEF Behind
    <3>2. PICK b \in 1..n : args[b] = s.rest[k] /\ (Confirmed(s) => \E a \in 1..n : a < b /\ Confirms(args[a]))
      BY <2>2, <3>1 DEF Behind
    <3> QED
      BY <1>2, <3>1, <3>2
  <2> QED
    BY <1>1, <1>3, <2>1, <2>2 DEF Behind
<1>5. CASE u.rest = Append(s.rest, t) /\ u.at = "rest" /\ u.set = s.set
  <2>1. Confirmed(u) => Confirmed(s)
    BY <1>5 DEF Confirmed
  <2>2. /\ Len(s.rest) \in Nat /\ DOMAIN s.rest = 1..Len(s.rest) /\ DOMAIN u.rest = 1..(Len(s.rest) + 1)
        /\ \A k \in 1..Len(s.rest) : u.rest[k] = s.rest[k]
        /\ u.rest[Len(s.rest) + 1] = t
    <3>1. s.rest \in Seq(Tokens) /\ t \in Tokens
      BY DEF Readings
    <3> HIDE DEF t
    <3> QED
      BY <1>5, <3>1, AppendProperties, LenProperties
  <2>3. ASSUME NEW k \in DOMAIN u.rest
        PROVE  \E b \in 1..(n + 1) :
                 args[b] = u.rest[k] /\ (Confirmed(u) => \E a \in 1..(n + 1) : a < b /\ Confirms(args[a]))
    <3>1. CASE k = Len(s.rest) + 1
      <4>1. args[n + 1] = u.rest[k]
        BY <2>2, <3>1
      <4>2. Confirmed(u) => \E a \in 1..(n + 1) : a < n + 1 /\ Confirms(args[a])
        BY <1>2, <2>1 DEF Behind
      <4> QED
        BY <1>2, <4>1, <4>2
    <3>2. CASE k # Len(s.rest) + 1
      <4>1. k \in DOMAIN s.rest /\ u.rest[k] = s.rest[k]
        BY <2>2, <3>2
      <4>2. PICK b \in 1..n : args[b] = s.rest[k] /\ (Confirmed(s) => \E a \in 1..n : a < b /\ Confirms(args[a]))
        BY <4>1 DEF Behind
      <4> QED
        BY <1>2, <2>1, <4>1, <4>2
    <3> QED
      BY <3>1, <3>2
  <2> QED
    BY <1>3, <1>5, <2>3, <1>1 DEF Behind
<1> QED
  BY <1>1, <1>4, <1>5

\* What close is to close stands behind what confirms it.
LEMMA RestIsBehind ==
  ASSUME NEW args \in Seq(Tokens), ~NotConfirmed(ParseFlags(CloseFlags, args))
  PROVE  LET rest == ParseFlags(CloseFlags, args).rest IN
         \A k \in DOMAIN rest : \E a, b \in DOMAIN args : a < b /\ args[b] = rest[k] /\ Confirms(args[a])
<1> DEFINE N == Len(args)
           parsed == ParseFlags(CloseFlags, args)
<1>1. N \in Nat /\ DOMAIN args = 1..N /\ \A n \in 1..N : args[n] \in Tokens
  BY LenProperties, ElementOfSeq
<1>2. PICK state : ReaderOf(state, CloseFlags, args)
  BY <1>1, Reader
<1> DEFINE good == {n \in 0..N : state[n] \in Readings /\ Behind(state[n], args, n)}
<1>3. 0 \in good
  <2>1. Start \in Readings
    BY FirstReading
  <2>2. Behind(Start, args, 0)
    BY DEF Behind, Confirmed, Start
  <2>3. state[0] = Start
    BY <1>2 DEF ReaderOf
  <2>4. 0 \in 0..N
    BY <1>1
  <2> QED
    BY <2>1, <2>2, <2>3, <2>4
<1>4. ASSUME NEW n \in 0..N, n < N, n \in good
      PROVE  n + 1 \in good
  <2>1. n \in Nat /\ n + 1 \in 0..N /\ args[n + 1] \in Tokens
    BY <1>1, <1>4
  <2>2. state[n + 1] = ReadToken(CloseFlags, state[n], args[n + 1])
    <3>1. n + 1 \in 1..N /\ (n + 1) - 1 = n
      BY <1>1, <1>4
    <3> QED
      BY <1>2, <3>1 DEF ReaderOf
  <2>3. state[n + 1] \in Readings /\ Behind(state[n + 1], args, n + 1)
    BY <1>4, <2>1, <2>2, BehindKeeps
  <2> QED
    BY <2>1, <2>3
<1>5. N \in good
  <2> HIDE DEF good
  <2>1. 0..N \subseteq good
    BY <1>1, <1>3, <1>4, UpTo
  <2> QED
    BY <1>1, <2>1
<1>6. parsed.set = state[N].set /\ parsed.rest = state[N].rest
  BY <1>2 DEF ReaderOf, End
<1> HIDE DEF parsed
<1>7. Confirmed(state[N])
  <2>1. Setting(parsed, "confirm", FALSE)
    BY DEF NotConfirmed, parsed
  <2>2. "confirm" \in DOMAIN parsed.set /\ parsed.set["confirm"]
    BY <2>1 DEF Setting
  <2>3. state[N].set \in Settings
    BY <1>5 DEF Readings
  <2>4. parsed.set["confirm"] \in BOOLEAN
    BY <1>6, <2>2, <2>3 DEF Settings
  <2> QED
    BY <1>6, <2>2, <2>4 DEF Confirmed
<1> QED
  BY <1>1, <1>5, <1>6, <1>7 DEF Behind, parsed

\* Command.closeTabs: every tab it asks to close is behind --confirm in the line.
LEMMA NamesItsTabs ==
  ASSUME NEW line \in Seq(Tokens), Run(line).kind = "call", Run(line).tool = "close"
  PROVE  \A id \in Elements(Run(line).input.ids) : Approved(line, id)
<1> DEFINE args == ParseGlobalJSON(line)
           rest == Tail(args)
           parsed == ParseFlags(CloseFlags, rest)
           ids == [k \in DOMAIN parsed.rest |-> Atoi(parsed.rest[k])]
           outcome == IF NotConfirmed(parsed) THEN Reject("CONFIRMATION_REQUIRED")
                      ELSE IF ids = <<>> \/ Bad(ids) THEN Reject("INVALID_ARGUMENT")
                      ELSE Call("close", [ids |-> ids, confirmed |-> TRUE])
<1>1. PICK json : Run(line) = RunCommand(args, json)
  <2>1. Run(line) # Exit(0)
    BY DEF Exit
  <2> QED
    BY <2>1, Zenon DEF Run
<1>2. args # <<>> /\ Run(line) = CloseCommand(rest, json)
  BY <1>1, RunsCommand DEF CommandOf
<1>3. args \in Seq(Tokens) /\ InOrder(args, line, Len(line))
  BY KeepsOrder
<1>4. /\ rest \in Seq(Tokens)
      /\ \A a \in DOMAIN rest : a \in Nat /\ a + 1 \in DOMAIN args /\ rest[a] = args[a + 1]
  BY <1>2, <1>3, HeadTailProperties, LenProperties
<1>5. Run(line) = AfterParse(parsed, json, outcome)
  BY <1>2 DEF CloseCommand, CloseFlags
<1> HIDE DEF rest, args, parsed, ids
<1>6. ~NotConfirmed(parsed) /\ Run(line).input.ids = ids
  <2>1. \A x : Exit(x).kind # "call" /\ Reject(x).kind # "call"
    BY DEF Exit, Reject
  <2>2. Run(line) = outcome
    <3> HIDE DEF outcome
    <3> QED
      BY <1>5, <2>1 DEF AfterParse
  <2>3. outcome = Call("close", [ids |-> ids, confirmed |-> TRUE]) /\ ~NotConfirmed(parsed)
    BY <2>1, <2>2
  <2> HIDE DEF outcome
  <2> QED
    BY <2>2, <2>3 DEF Call
<1>7. \A k \in DOMAIN parsed.rest : \E a, b \in DOMAIN rest : a < b /\ rest[b] = parsed.rest[k] /\ Confirms(rest[a])
  BY <1>4, <1>6, RestIsBehind DEF parsed
<1>8. ASSUME NEW k \in DOMAIN parsed.rest
      PROVE  Approved(line, Atoi(parsed.rest[k]))
  <2>1. PICK a, b \in DOMAIN rest : a < b /\ rest[b] = parsed.rest[k] /\ Confirms(rest[a])
    BY <1>7
  <2>2. /\ a + 1 \in DOMAIN args /\ b + 1 \in DOMAIN args /\ a + 1 < b + 1
        /\ args[b + 1] = parsed.rest[k] /\ Confirms(args[a + 1])
    BY <1>4, <2>1
  <2>3. PICK c, d \in 1..Len(line) : c < d /\ line[c] = args[a + 1] /\ line[d] = args[b + 1]
    BY <1>3, <2>2 DEF InOrder
  <2>4. DOMAIN line = 1..Len(line)
    BY LenProperties
  <2> QED
    BY <2>2, <2>3, <2>4 DEF Approved, Confirms
<1> QED
  BY <1>6, <1>8 DEF Elements, ids

\* Whatever is asked for, on its way or done is approved, and what is on its way or
\* done could be seen when it was asked for.
Good(n, id) == id \in seen[n] /\ Approved(session.script[n], id)

SeenInv ==
  /\ session.tabs \in Seq(ChromeTabs)
  /\ seen \in Seq(SUBSET Nat) /\ Len(seen) = command.number
  /\ command.phase = "calling" => command.number # 0 /\ Visible(OpenTabs) \subseteq seen[command.number]

ApprovedInv ==
  /\ session.script \in Seq(Seq(Tokens))
  /\ Asks("close") => \A id \in CommandIds : Approved(session.script[command.number], id)
  /\ \A r \in removals : r.of \in DOMAIN seen /\ \A id \in Elements(r.ids) : Good(r.of, id)
  /\ \A c \in closed : c.of \in DOMAIN seen /\ Good(c.of, c.id)
  /\ ~Nothing(command.number) => CommandIds \subseteq seen[command.number]

\* What a snapshot shows are tabs that are open; the fewer are, the fewer it shows.
LEMMA SnapshotShowsOpen ==
  ASSUME session.tabs \in Seq(ChromeTabs)
  PROVE  /\ Visible(OpenTabs) \subseteq Nat
         /\ open' \subseteq open /\ UNCHANGED <<session, ignored>> => Visible(OpenTabs)' \subseteq Visible(OpenTabs)
<1>1. \A tab \in Elements(session.tabs) : tab \in ChromeTabs
  BY ElementOfSeq, LenProperties DEF Elements
<1>2. \A tab \in ChromeTabs : Present(tab).id = tab.id /\ tab.id \in Nat
  BY DEF ChromeTabs, Present
<1>3. Visible(OpenTabs) \subseteq Nat
  BY <1>1, <1>2 DEF Visible, OpenTabs
<1>4. ASSUME open' \subseteq open, UNCHANGED <<session, ignored>>
      PROVE  Visible(OpenTabs)' \subseteq Visible(OpenTabs)
  BY <1>4 DEF Visible, OpenTabs, Present
<1> QED
  BY <1>3, <1>4

\* Nothing leaves what has been seen; what is not seen anew is what was.
LEMMA SeenKeeps ==
  ASSUME SeenInv, IsCommand, [Next]_vars
  PROVE  /\ SeenInv'
         /\ \A n \in DOMAIN seen : n \in DOMAIN seen' /\ seen[n] \subseteq seen'[n]
<1>0. /\ UNCHANGED session /\ command.number \in Nat /\ DOMAIN seen = 1..Len(seen)
      /\ \A n \in DOMAIN seen : seen[n] \in SUBSET Nat
  BY EveryStep, LenProperties, ElementOfSeq DEF SeenInv, IsCommand
<1>1. CASE TypeLine
  <2> DEFINE shown == Visible(OpenTabs)
  <2>1. seen' = Append(seen, shown) /\ UNCHANGED <<session, open, ignored>>
    BY <1>1 DEF TypeLine
  <2>2. shown \in SUBSET Nat /\ shown' = shown
    <3>1. session' = session /\ open' = open /\ ignored' = ignored
      BY <1>0, <2>1
    <3>2. Visible(OpenTabs)' = Visible(OpenTabs)
      BY <3>1 DEF Visible, OpenTabs, Present
    <3> QED
      BY <3>2, SnapshotShowsOpen DEF SeenInv
  <2>3. command'.number = command.number + 1
    <3> DEFINE n == command.number + 1
               outcome == Run(Line(n))
    <3>1. PICK phase, status : command' = NewCommand(n, phase, outcome, status)
      BY <1>1 DEF TypeLine
    <3> HIDE DEF n, outcome
    <3>2. command'.number = n
      BY <3>1 DEF NewCommand
    <3> QED
      BY <3>2 DEF n
  <2> HIDE DEF shown
  <2>4. /\ seen' \in Seq(SUBSET Nat) /\ Len(seen') = command'.number
        /\ seen'[command'.number] = shown /\ command'.number # 0
        /\ \A n \in DOMAIN seen : n \in DOMAIN seen' /\ seen'[n] = seen[n]
    BY <1>0, <2>1, <2>2, <2>3, AppendProperties, LenProperties DEF SeenInv
  <2>5. SeenInv'
    <3>1. Visible(OpenTabs)' = shown
      BY <2>2 DEF shown
    <3> QED
      BY <1>0, <2>4, <3>1 DEF SeenInv
  <2> QED
    BY <2>4, <2>5
<1>2. CASE UserIgnores /\ command.phase = "calling"
  <2> DEFINE shown == Visible(OpenTabs)'
             n == command.number
  <2>1. UNCHANGED <<session, command, open>> /\ seen' = [seen EXCEPT ![n] = @ \cup shown]
    BY <1>2 DEF UserIgnores
  <2>2. n \in DOMAIN seen
    BY <1>0, <1>2 DEF SeenInv
  <2>3. shown \in SUBSET Nat
    <3>1. session'.tabs \in Seq(ChromeTabs)
      BY <1>0 DEF SeenInv
    <3>2. \A tab \in Elements(session.tabs) : tab \in ChromeTabs
      BY <1>0, <3>1, ElementOfSeq, LenProperties DEF Elements
    <3>3. \A tab \in ChromeTabs : Present(tab)'.id = tab.id /\ tab.id \in Nat
      BY DEF ChromeTabs, Present
    <3> QED
      BY <1>0, <3>2, <3>3 DEF Visible, OpenTabs
  <2> HIDE DEF shown
  <2>4. /\ DOMAIN seen' = DOMAIN seen /\ seen'[n] = seen[n] \cup shown
        /\ \A m \in DOMAIN seen : seen'[m] \in SUBSET Nat /\ seen[m] \subseteq seen'[m]
    BY <1>0, <2>1, <2>2, <2>3
  <2>5. seen' \in Seq(SUBSET Nat) /\ Len(seen') = Len(seen)
    <3>1. seen \in [1..Len(seen) -> SUBSET Nat] /\ Len(seen) \in Nat
      BY <1>0, LenProperties DEF SeenInv
    <3>2. seen' \in [1..Len(seen) -> SUBSET Nat]
      BY <2>1, <2>4, <3>1
    <3> QED
      BY <3>1, <3>2, LenProperties
  <2>6. SeenInv'
    BY <1>0, <1>2, <2>1, <2>4, <2>5 DEF SeenInv, shown
  <2> QED
    BY <2>4, <2>6
<1>3. CASE UserIgnores /\ command.phase # "calling"
  BY <1>0, <1>3 DEF UserIgnores, SeenInv
<1>4. ASSUME UNCHANGED <<session, ignored, seen>>, open' \subseteq open, command'.number = command.number,
             command'.phase = "calling" => command.phase = "calling"
      PROVE  /\ SeenInv'
             /\ \A n \in DOMAIN seen : n \in DOMAIN seen' /\ seen[n] \subseteq seen'[n]
  BY <1>4, SnapshotShowsOpen DEF SeenInv
<1>5. CASE ~(TypeLine \/ UserIgnores)
  <2>1. UNCHANGED <<session, ignored, seen>> /\ open' \subseteq open
    BY <1>5 DEF Next, Lists, Closes, Reads, Plans, Status, Disconnect, RemoveTabs, Finish, UserCloses, Installs, Done,
                chrome, vars
  <2>2. CASE UNCHANGED command
    BY <1>4, <2>1, <2>2
  <2>3. ASSUME NEW code, Answer(code)
        PROVE  command'.number = command.number /\ command'.phase = "answered"
    BY <2>3 DEF Answer, IsCommand
  <2>4. ASSUME NEW result, AnswerList(result)
        PROVE  command'.number = command.number /\ command'.phase = "answered"
    <3>1. PICK code, listed : AnswersWith(code, listed)
      BY <2>4, AnAnswer
    <3> QED
      BY <3>1 DEF AnswersWith
  <2>5. CASE Closes
    BY <1>4, <2>1, <2>3, <2>5 DEF Closes, IsCommand
  <2>6. CASE Finish
    BY <1>4, <2>1, <2>6 DEF Finish, IsCommand
  <2>7. CASE Lists \/ Reads \/ Plans \/ Status \/ Disconnect
    <3>1. (\E code : Answer(code)) \/ \E result : AnswerList(result)
      BY <2>7 DEF Lists, Reads, Plans, Status, Disconnect
    <3> QED
      BY <1>4, <2>1, <2>3, <2>4, <3>1
  <2>8. CASE RemoveTabs
    <3>1. (\E code : Answer(code)) \/ UNCHANGED command
      BY <2>8 DEF RemoveTabs
    <3> QED
      BY <1>4, <2>1, <2>2, <2>3, <3>1
  <2>9. CASE UserCloses \/ Installs \/ UNCHANGED vars
    BY <2>2, <2>9 DEF UserCloses, Installs, vars
  <2> QED
    BY <1>5, <2>5, <2>6, <2>7, <2>8, <2>9 DEF Next, Done
<1> QED
  BY <1>1, <1>2, <1>3, <1>5

\* A step that asks for nothing new, closes nothing and drops requests at most.
LEMMA NothingNew ==
  ASSUME ApprovedInv, UNCHANGED <<session, closed>>, removals' \subseteq removals,
         \A n \in DOMAIN seen : n \in DOMAIN seen' /\ seen[n] \subseteq seen'[n],
         command.number \in DOMAIN seen \/ Nothing(command.number),
         command'.outcome = command.outcome, command'.number = command.number
  PROVE  ApprovedInv'
<1>1. Nothing(command.number) => Nothing(command.number)'
  BY DEF Nothing
<1> QED
  BY <1>1 DEF ApprovedInv, Asks, CommandIds, Good

\* Every step of the command line closes only what is approved.
LEMMA ApprovedKeeps ==
  ASSUME ApprovedInv, SeenInv, CommandInv, [Next]_vars
  PROVE  ApprovedInv'
<1>0. /\ IsCommand /\ command.number \in Nat /\ DOMAIN seen = 1..command.number
      /\ \A n \in DOMAIN seen : n \in DOMAIN seen' /\ seen[n] \subseteq seen'[n]
      /\ command.number \in DOMAIN seen \/ Nothing(command.number)
  <2>1. IsCommand /\ command.number \in Nat /\ DOMAIN seen = 1..command.number
    BY LenProperties DEF CommandInv, IsCommand, SeenInv
  <2>2. \A n \in DOMAIN seen : n \in DOMAIN seen' /\ seen[n] \subseteq seen'[n]
    BY <2>1, SeenKeeps
  <2>3. command.number = 0 => Nothing(command.number)
    BY <2>1 DEF ApprovedInv, Nothing
  <2> QED
    BY <2>1, <2>2, <2>3
<1>1. CASE TypeLine
  <2> DEFINE n == command.number + 1
  <2>1. /\ UNCHANGED <<session, removals, closed>> /\ command'.outcome = Run(Line(n)) /\ command'.number = n
        /\ n <= Len(session.script)
    <3> DEFINE outcome == Run(Line(n))
    <3>1. UNCHANGED <<session, removals, closed>> /\ n <= Len(session.script)
      BY <1>1 DEF TypeLine
    <3>2. PICK phase, status : command' = NewCommand(n, phase, outcome, status)
      BY <1>1 DEF TypeLine
    <3> HIDE DEF n, outcome
    <3>3. command'.outcome = outcome /\ command'.number = n
      BY <3>2 DEF NewCommand
    <3> QED
      BY <3>1, <3>3 DEF outcome
  <2>2. Line(n) \in Seq(Tokens)
    <3>1. n \in 1..Len(session.script)
      BY <1>0, <2>1, LenProperties DEF ApprovedInv
    <3> QED
      BY <3>1, ElementOfSeq DEF ApprovedInv, Line
  <2>3. Nothing(command.number)'
    <3>1. n \notin DOMAIN seen
      BY <1>0
    <3> QED
      BY <2>1, <3>1 DEF ApprovedInv, Nothing
  <2> HIDE DEF n
  <2>4. (Asks("close"))' => \A id \in CommandIds' : Approved(session.script[n], id)
    BY <2>1, <2>2, NamesItsTabs DEF Asks, CommandIds, Line
  <2> QED
    BY <1>0, <2>1, <2>3, <2>4 DEF ApprovedInv, Good
<1>2. CASE (Lists \/ Reads \/ Plans \/ Status) /\ UNCHANGED <<session, lost, changes, installation>>
  <2>1. UNCHANGED <<session, closed, removals>> /\ command.outcome.kind \in {"call", "status"}
    BY <1>2 DEF Lists, Reads, Plans, Status, Asked, chrome
  <2>2. PICK code, listed : AnswersWith(code, listed)
    <3>1. (\E result : AnswerList(result)) \/ \E c : Answer(c)
      BY <1>2 DEF Lists, Reads, Plans, Status
    <3> QED
      BY <1>0, <3>1, AnAnswer
  <2>3. command'.outcome = command.outcome /\ command'.number = command.number
    BY <1>0, <2>1, <2>2, Answered
  <2> QED
    BY <1>0, <2>1, <2>3, NothingNew
<1>3. CASE Closes /\ UNCHANGED <<session, lost, changes, installation>>
  <2> DEFINE input == command.outcome.input
  <2>1. UNCHANGED <<session, closed, seen>> /\ Asks("close") /\ command.phase = "calling"
    BY <1>3 DEF Closes, Asked, Asks
  <2>2. command'.outcome = command.outcome /\ command'.number = command.number
    BY <1>0, <1>3 DEF Closes, Answer, IsCommand
  <2>3. CASE removals' \subseteq removals
    BY <1>0, <2>1, <2>2, <2>3, NothingNew
  <2>4. CASE CheckClose(input, OpenTabs) = "OK"
    <3>1. removals' = removals \cup {[of |-> command.number, ids |-> input.ids]}
      BY <1>3, <2>4 DEF Closes
    <3>2. Elements(input.ids) \subseteq seen[command.number] /\ command.number \in DOMAIN seen
      BY <1>0, <2>1, <2>4 DEF SeenInv, CheckClose, Available
    <3>3. \A id \in Elements(input.ids) : Good(command.number, id)
      BY <2>1, <3>2 DEF ApprovedInv, CommandIds, Good
    <3>4. \A r \in removals' : r.of \in DOMAIN seen' /\ \A id \in Elements(r.ids) : Good(r.of, id)'
      <4>1. \A n, id : Good(n, id) => Good(n, id)'
        BY <2>1 DEF Good
      <4>2. \A r \in removals : r.of \in DOMAIN seen /\ \A id \in Elements(r.ids) : Good(r.of, id)
        BY DEF ApprovedInv
      <4>3. \A r \in removals' : r \in removals \/ (r.of = command.number /\ r.ids = input.ids)
        BY <3>1
      <4> HIDE DEF input
      <4> QED
        BY <2>1, <3>2, <3>3, <4>1, <4>2, <4>3
    <3>5. CommandIds' \subseteq seen'[command'.number] /\ CommandIds' = CommandIds
      BY <2>1, <2>2, <3>2 DEF CommandIds
    <3>6. (Asks("close"))' => \A id \in CommandIds' : Approved(session'.script[command'.number], id)
      BY <2>1, <2>2, <3>5 DEF ApprovedInv
    <3>7. \A c \in closed' : c.of \in DOMAIN seen' /\ Good(c.of, c.id)'
      BY <2>1 DEF ApprovedInv, Good
    <3> QED
      BY <2>1, <3>4, <3>5, <3>6, <3>7 DEF ApprovedInv
  <2> QED
    BY <1>3, <2>3, <2>4 DEF Closes
<1>4. CASE RemoveTabs /\ UNCHANGED <<session, lost, changes, installation>>
  <2>1. PICK r \in removals :
          /\ removals' = removals \ {r}
          /\ closed' = closed \cup {[of |-> r.of, id |-> i] : i \in Removed(r.ids, open)}
          /\ command' = command \/ Answer(CloseAnswer(r.ids, open))
          /\ UNCHANGED seen
    BY <1>4 DEF RemoveTabs
  <2>2. command'.outcome = command.outcome /\ command'.number = command.number
    BY <1>0, <2>1 DEF Answer, IsCommand
  <2>3. Removed(r.ids, open) \subseteq Elements(r.ids)
    BY DEF Removed, Elements
  <2>4. \A c \in closed' : c.of \in DOMAIN seen /\ Good(c.of, c.id)
    <3>1. r.of \in DOMAIN seen /\ \A i \in Removed(r.ids, open) : Good(r.of, i)
      BY <2>3 DEF ApprovedInv
    <3>2. \A c \in closed : c.of \in DOMAIN seen /\ Good(c.of, c.id)
      BY DEF ApprovedInv
    <3> QED
      BY <2>1, <3>1, <3>2
  <2>5. UNCHANGED session /\ removals' \subseteq removals
    BY <1>4, <2>1
  <2>6. ~Nothing(command.number)' => ~Nothing(command.number)
    BY <2>1, <2>2 DEF Nothing
  <2> QED
    BY <2>1, <2>2, <2>4, <2>5, <2>6 DEF ApprovedInv, Asks, CommandIds, Good
<1>5. CASE Disconnect
  <2>1. /\ UNCHANGED <<session, closed>> /\ removals' \subseteq removals
        /\ command'.outcome = command.outcome /\ command'.number = command.number
    BY <1>0, <1>5 DEF Disconnect, Answer, IsCommand
  <2> QED
    BY <1>0, <2>1, NothingNew
<1>6. CASE Finish /\ UNCHANGED <<session, lost, changes, installation>>
  <2>1. /\ UNCHANGED <<session, closed, removals>>
        /\ command'.outcome = command.outcome /\ command'.number = command.number
    BY <1>0, <1>6 DEF Finish, IsCommand, chrome
  <2> QED
    BY <1>0, <2>1, NothingNew
<1>7. CASE UserCloses \/ UserIgnores \/ Installs \/ UNCHANGED vars
  <2>1. UNCHANGED <<session, command, closed, removals>>
    BY <1>7 DEF UserCloses, UserIgnores, Installs, chrome, vars
  <2> QED
    BY <1>0, <2>1, NothingNew
<1> QED
  BY <1>1, <1>2, <1>3, <1>4, <1>5, <1>6, <1>7 DEF Next, Done

\* FR-010 and FR-011: for any line typed in any order, with requests that arrive
\* late or never, and tabs that come to be ignored or cease to be, what is closed
\* has been named behind --confirm and could be seen at some moment between the
\* typing and the request, and a line that names a tab that could not closes none.
THEOREM OnlyApprovedIsClosed ==
  ASSUME NEW Sessions, \A s \in Sessions : Proper(s)
  PROVE  Init(Sessions) /\ [][Next]_vars => []ClosesOnlyApproved
<1> DEFINE I == IInv /\ InstalledInv /\ CommandInv /\ SeenInv /\ ApprovedInv
<1>1. Init(Sessions) => I
  <2> SUFFICES ASSUME Init(Sessions)
               PROVE  I
    OBVIOUS
  <2>1. IInv /\ InstalledInv /\ CommandInv
    BY BeginsWell
  <2>2. /\ session \in Sessions /\ Proper(session) /\ removals = {} /\ closed = {} /\ seen = <<>>
        /\ command.outcome.kind = "exit" /\ command.number = 0 /\ command.phase = "none"
    BY DEF Init, NewCommand, Exit
  <2>3. SeenInv
    <3>1. <<>> \in Seq(SUBSET Nat) /\ Len(<<>>) = 0
      BY EmptySeq
    <3> QED
      BY <2>2, <3>1 DEF SeenInv, Proper
  <2> QED
    BY <2>1, <2>2, <2>3 DEF ApprovedInv, Proper, Asks, Nothing
<1>2. I /\ [Next]_vars => I'
  <2> SUFFICES ASSUME I, [Next]_vars
               PROVE  I'
    OBVIOUS
  <2>1. (IInv /\ InstalledInv /\ CommandInv)'
    BY GoesOnWell
  <2>2. SeenInv'
    BY SeenKeeps DEF CommandInv
  <2>3. ApprovedInv'
    BY ApprovedKeeps
  <2> QED
    BY <2>1, <2>2, <2>3
<1>3. I => ClosesOnlyApproved
  <2> SUFFICES ASSUME I
               PROVE  ClosesOnlyApproved
    OBVIOUS
  <2>1. \A c \in closed : c.id \in seen[c.of] /\ Approved(Line(c.of), c.id)
    BY DEF ApprovedInv, Good, Line
  <2>2. Nothing(command.number) => ClosedFor(command.number) = {} /\ \A r \in removals : r.of # command.number
    BY DEF Nothing, ClosedFor
  <2>3. ~(CommandIds \subseteq seen[command.number]) => Nothing(command.number)
    BY DEF ApprovedInv
  <2> QED
    BY <2>1, <2>2, <2>3 DEF ClosesOnlyApproved, CommandIds
<1> QED
  BY <1>1, <1>2, <1>3, PTL

-----------------------------------------------------------------------------
(* The lines of content, compare and diff.  taken are the places of the    *)
(* values of limits as one reads the line, places those of the tokens that *)
(* go to the flag package.                                                 *)

\* Of the places behind an opening one every second is taken, from the first on.
Alternate(places, opening, N) ==
  places \subseteq 1..N /\ \A i \in 1..N : i \in places <=> i > 1 /\ i - 1 \in opening /\ i - 1 \notin places

\* A loop that takes the place behind an opening one does so.
LEMMA Alternation ==
  ASSUME NEW N \in Nat, NEW opening
  PROVE  \E value : /\ value = [i \in 1..N |-> i > 1 /\ i - 1 \in opening /\ ~value[i - 1]]
                    /\ \A i \in 1..N : value[i] \in BOOLEAN
<1> DEFINE step == [n \in 1..N |-> [b \in {0, 1} |-> IF n > 1 /\ n - 1 \in opening /\ b = 0 THEN 1 ELSE 0]]
<1>1. step \in [1..N -> [{0, 1} -> {0, 1}]]
  OBVIOUS
<1>2. \A n \in 1..N, b \in {0, 1} : step[n][b] = IF n > 1 /\ n - 1 \in opening /\ b = 0 THEN 1 ELSE 0
  OBVIOUS
<1> HIDE DEF step
<1>3. PICK f : Computes(f, N, {0, 1}, 0, step)
  BY <1>1, Recursion
<1> DEFINE value == [i \in 1..N |-> f[i] = 1]
<1>4. ASSUME NEW i \in 1..N
      PROVE  (f[i] = 1) <=> i > 1 /\ i - 1 \in opening /\ ~value[i - 1]
  <2>1. i - 1 \in 0..N /\ f[i - 1] \in {0, 1}
    BY <1>3 DEF Computes
  <2>2. f[i] = IF i > 1 /\ i - 1 \in opening /\ f[i - 1] = 0 THEN 1 ELSE 0
    BY <1>2, <1>3, <2>1 DEF Computes
  <2>3. i > 1 => i - 1 \in 1..N
    OBVIOUS
  <2>4. i > 1 => (value[i - 1] <=> f[i - 1] = 1)
    BY <2>3
  <2> HIDE DEF value
  <2> QED
    BY <2>1, <2>2, <2>4
<1>5. value = [i \in 1..N |-> i > 1 /\ i - 1 \in opening /\ ~value[i - 1]]
  <2>1. \A i \in 1..N : (i > 1 /\ i - 1 \in opening /\ ~value[i - 1]) = (f[i] = 1)
    <3> HIDE DEF value
    <3> QED
      BY <1>4
  <2> QED
    BY <2>1
<1>6. \A i \in 1..N : value[i] \in BOOLEAN
  OBVIOUS
<1> QED
  BY <1>5, <1>6

\* A limit whose value is the next token.
Opens(t) == t.dashes > 0 /\ t.value = "" /\ t.name \in {"max-chars", "max-diff-chars"}
Openings(args) == {i \in 1..Len(args) : Opens(args[i])}
Separated(args) == {i \in 1..Len(args) : Separate(args[i])}

\* The values of limits, as one reads a line.
LEMMA Written ==
  ASSUME NEW args \in Seq(Tokens)
  PROVE  Alternate(WrittenValues(args), Openings(args), Len(args))
<1> DEFINE N == Len(args)
           Is(f) == f = [i \in 1..N |->
                      /\ i > 1 /\ ~f[i - 1]
                      /\ args[i - 1].dashes > 0 /\ args[i - 1].value = "" /\ args[i - 1].name \in {"max-chars", "max-diff-chars"}]
           value == CHOOSE f : Is(f)
<1>1. N \in Nat
  BY LenProperties
<1>2. PICK f : /\ f = [i \in 1..N |-> i > 1 /\ i - 1 \in Openings(args) /\ ~f[i - 1]]
               /\ \A i \in 1..N : f[i] \in BOOLEAN
  BY <1>1, Alternation, ZenonT(60)
<1>3. \A i \in 1..N : i > 1 => (i - 1 \in Openings(args) <=> Opens(args[i - 1]))
  BY <1>1 DEF Openings
<1>4. Is(f)
  <2>1. \A i \in 1..N : f[i] = (i > 1 /\ i - 1 \in Openings(args) /\ ~f[i - 1])
    BY <1>2
  <2>2. \A i \in 1..N : f[i] = (/\ i > 1 /\ ~f[i - 1]
                               /\ args[i - 1].dashes > 0 /\ args[i - 1].value = ""
                               /\ args[i - 1].name \in {"max-chars", "max-diff-chars"})
    BY <1>3, <2>1 DEF Opens
  <2>3. f = [i \in 1..N |-> f[i]]
    BY <1>2
  <2> QED
    BY <2>2, <2>3
<1>5. Is(value)
  <2> HIDE DEF Is
  <2> QED
    BY <1>4
<1>6. WrittenValues(args) = {i \in 1..N : value[i]}
  BY DEF WrittenValues
<1> HIDE DEF value
<1>7. \A i \in 1..N : value[i] <=> i > 1 /\ ~value[i - 1] /\ Opens(args[i - 1])
  BY <1>5 DEF Opens
<1> HIDE DEF Is
<1>8. \A i \in 1..N : i > 1 => i - 1 \in 1..N
  BY <1>1
<1> QED
  BY <1>3, <1>6, <1>7, <1>8 DEF Alternate

\* splitComparisonArguments: the tokens behind a limit, and those with dashes.
LEMMA Split ==
  ASSUME NEW args \in Seq(Tokens)
  PROVE  \E values : /\ Alternate(values, Separated(args), Len(args))
                     /\ FlagPlaces(args) = {i \in 1..Len(args) : i \in values \/ args[i].dashes > 0}
<1> DEFINE N == Len(args)
           Is(f) == f = [i \in 1..N |-> i > 1 /\ Separate(args[i - 1]) /\ ~f[i - 1]]
           value == CHOOSE f : Is(f)
<1>1. N \in Nat
  BY LenProperties
<1>2. PICK f : /\ f = [i \in 1..N |-> i > 1 /\ i - 1 \in Separated(args) /\ ~f[i - 1]]
               /\ \A i \in 1..N : f[i] \in BOOLEAN
  BY <1>1, Alternation, ZenonT(60)
<1>3. \A i \in 1..N : i > 1 => (i - 1 \in Separated(args) <=> Separate(args[i - 1]))
  BY <1>1 DEF Separated
<1>4. Is(f)
  <2>1. \A i \in 1..N : f[i] = (i > 1 /\ i - 1 \in Separated(args) /\ ~f[i - 1])
    BY <1>2
  <2>2. \A i \in 1..N : f[i] = (i > 1 /\ Separate(args[i - 1]) /\ ~f[i - 1])
    BY <1>3, <2>1
  <2>3. f = [i \in 1..N |-> f[i]]
    BY <1>2
  <2> QED
    BY <2>2, <2>3
<1>5. Is(value)
  <2> HIDE DEF Is
  <2> QED
    BY <1>4
<1>6. FlagPlaces(args) = {i \in 1..N : value[i] \/ args[i].dashes > 0}
  BY DEF FlagPlaces
<1> HIDE DEF value
<1>7. \A i \in 1..N : value[i] <=> i > 1 /\ ~value[i - 1] /\ Separate(args[i - 1])
  BY <1>5
<1> HIDE DEF Is
<1>8. \A i \in 1..N : i > 1 => i - 1 \in 1..N
  BY <1>1
<1> DEFINE values == {i \in 1..N : value[i]}
<1>9. Alternate(values, Separated(args), N)
  BY <1>3, <1>7, <1>8 DEF Alternate
<1>10. FlagPlaces(args) = {i \in 1..N : i \in values \/ args[i].dashes > 0}
  BY <1>6
<1> QED
  BY <1>9, <1>10

LimitNames == {"max-chars", "max-diff-chars"}

\* The flags of content, compare and diff.
LimitFlags(kinds) ==
  \A f \in DOMAIN kinds : (f = "json" /\ kinds[f] = "bool") \/ (f \in LimitNames /\ kinds[f] = "int")

\* The tokens that the first n tokens give a limit, where taken are the values of
\* limits; and the one that the n-th gives it.
LimitsBy(args, taken, flag, n) ==
  {args[i] : i \in {k \in taken \cap (1..n) : args[k - 1].name = flag}}
    \cup {Word(args[i].value) : i \in {k \in (1..n) \ taken :
                                                 args[k].dashes > 0 /\ args[k].name = flag /\ args[k].value # ""}}

NewLimit(args, taken, flag, n) ==
  IF n \in taken THEN IF args[n - 1].name = flag THEN {args[n]} ELSE {}
  ELSE IF args[n].dashes > 0 /\ args[n].name = flag /\ args[n].value # "" THEN {Word(args[n].value)} ELSE {}

\* The limits of one more token are those so far and the one that it says.
LEMMA LimitsGrow ==
  ASSUME NEW args, NEW taken, NEW flag, NEW n \in Nat \ {0}
  PROVE  LimitsBy(args, taken, flag, n) = LimitsBy(args, taken, flag, n - 1) \cup NewLimit(args, taken, flag, n)
<1>1. 1..n = (1..(n - 1)) \cup {n}
  OBVIOUS
<1> DEFINE before == 1..(n - 1)
           upTo == 1..n
           Valued(range) == {k \in taken \cap range : args[k - 1].name = flag}
           Equal(range) == {k \in range \ taken : args[k].dashes > 0 /\ args[k].name = flag /\ args[k].value # ""}
           Limits(range) == {args[i] : i \in Valued(range)} \cup {Word(args[i].value) : i \in Equal(range)}
<1>2. LimitsBy(args, taken, flag, n) = Limits(upTo) /\ LimitsBy(args, taken, flag, n - 1) = Limits(before)
  BY DEF LimitsBy
<1> HIDE DEF before, upTo
<1>3. upTo = before \cup {n}
  BY <1>1 DEF before, upTo
<1>4. CASE n \in taken
  <2>1. Equal(upTo) = Equal(before)
    BY <1>3, <1>4
  <2>2. Valued(upTo) = Valued(before) \cup (IF args[n - 1].name = flag THEN {n} ELSE {})
    BY <1>3, <1>4
  <2> HIDE DEF Equal, Valued
  <2>3. {args[i] : i \in Valued(upTo)} = {args[i] : i \in Valued(before)} \cup NewLimit(args, taken, flag, n)
    BY <1>4, <2>2 DEF NewLimit
  <2> QED
    BY <1>2, <2>1, <2>3
<1>5. CASE n \notin taken
  <2>1. Valued(upTo) = Valued(before)
    BY <1>3, <1>5
  <2>2. Equal(upTo) = Equal(before)
          \cup (IF args[n].dashes > 0 /\ args[n].name = flag /\ args[n].value # "" THEN {n} ELSE {})
    BY <1>3, <1>5
  <2> HIDE DEF Equal, Valued
  <2>3. {Word(args[i].value) : i \in Equal(upTo)}
          = {Word(args[i].value) : i \in Equal(before)} \cup NewLimit(args, taken, flag, n)
    BY <1>5, <2>2 DEF NewLimit
  <2> QED
    BY <1>2, <2>1, <2>3
<1> QED
  BY <1>4, <1>5

\* A limit is what the flag package makes of one of the tokens it has been given.
Taken(tokens, limit) == \E t \in tokens : ParseInt(t) = limit /\ limit # Null

\* What has been set of the limits is what has been said.
Tells(s, kinds, args, taken, n) ==
  \A flag \in LimitNames \cap DOMAIN kinds :
    IF flag \in DOMAIN s.set THEN Taken(LimitsBy(args, taken, flag, n), s.set[flag])
    ELSE LimitsBy(args, taken, flag, n) = {}

\* A token that says no limit.
LEMMA TellsAsBefore ==
  ASSUME NEW kinds, NEW args, NEW taken, NEW n \in Nat \ {0}, NEW s, NEW u,
         Tells(s, kinds, args, taken, n - 1), u.set = s.set,
         \A flag \in LimitNames \cap DOMAIN kinds : NewLimit(args, taken, flag, n) = {}
  PROVE  Tells(u, kinds, args, taken, n)
<1>1. ASSUME NEW flag \in LimitNames \cap DOMAIN kinds
      PROVE  LimitsBy(args, taken, flag, n) = LimitsBy(args, taken, flag, n - 1)
  <2>1. LimitsBy(args, taken, flag, n) = LimitsBy(args, taken, flag, n - 1) \cup NewLimit(args, taken, flag, n)
    BY LimitsGrow
  <2> QED
    BY <2>1
<1> QED
  BY <1>1 DEF Tells

\* A flag is set, and if it is a limit then to what has been said.
LEMMA TellsOneMore ==
  ASSUME NEW kinds, NEW args, NEW taken, NEW n \in Nat \ {0}, NEW s, NEW u, NEW set, NEW value,
         Tells(s, kinds, args, taken, n - 1), Sets(s, u, set, value),
         set \in LimitNames => Taken(NewLimit(args, taken, set, n), value),
         \A flag \in LimitNames \cap DOMAIN kinds : flag # set => NewLimit(args, taken, flag, n) = {}
  PROVE  Tells(u, kinds, args, taken, n)
<1>1. \A flag \in LimitNames \cap DOMAIN kinds :
        LimitsBy(args, taken, flag, n) = LimitsBy(args, taken, flag, n - 1) \cup NewLimit(args, taken, flag, n)
  BY LimitsGrow
<1> SUFFICES ASSUME NEW flag \in LimitNames \cap DOMAIN kinds
             PROVE  IF flag \in DOMAIN u.set THEN Taken(LimitsBy(args, taken, flag, n), u.set[flag])
                    ELSE LimitsBy(args, taken, flag, n) = {}
  BY DEF Tells
<1>2. CASE flag = set
  BY <1>1, <1>2 DEF Sets, Taken
<1>3. CASE flag # set
  <2>1. flag \in DOMAIN u.set <=> flag \in DOMAIN s.set
    BY <1>3 DEF Sets
  <2>2. flag \in DOMAIN s.set => u.set[flag] = s.set[flag]
    BY <1>3 DEF Sets
  <2>3. LimitsBy(args, taken, flag, n) = LimitsBy(args, taken, flag, n - 1)
    BY <1>1, <1>3
  <2>4. IF flag \in DOMAIN s.set THEN Taken(LimitsBy(args, taken, flag, n - 1), s.set[flag])
        ELSE LimitsBy(args, taken, flag, n - 1) = {}
    BY DEF Tells
  <2> QED
    BY <2>1, <2>2, <2>3, <2>4
<1> QED
  BY <1>2, <1>3

\* Everything among the first n tokens has been read as it is written, and nothing
\* has been left.
Follows(s, kinds, args, taken, places, n) ==
  /\ s.rest = <<>> /\ s.at \in {"flags", "value", "rest"}
  /\ s.at = "value" <=> n \in Openings(args) \ taken
  /\ s.at = "value" => s.flag = args[n].name /\ s.flag \in DOMAIN kinds
  /\ Tells(s, kinds, args, taken, n)
  /\ \A j \in 1..n : j \in places => args[j].dashes > 0 \/ j \in taken

\* One place of a line, as it is written.
IsWritten(args, taken, n) ==
  /\ n \in Nat \ {0}
  /\ args[n].dashes \in 0..2
  /\ n \in taken <=> n - 1 \in Openings(args) \ taken
  /\ n \in Openings(args) <=> Opens(args[n])

\* A token that is passed over, as it is no flag and no value of one.
LEMMA PassingOver ==
  ASSUME NEW kinds, NEW args, NEW taken, NEW places, NEW n, NEW s,
         IsWritten(args, taken, n), Follows(s, kinds, args, taken, places, n - 1),
         s.at # "value", args[n].dashes = 0, n \notin places
  PROVE  Follows(s, kinds, args, taken, places, n)
<1>1. n \in Nat \ {0} /\ n \notin taken /\ n \notin Openings(args)
  BY DEF IsWritten, Follows, Opens
<1>2. Tells(s, kinds, args, taken, n)
  <2>1. Tells(s, kinds, args, taken, n - 1)
    BY DEF Follows
  <2>2. \A flag \in LimitNames \cap DOMAIN kinds : NewLimit(args, taken, flag, n) = {}
    BY <1>1 DEF NewLimit
  <2> QED
    BY <1>1, <2>1, <2>2, TellsAsBefore
<1>3. \A j \in 1..n : j \in places => j \in 1..(n - 1)
  BY <1>1
<1> QED
  BY <1>1, <1>2, <1>3 DEF Follows

\* One token is read: the reading stops, goes on, or leaves the token.
LEMMA Following ==
  ASSUME NEW kinds, NEW args, NEW taken, NEW places, NEW n, NEW s, NEW u,
         LimitFlags(kinds), IsWritten(args, taken, n), Follows(s, kinds, args, taken, places, n - 1),
         Advances(kinds, s, u, args[n])
  PROVE  \/ Stops(u)
         \/ Follows(u, kinds, args, taken, places, n) /\ (s.at = "value" => ParseInt(args[n]) # Null)
         \/ /\ s.at \in {"flags", "rest"} /\ Leaves(s, u, args[n])
            /\ s.at = "flags" => args[n].dashes = 0 \/ args[n] = Dash
<1>1. /\ n \in Nat \ {0} /\ n - 1 \in Nat
      /\ n \in taken <=> s.at = "value"
      /\ n \in Openings(args) <=> Opens(args[n])
      /\ args[n].dashes # 0 => args[n].dashes > 0
  BY DEF IsWritten, Follows
<1>2. /\ s.rest = <<>> /\ Tells(s, kinds, args, taken, n - 1)
      /\ \A j \in 1..(n - 1) : j \in places => args[j].dashes > 0 \/ j \in taken
      /\ s.at \in {"flags", "value", "rest"}
  BY DEF Follows
<1>3. (args[n].dashes > 0 \/ n \in taken) =>
        \A j \in 1..n : j \in places => args[j].dashes > 0 \/ j \in taken
  <2>1. \A j \in 1..n : j \in 1..(n - 1) \/ j = n
    BY <1>1
  <2> QED
    BY <1>2, <2>1
<1>4. CASE s.at = "value"
  <2>1. /\ s.flag = args[n - 1].name /\ s.flag \in DOMAIN kinds /\ n - 1 \in Openings(args)
        /\ n \in taken /\ n \notin Openings(args) \ taken
    BY <1>1, <1>4 DEF Follows
  <2>2. s.flag \in LimitNames /\ kinds[s.flag] = "int"
    BY <2>1 DEF Openings, Opens, LimitNames, LimitFlags
  <2>3. CASE ParseInt(args[n]) # Null /\ Sets(s, u, s.flag, ParseInt(args[n]))
    <3>1. Taken(NewLimit(args, taken, s.flag, n), ParseInt(args[n]))
      BY <2>1, <2>3 DEF NewLimit, Taken
    <3>2. \A flag \in LimitNames \cap DOMAIN kinds : flag # s.flag => NewLimit(args, taken, flag, n) = {}
      BY <2>1 DEF NewLimit
    <3>3. Tells(u, kinds, args, taken, n)
      BY <1>1, <1>2, <2>3, <3>1, <3>2, TellsOneMore
    <3>4. u.rest = <<>> /\ u.at = "flags"
      BY <1>2, <2>3 DEF Sets
    <3> QED
      BY <1>3, <2>1, <2>3, <3>3, <3>4 DEF Follows
  <2> QED
    BY <1>4, <2>2, <2>3 DEF Advances
<1>5. CASE s.at # "value" /\ args[n] = Terminator /\ Goes(s, u, "rest")
  <2>1. args[n].dashes > 0 /\ args[n].value = "" /\ args[n].name = ""
    <3>1. Terminator.dashes > 0 /\ Terminator.value = "" /\ Terminator.name = ""
      BY DEF Terminator, Token
    <3> QED
      BY <1>5, <3>1
  <2>2. n \notin taken /\ n \notin Openings(args)
    BY <1>1, <1>5, <2>1 DEF Opens
  <2>3. Tells(u, kinds, args, taken, n)
    <3>1. \A flag \in LimitNames \cap DOMAIN kinds : NewLimit(args, taken, flag, n) = {}
      BY <2>1, <2>2 DEF NewLimit
    <3> QED
      BY <1>1, <1>2, <1>5, <3>1, TellsAsBefore DEF Goes
  <2>4. u.rest = <<>> /\ u.at = "rest"
    BY <1>2, <1>5 DEF Goes
  <2>5. \A j \in 1..n : j \in places => args[j].dashes > 0 \/ j \in taken
    BY <1>3, <2>1
  <2> QED
    BY <1>5, <2>2, <2>3, <2>4, <2>5 DEF Follows
<1>6. CASE s.at # "value" /\ args[n].dashes # 0 /\ Flagged(kinds, s, u, args[n]) /\ ~Stops(u)
  <2> DEFINE name == args[n].name
  <2>1. n \notin taken /\ name \in DOMAIN kinds /\ args[n].dashes > 0
    BY <1>1, <1>6 DEF Flagged
  <2>2. (name = "json" /\ kinds[name] = "bool") \/ (name \in LimitNames /\ kinds[name] = "int")
    BY <2>1 DEF LimitFlags
  <2>3. \A flag \in LimitNames \cap DOMAIN kinds : flag # name => NewLimit(args, taken, flag, n) = {}
    BY <2>1 DEF NewLimit
  <2>4. CASE args[n].value # ""
    <3>1. n \notin Openings(args)
      BY <1>1, <2>4 DEF Opens
    <3>2. NewLimit(args, taken, name, n) = {Word(args[n].value)}
      BY <2>1, <2>4 DEF NewLimit
    <3>3. PICK value : /\ Sets(s, u, name, value)
                       /\ name \in LimitNames => value = ParseInt(Word(args[n].value)) /\ value # Null
      <4>1. "json" \notin LimitNames
        BY DEF LimitNames
      <4> QED
        BY <1>6, <2>2, <2>4, <4>1 DEF Flagged
    <3>4. Tells(u, kinds, args, taken, n)
      <4>1. name \in LimitNames => Taken(NewLimit(args, taken, name, n), value)
        BY <3>2, <3>3 DEF Taken
      <4> QED
        BY <1>1, <1>2, <2>3, <3>3, <4>1, TellsOneMore
    <3>5. u.rest = <<>> /\ u.at = "flags"
      BY <1>2, <3>3 DEF Sets
    <3> QED
      BY <1>3, <1>6, <2>1, <3>1, <3>4, <3>5 DEF Follows
  <2>5. CASE args[n].value = "" /\ kinds[name] = "bool"
    <3>1. name = "json" /\ name \notin LimitNames
      BY <2>2, <2>5 DEF LimitNames
    <3>2. n \notin Openings(args)
      BY <1>1, <3>1 DEF Opens
    <3>3. PICK value : Sets(s, u, name, value)
      BY <1>6, <2>5 DEF Flagged
    <3>4. Tells(u, kinds, args, taken, n)
      BY <1>1, <1>2, <2>3, <3>1, <3>3, TellsOneMore
    <3>5. u.rest = <<>> /\ u.at = "flags"
      BY <1>2, <3>3 DEF Sets
    <3> QED
      BY <1>3, <1>6, <2>1, <3>2, <3>4, <3>5 DEF Follows
  <2>6. CASE args[n].value = "" /\ kinds[name] # "bool"
    <3>1. n \in Openings(args) \ taken
      BY <1>1, <2>1, <2>2, <2>6 DEF Opens, LimitNames
    <3>2. Waits(s, u, name)
      BY <1>6, <2>6 DEF Flagged
    <3>3. Tells(u, kinds, args, taken, n)
      <4>1. \A flag \in LimitNames \cap DOMAIN kinds : NewLimit(args, taken, flag, n) = {}
        BY <2>1, <2>6 DEF NewLimit
      <4> QED
        BY <1>1, <1>2, <3>2, <4>1, TellsAsBefore DEF Waits
    <3> QED
      BY <1>2, <1>3, <1>6, <2>1, <3>1, <3>2, <3>3 DEF Follows, Waits
  <2> QED
    BY <2>4, <2>5, <2>6
<1> QED
  BY <1>2, <1>4, <1>5, <1>6 DEF Advances

\* A token that is no tab.
NoTab(t) == Atoi(t) = Null \/ Atoi(t) <= 0

\* A token with dashes is a numeral only if it has one, and then it is not positive;
\* one that is positive is a word.
LEMMA Numerals ==
  ASSUME NEW t \in Tokens
  PROVE  /\ ParseInt(t) = Null \/ (t.dashes < 2 /\ t.name \in DOMAIN Literals)
         /\ t.dashes > 0 => NoTab(t)
<1>0. ParseInt(t) = Null \/ (t.dashes < 2 /\ t.name \in DOMAIN Literals)
  <2>1. ParseInt(t) = Null \/ (~(t.dashes > 1) /\ t.name \in DOMAIN Literals)
    BY Zenon DEF ParseInt, Numeral
  <2>2. ~(t.dashes > 1) => t.dashes < 2
    BY DEF Tokens
  <2> QED
    BY <2>1, <2>2
<1>1. /\ t.dashes \in 0..2
      /\ ~(t.dashes > 1) => t.dashes < 2 /\ (t.dashes > 0 => t.dashes # 0)
  BY DEF Tokens
<1>2. CASE t.value # "" \/ t.dashes > 1 \/ t.name \notin DOMAIN Numbers
  <2>1. Atoi(t) = Null
    BY <1>2, Zenon DEF Atoi, Numeral
  <2> QED
    BY <1>0, <2>1 DEF NoTab
<1>3. CASE t.value = "" /\ ~(t.dashes > 1) /\ t.name \in DOMAIN Numbers
  <2>1. Numbers[t.name] \in Nat
    BY <1>3, NumbersAssumption
  <2>2. t.dashes > 0 => Atoi(t) = -Numbers[t.name]
    BY <1>1, <1>3, Zenon DEF Atoi, Numeral
  <2>3. t.dashes > 0 => Atoi(t) <= 0
    BY <2>1, <2>2
  <2> QED
    BY <1>0, <1>1, <1>3, <2>3 DEF NoTab
<1> QED
  BY <1>0, <1>1, <1>2, <1>3

\* A line as it is written, one place after the other.
LEMMA EveryPlace ==
  ASSUME NEW args \in Seq(Tokens)
  PROVE  /\ \A n \in 1..Len(args) : IsWritten(args, WrittenValues(args), n)
         /\ WrittenValues(args) \subseteq 1..Len(args)
<1> DEFINE taken == WrittenValues(args)
           N == Len(args)
<1>1. N \in Nat /\ \A n \in 1..N : args[n] \in Tokens
  BY LenProperties, ElementOfSeq
<1>2. Alternate(taken, Openings(args), N)
  BY Written
<1> HIDE DEF taken
<1>3. ASSUME NEW n \in 1..N
      PROVE  IsWritten(args, taken, n)
  <2>1. n \in Nat \ {0} /\ args[n].dashes \in 0..2
    BY <1>1 DEF Tokens
  <2>2. n \in Openings(args) <=> Opens(args[n])
    BY DEF Openings
  <2>3. n \in taken <=> n > 1 /\ n - 1 \in Openings(args) /\ n - 1 \notin taken
    BY <1>2 DEF Alternate
  <2>4. n - 1 \in Openings(args) => n > 1
    BY <1>1 DEF Openings
  <2> QED
    BY <2>1, <2>2, <2>3, <2>4 DEF IsWritten
<1> QED
  BY <1>2, <1>3 DEF Alternate, taken

\* Before the first token everything has been read.
LEMMA FollowsAtFirst ==
  ASSUME NEW kinds, NEW args, NEW taken, NEW places
  PROVE  Follows(Start, kinds, args, taken, places, 0)
<1>1. 0 \notin Openings(args)
  BY DEF Openings
<1>2. Tells(Start, kinds, args, taken, 0)
  <2>1. DOMAIN Start.set = {}
    BY DEF Start
  <2>2. \A flag : LimitsBy(args, taken, flag, 0) = {}
    BY DEF LimitsBy
  <2> QED
    BY <2>1, <2>2 DEF Tells
<1>3. Start.rest = <<>> /\ Start.at = "flags"
  BY DEF Start
<1> QED
  BY <1>1, <1>2, <1>3 DEF Follows

\* What is the matter when reading does not follow the line: a limit with one dash
\* waits for a value, or something has been left that is no tab.
Stuck(s, kinds, args, values, n) ==
  /\ s.at = "value" /\ s.flag \in DOMAIN kinds /\ kinds[s.flag] = "int"
  /\ \E k \in DOMAIN args : args[k].dashes = 1 /\ args[k].name \in LimitNames /\ args[k].value = ""
  /\ n \notin Separated(args) \ values

LeavesNoTab(s) == s.at = "rest" /\ s.rest \in Seq(Tokens) /\ s.rest # <<>> /\ NoTab(s.rest[1])

Comparing(s, kinds, args, taken, values, places, n) ==
  \/ Stops(s)
  \/ Follows(s, kinds, args, taken, places, n) /\ \A j \in 1..n : j \in values <=> j \in taken
  \/ Stuck(s, kinds, args, values, n)
  \/ LeavesNoTab(s)

\* No limit with one dash waits while a numeral with a dash is in the line.
NoMix(args) ==
  \A i, j \in DOMAIN args :
    ~(/\ args[i].dashes = 1 /\ args[i].name \in LimitNames /\ args[i].value = ""
      /\ args[j].dashes = 1 /\ args[j].name \in DOMAIN Literals)

\* The flags of compare and diff, and what separates them.
Comparable(kinds, args, taken, values, places) ==
  /\ args \in Seq(Tokens) /\ LimitFlags(kinds)
  /\ \A n \in 1..Len(args) : IsWritten(args, taken, n)
  /\ Alternate(values, Separated(args), Len(args))
  /\ places = {i \in 1..Len(args) : i \in values \/ args[i].dashes > 0}
  /\ NoMix(args)

\* What opens a value for splitComparisonArguments does so for a reader; the other
\* limits that do have one dash.
LEMMA OneDash ==
  ASSUME NEW t \in Tokens
  PROVE  /\ Separate(t) => Opens(t)
         /\ Opens(t) => Separate(t) \/ (t.dashes = 1 /\ t.name \in LimitNames /\ t.value = "")
         /\ t.dashes = 0 => ~Separate(t)
<1>1. t \in [dashes : 0..2, name : STRING, value : STRING]
  BY DEF Tokens
<1>2. \A name : LET u == Token(2, name, "") IN u.dashes = 2 /\ u.name = name /\ u.value = ""
  BY DEF Token
<1>3. Separate(t) => t.dashes = 2 /\ t.value = "" /\ t.name \in LimitNames
  BY <1>2 DEF Separate, LimitNames
<1>4. t.dashes = 2 /\ t.value = "" /\ t.name \in LimitNames => Separate(t)
  <2> SUFFICES ASSUME t.dashes = 2 /\ t.value = "" /\ t.name \in LimitNames
               PROVE  Separate(t)
    OBVIOUS
  <2>1. t = [dashes |-> t.dashes, name |-> t.name, value |-> t.value]
    BY <1>1
  <2>2. t = Token(2, t.name, "")
    BY <2>1 DEF Token
  <2> QED
    BY <2>2 DEF Separate, LimitNames
<1>5. /\ t.dashes = 2 => t.dashes > 0 /\ t.dashes # 0
      /\ t.dashes > 0 => t.dashes = 1 \/ t.dashes = 2
  BY <1>1
<1> QED
  BY <1>3, <1>4, <1>5, Zenon DEF Opens, LimitNames

\* One more token of a line for compare or diff.
LEMMA ComparingKeeps ==
  ASSUME NEW kinds, NEW args, NEW taken, NEW values, NEW places, NEW n \in 1..Len(args), NEW s, NEW u,
         Comparable(kinds, args, taken, values, places),
         Comparing(s, kinds, args, taken, values, places, n - 1),
         IF n \in places THEN Advances(kinds, s, u, args[n]) ELSE u = s
  PROVE  Comparing(u, kinds, args, taken, values, places, n)
<1> DEFINE t == args[n]
<1>1. /\ Len(args) \in Nat /\ n \in DOMAIN args /\ t \in Tokens /\ t.dashes \in 0..2
      /\ \A k \in 1..Len(args) : args[k] \in Tokens /\ k \in DOMAIN args
  <2>1. Len(args) \in Nat /\ DOMAIN args = 1..Len(args) /\ \A k \in 1..Len(args) : args[k] \in Tokens
    BY LenProperties, ElementOfSeq DEF Comparable
  <2> QED
    BY <2>1 DEF Tokens
<1>2. /\ IsWritten(args, taken, n)
      /\ n \in places <=> n \in values \/ t.dashes > 0
      /\ n \in values <=> n - 1 \in Separated(args) \ values
  <2>1. n \in values <=> n > 1 /\ n - 1 \in Separated(args) /\ n - 1 \notin values
    BY DEF Comparable, Alternate
  <2>2. n - 1 \in Separated(args) => n > 1
    BY <1>1 DEF Separated
  <2> QED
    BY <2>1, <2>2 DEF Comparable
<1>3. /\ n \in Openings(args) <=> Opens(t)
      /\ n \in Separated(args) <=> Separate(t)
      /\ n - 1 \in Separated(args) => n - 1 \in Openings(args)
      /\ n - 1 \in Openings(args) => n - 1 \in 1..Len(args)
      /\ n \in taken <=> n - 1 \in Openings(args) \ taken
  <2>1. n - 1 \in Separated(args) => n - 1 \in Openings(args)
    BY <1>1, OneDash DEF Separated, Openings
  <2> QED
    BY <1>2, <2>1 DEF Separated, Openings, IsWritten
<1>4. CASE Stops(s)
  BY <1>4 DEF Advances, Comparing, Stops
<1>5. CASE Stuck(s, kinds, args, values, n - 1)
  <2>1. n \notin values
    BY <1>2, <1>5 DEF Stuck
  <2>2. CASE n \notin places
    <3>1. u = s /\ t.dashes = 0
      BY <1>1, <1>2, <2>2
    <3>2. n \notin Separated(args)
      BY <1>1, <1>3, <3>1, OneDash
    <3> QED
      BY <1>5, <3>1, <3>2 DEF Stuck, Comparing
  <2>3. CASE n \in places
    <3>1. t.dashes > 0
      BY <1>2, <2>1, <2>3
    <3>2. ParseInt(t) = Null
      <4>1. ParseInt(t) = Null \/ (t.dashes < 2 /\ t.name \in DOMAIN Literals)
        BY <1>1, Numerals
      <4>2. t.dashes < 2 => t.dashes = 1
        BY <1>1, <3>1
      <4> QED
        BY <1>1, <1>5, <4>1, <4>2 DEF Stuck, Comparable, NoMix
    <3>3. Stops(u)
      BY <1>5, <2>3, <3>2 DEF Advances, Stuck
    <3> QED
      BY <3>3 DEF Comparing
  <2> QED
    BY <2>2, <2>3
<1>6. CASE LeavesNoTab(s)
  <2>1. CASE n \notin places
    BY <1>6, <2>1 DEF Comparing
  <2>2. CASE n \in places
    <3>1. Leaves(s, u, t)
      BY <1>6, <2>2 DEF Advances, LeavesNoTab
    <3>2. s.rest \in Seq(Tokens) /\ s.rest # <<>>
      BY <1>6 DEF LeavesNoTab
    <3> DEFINE more == Append(s.rest, t)
    <3>3. more \in Seq(Tokens) /\ more # <<>> /\ more[1] = s.rest[1]
      <4>1. Len(s.rest) \in Nat /\ Len(s.rest) # 0
        BY <3>2, EmptySeq, LenProperties
      <4> HIDE DEF t
      <4>2. more \in Seq(Tokens) /\ Len(more) = Len(s.rest) + 1 /\ more[1] = s.rest[1]
        BY <1>1, <3>2, <4>1, AppendProperties
      <4>3. Len(more) # 0
        BY <4>1, <4>2
      <4> QED
        BY <4>2, <4>3, EmptySeq
    <3> HIDE DEF more
    <3>4. u.at = "rest" /\ u.rest = more
      BY <3>1 DEF Leaves, more
    <3> QED
      BY <1>6, <3>3, <3>4 DEF LeavesNoTab, Comparing
  <2> QED
    BY <2>1, <2>2
<1>7. CASE /\ Follows(s, kinds, args, taken, places, n - 1)
           /\ \A j \in 1..(n - 1) : j \in values <=> j \in taken
  <2>1. s.at = "value" <=> n \in taken
    BY <1>3, <1>7 DEF Follows
  <2>2. n - 1 \in 1..Len(args) => (n - 1 \in values <=> n - 1 \in taken)
    BY <1>7
  <2>3. n \in values => n \in taken
    BY <1>2, <1>3, <2>2
  <2>4. (n \in values <=> n \in taken) => \A j \in 1..n : j \in values <=> j \in taken
    <3>1. \A j \in 1..n : j \in 1..(n - 1) \/ j = n
      OBVIOUS
    <3> QED
      BY <1>7, <3>1
  <2>5. n \in taken /\ n \notin values =>
          \E k \in DOMAIN args : args[k].dashes = 1 /\ args[k].name \in LimitNames /\ args[k].value = ""
    <3> SUFFICES ASSUME n \in taken, n \notin values
                 PROVE  \E k \in DOMAIN args : args[k].dashes = 1 /\ args[k].name \in LimitNames /\ args[k].value = ""
      OBVIOUS
    <3>1. n - 1 \in 1..Len(args) /\ n - 1 \in Openings(args) /\ n - 1 \notin Separated(args)
      BY <1>2, <1>3, <2>2
    <3>2. Opens(args[n - 1]) /\ ~Separate(args[n - 1])
      BY <3>1 DEF Openings, Separated
    <3> QED
      BY <1>1, <3>1, <3>2, OneDash
  <2>6. CASE n \notin places /\ s.at # "value"
    <3>1. t.dashes = 0 /\ u = s
      BY <1>1, <1>2, <2>6
    <3>2. Follows(u, kinds, args, taken, places, n)
      BY <1>2, <1>7, <2>6, <3>1, PassingOver
    <3> QED
      BY <2>1, <2>3, <2>4, <2>6, <3>2 DEF Comparing
  <2>7. CASE n \notin places /\ s.at = "value"
    <3>1. t.dashes = 0 /\ u = s /\ n \notin values
      BY <1>1, <1>2, <2>7
    <3>2. n \notin Separated(args)
      BY <1>1, <1>3, <3>1, OneDash
    <3>3. kinds[s.flag] = "int" /\ s.flag \in DOMAIN kinds
      <4>1. s.flag = args[n - 1].name /\ s.flag \in DOMAIN kinds /\ n - 1 \in Openings(args)
        BY <1>3, <1>7, <2>7 DEF Follows
      <4>2. s.flag # "json"
        BY <4>1 DEF Openings, Opens
      <4> QED
        BY <4>1, <4>2 DEF Comparable, LimitFlags
    <3> QED
      BY <2>1, <2>5, <2>7, <3>1, <3>2, <3>3 DEF Stuck, Comparing
  <2>8. CASE n \in places
    <3>1. LimitFlags(kinds) /\ Advances(kinds, s, u, t)
      BY <2>8 DEF Comparable
    <3>2. CASE Stops(u)
      BY <3>2 DEF Comparing
    <3>3. CASE Follows(u, kinds, args, taken, places, n) /\ (s.at = "value" => ParseInt(t) # Null)
      <4>1. n \in taken => n \in values
        <5> SUFFICES ASSUME n \in taken, n \notin values
                     PROVE  FALSE
          OBVIOUS
        <5>1. t.dashes > 0 /\ ParseInt(t) # Null
          BY <1>2, <2>1, <2>8, <3>3
        <5>2. t.dashes < 2 /\ t.name \in DOMAIN Literals
          BY <1>1, <5>1, Numerals
        <5>3. t.dashes = 1
          BY <1>1, <5>1, <5>2
        <5> QED
          BY <1>1, <2>5, <5>2, <5>3 DEF Comparable, NoMix
      <4> QED
        BY <2>3, <2>4, <3>3, <4>1 DEF Comparing
    <3>4. CASE /\ s.at \in {"flags", "rest"} /\ Leaves(s, u, t)
               /\ s.at = "flags" => t.dashes = 0 \/ t = Dash
      <4>1. n \notin values
        BY <2>1, <2>3, <3>4
      <4>2. t.dashes > 0
        BY <1>2, <2>8, <4>1
      <4>3. NoTab(t)
        BY <1>1, <4>2, Numerals
      <4>4. u.at = "rest" /\ u.rest = <<t>>
        <5>1. s.rest = <<>>
          BY <1>7 DEF Follows
        <5> HIDE DEF t
        <5> QED
          BY <3>4, <5>1 DEF Leaves
      <4>5. LeavesNoTab(u)
        <5>1. <<t>> \in Seq(Tokens) /\ <<t>> # <<>> /\ <<t>>[1] = t
          <6> HIDE DEF t
          <6> QED
            BY <1>1
        <5> HIDE DEF t
        <5> QED
          BY <4>3, <4>4, <5>1 DEF LeavesNoTab
      <4> QED
        BY <4>5 DEF Comparing
    <3> QED
      BY <1>2, <1>7, <3>1, <3>2, <3>3, <3>4, Following
  <2> QED
    BY <2>6, <2>7, <2>8
<1> QED
  BY <1>4, <1>5, <1>6, <1>7 DEF Comparing

\* A limit is what the flag package makes of what has been written.
TakenAs(args, flag, limit) ==
  IF WrittenLimits(args, flag) = {} THEN limit = 0 ELSE Taken(WrittenLimits(args, flag), limit)

\* A limit that is set is taken from what has been written.
LEMMA SaysWhatItTells ==
  ASSUME NEW kinds, NEW args, NEW s, WrittenValues(args) \subseteq 1..Len(args),
         Tells(s, kinds, args, WrittenValues(args), Len(args)), NEW flag \in LimitNames \cap DOMAIN kinds
  PROVE  TakenAs(args, flag, Setting(End(s), flag, 0))
<1> DEFINE taken == WrittenValues(args)
           N == Len(args)
<1>1. taken \cap (1..N) = taken
  OBVIOUS
<1>2. WrittenLimits(args, flag) = LimitsBy(args, taken, flag, N)
  BY <1>1, Zenon DEF WrittenLimits, LimitsBy
<1>3. End(s).set = s.set
  BY DEF End
<1>4. Setting(End(s), flag, 0) = IF flag \in DOMAIN s.set THEN s.set[flag] ELSE 0
  BY <1>3 DEF Setting
<1>5. IF flag \in DOMAIN s.set THEN Taken(LimitsBy(args, taken, flag, N), s.set[flag])
      ELSE LimitsBy(args, taken, flag, N) = {}
  BY DEF Tells
<1> HIDE DEF taken
<1> QED
  BY <1>2, <1>4, <1>5 DEF TakenAs, Taken

\* Parse succeeds only when it has not stopped and waits for nothing.
LEMMA Succeeds ==
  ASSUME NEW s, End(s).result = "ok"
  PROVE  ~Stops(s) /\ s.at # "value"
BY DEF End, Stops

\* compare and diff: of a line that they accept nothing is dropped.
LEMMA ComparisonRead ==
  ASSUME NEW kinds, NEW args \in Seq(Tokens), LimitFlags(kinds), NoMix(args),
         ParseFlags(kinds, ItemsAt(args, FlagPlaces(args))).result = "ok",
         IsComparison(ComparisonIds(args, ParseFlags(kinds, ItemsAt(args, FlagPlaces(args)))))
  PROVE  LET parsed == ParseFlags(kinds, ItemsAt(args, FlagPlaces(args))) IN
         /\ WrittenTabs(args) = ComparisonIds(args, parsed)
         /\ \A flag \in LimitNames \cap DOMAIN kinds : TakenAs(args, flag, Setting(parsed, flag, 0))
<1> DEFINE N == Len(args)
           taken == WrittenValues(args)
           places == FlagPlaces(args)
           parsed == ParseFlags(kinds, ItemsAt(args, places))
<1>1. N \in Nat /\ \A n \in 1..N : args[n] \in Tokens
  BY LenProperties, ElementOfSeq
<1>2. PICK values : /\ Alternate(values, Separated(args), N)
                    /\ places = {i \in 1..N : i \in values \/ args[i].dashes > 0}
  BY Split
<1>3. taken \subseteq 1..N /\ \A n \in 1..N : IsWritten(args, taken, n)
  BY EveryPlace
<1>4. PICK state : ReaderAt(state, kinds, args, places)
  BY PassesOver
<1> HIDE DEF taken, places
<1>5. Comparable(kinds, args, taken, values, places)
  BY <1>2, <1>3 DEF Comparable
<1> DEFINE good == {n \in 0..N : IsState(state[n]) /\ Comparing(state[n], kinds, args, taken, values, places, n)}
<1>6. 0 \in good
  <2>1. Follows(Start, kinds, args, taken, places, 0)
    BY FollowsAtFirst
  <2>2. Comparing(Start, kinds, args, taken, values, places, 0)
    BY <2>1 DEF Comparing
  <2>3. state[0] = Start /\ 0 \in 0..N
    BY <1>1, <1>4 DEF ReaderAt
  <2> QED
    BY <2>2, <2>3, StartIsState
<1>7. ASSUME NEW n \in 0..N, n < N, n \in good
      PROVE  n + 1 \in good
  <2>1. PICK m \in 1..N : m = n + 1 /\ m - 1 = n /\ m \in 0..N
    BY <1>1, <1>7
  <2>2. state[m] = IF m \in places THEN ReadToken(kinds, state[n], args[m]) ELSE state[n]
    BY <1>4, <2>1 DEF ReaderAt
  <2>3. IsState(state[n]) /\ Comparing(state[n], kinds, args, taken, values, places, m - 1)
    BY <1>7, <2>1
  <2>4. /\ IsState(state[m])
        /\ IF m \in places THEN Advances(kinds, state[n], state[m], args[m]) ELSE state[m] = state[n]
    BY <2>2, <2>3, TokenReading
  <2>5. Comparing(state[m], kinds, args, taken, values, places, m)
    BY <1>5, <2>3, <2>4, ComparingKeeps
  <2> QED
    BY <2>1, <2>4, <2>5
<1>8. N \in good
  <2> HIDE DEF good
  <2>1. 0..N \subseteq good
    BY <1>1, <1>6, <1>7, UpTo
  <2> QED
    BY <1>1, <2>1
<1> DEFINE s == state[N]
<1>9. parsed = End(s)
  BY <1>4 DEF ReaderAt
<1>10. parsed.result = "ok" /\ IsComparison(ComparisonIds(args, parsed))
  BY DEF places
<1> HIDE DEF parsed
<1>11. Comparing(s, kinds, args, taken, values, places, N)
  BY <1>8
<1> HIDE DEF s, good
<1>12. ~Stops(s) /\ s.at # "value"
  BY <1>9, <1>10, Succeeds
<1> DEFINE words == ItemsAt(args, (1..N) \ places)
<1>13. words \in Seq(Tokens) /\ Len(words) \in Nat
  BY ItemsAreAList, LenProperties
<1>14. parsed.rest = s.rest
  BY <1>9 DEF End
<1>15. ComparisonIds(args, parsed) = [i \in DOMAIN (words \o s.rest) |-> Atoi((words \o s.rest)[i])]
  BY <1>14 DEF ComparisonIds, places
<1>16. ~LeavesNoTab(s)
  <2> SUFFICES ASSUME LeavesNoTab(s)
               PROVE  FALSE
    OBVIOUS
  <2> DEFINE tokens == words \o s.rest
             i == Len(words) + 1
  <2>1. s.rest \in Seq(Tokens) /\ Len(s.rest) \in Nat /\ Len(s.rest) # 0 /\ NoTab(s.rest[1])
    BY EmptySeq, LenProperties DEF LeavesNoTab
  <2> HIDE DEF words
  <2>2. i \in DOMAIN tokens /\ tokens[i] = s.rest[1]
    BY <1>13, <2>1, ConcatProperties, LenProperties
  <2> HIDE DEF tokens, i
  <2>3. Bad(ComparisonIds(args, parsed))
    BY <1>15, <2>1, <2>2 DEF Bad, NoTab, tokens
  <2> QED
    BY <1>10, <2>3 DEF IsComparison
<1>17. /\ Follows(s, kinds, args, taken, places, N)
       /\ \A j \in 1..N : j \in values <=> j \in taken
  BY <1>11, <1>12, <1>16 DEF Comparing, Stuck
<1>18. s.rest = <<>> /\ Tells(s, kinds, args, taken, N)
  BY <1>17 DEF Follows
<1>19. WrittenTabs(args) = ComparisonIds(args, parsed)
  <2>1. {i \in 1..N : args[i].dashes = 0} \ taken = (1..N) \ places
    <3>1. \A i \in 1..N : args[i].dashes = 0 <=> ~(args[i].dashes > 0)
      BY <1>1 DEF Tokens
    <3> QED
      BY <1>2, <1>17, <3>1
  <2>2. WrittenTabs(args) = [i \in DOMAIN words |-> Atoi(words[i])]
    BY <2>1, Zenon DEF WrittenTabs, taken
  <2>3. words \o s.rest = words
    <3> HIDE DEF words
    <3> QED
      BY <1>13, <1>18
  <2> HIDE DEF words
  <2> QED
    BY <1>15, <2>2, <2>3
<1>20. ASSUME NEW flag \in LimitNames \cap DOMAIN kinds
       PROVE  TakenAs(args, flag, Setting(parsed, flag, 0))
  BY <1>3, <1>9, <1>18, SaysWhatItTells DEF taken
<1> QED
  BY <1>19, <1>20 DEF parsed, places

\* content: what is left is the last token, or too much.
LeavesOne(s, kinds, args, taken, places, n) ==
  /\ s.at = "rest" /\ n \in 1..Len(args) /\ s.rest = <<args[n]>> /\ n \notin taken
  /\ Tells(s, kinds, args, taken, n - 1)
  /\ \A j \in 1..(n - 1) : j \in places => args[j].dashes > 0 \/ j \in taken

LeavesMany(s) == s.at = "rest" /\ s.rest \in Seq(Tokens) /\ Len(s.rest) > 1

Naming(s, kinds, args, taken, places, n) ==
  \/ Stops(s)
  \/ Follows(s, kinds, args, taken, places, n)
  \/ LeavesOne(s, kinds, args, taken, places, n)
  \/ LeavesMany(s)

\* One more token of a line for content.
LEMMA NamingKeeps ==
  ASSUME NEW kinds, NEW args \in Seq(Tokens), NEW taken, NEW places, NEW n \in 1..Len(args), NEW s, NEW u,
         LimitFlags(kinds), IsWritten(args, taken, n), n \notin places => n = 1 /\ args[n].dashes = 0,
         Naming(s, kinds, args, taken, places, n - 1),
         IF n \in places THEN Advances(kinds, s, u, args[n]) ELSE u = s
  PROVE  Naming(u, kinds, args, taken, places, n)
<1>1. Len(args) \in Nat /\ args[n] \in Tokens
  BY LenProperties, ElementOfSeq
<1>2. CASE n \notin places
  <2>1. n - 1 = 0 /\ u = s /\ args[n].dashes = 0 /\ 0 \notin Openings(args)
    BY <1>1, <1>2 DEF Openings
  <2>2. CASE Follows(s, kinds, args, taken, places, n - 1)
    <3>1. s.at # "value"
      BY <2>1, <2>2 DEF Follows
    <3>2. Follows(s, kinds, args, taken, places, n)
      BY <1>2, <2>1, <2>2, <3>1, PassingOver
    <3> QED
      BY <2>1, <3>2 DEF Naming
  <2>3. ~LeavesOne(s, kinds, args, taken, places, n - 1)
    BY <2>1 DEF LeavesOne
  <2> QED
    BY <2>1, <2>2, <2>3 DEF Naming
<1>3. CASE n \in places /\ Stops(s)
  BY <1>3 DEF Advances, Stops, Naming
<1>4. CASE n \in places /\ LeavesOne(s, kinds, args, taken, places, n - 1)
  <2>1. Leaves(s, u, args[n])
    BY <1>4 DEF Advances, LeavesOne
  <2>2. n - 1 \in 1..Len(args) /\ args[n - 1] \in Tokens /\ s.rest = <<args[n - 1]>>
    BY <1>4, ElementOfSeq DEF LeavesOne
  <2>3. s.rest \in Seq(Tokens) /\ Len(s.rest) = 1
    BY <2>2
  <2>4. Append(s.rest, args[n]) \in Seq(Tokens) /\ Len(Append(s.rest, args[n])) = 2
    <3>1. PICK rest \in Seq(Tokens), t \in Tokens : rest = s.rest /\ t = args[n] /\ Len(rest) = 1
      BY <1>1, <2>3
    <3>2. Append(rest, t) \in Seq(Tokens) /\ Len(Append(rest, t)) = 2
      <4>1. Append(rest, t) \in Seq(Tokens) /\ Len(Append(rest, t)) = Len(rest) + 1
        BY AppendProperties
      <4> QED
        BY <3>1, <4>1
    <3> QED
      BY <3>1, <3>2
  <2>5. LeavesMany(u)
    BY <2>1, <2>4 DEF Leaves, LeavesMany
  <2> QED
    BY <2>5 DEF Naming
<1>5. CASE n \in places /\ LeavesMany(s)
  <2>1. Leaves(s, u, args[n])
    BY <1>5 DEF Advances, LeavesMany
  <2>2. s.rest \in Seq(Tokens) /\ Len(s.rest) > 1 /\ Len(s.rest) \in Nat
    BY <1>5, LenProperties DEF LeavesMany
  <2>3. Append(s.rest, args[n]) \in Seq(Tokens) /\ Len(Append(s.rest, args[n])) > 1
    BY <1>1, <2>2, AppendProperties
  <2>4. LeavesMany(u)
    BY <2>1, <2>3 DEF Leaves, LeavesMany
  <2> QED
    BY <2>4 DEF Naming
<1>6. CASE n \in places /\ Follows(s, kinds, args, taken, places, n - 1)
  <2>1. Advances(kinds, s, u, args[n])
    BY <1>6
  <2>2. CASE s.at \in {"flags", "rest"} /\ Leaves(s, u, args[n])
    <3>1. n \notin taken
      BY <1>6, <2>2 DEF Follows, IsWritten
    <3>2. u.at = "rest" /\ u.rest = <<args[n]>> /\ u.set = s.set
      <4>1. s.rest = <<>>
        BY <1>6 DEF Follows
      <4> QED
        BY <2>2, <4>1 DEF Leaves
    <3>3. Tells(u, kinds, args, taken, n - 1)
      BY <1>6, <3>2 DEF Follows, Tells
    <3>4. \A j \in 1..(n - 1) : j \in places => args[j].dashes > 0 \/ j \in taken
      BY <1>6 DEF Follows
    <3>5. LeavesOne(u, kinds, args, taken, places, n)
      BY <3>1, <3>2, <3>3, <3>4 DEF LeavesOne
    <3> QED
      BY <3>5 DEF Naming
  <2>3. Stops(u) \/ Follows(u, kinds, args, taken, places, n) \/ (s.at \in {"flags", "rest"} /\ Leaves(s, u, args[n]))
    BY <1>6, <2>1, Following
  <2> QED
    BY <2>2, <2>3 DEF Naming
<1> QED
  BY <1>2, <1>3, <1>4, <1>5, <1>6 DEF Naming

\* The tokens that are for content's flags, and where it takes its tab from.
TabFirst(args) == args # <<>> /\ args[1].dashes = 0
ContentPlaces(args) == IF TabFirst(args) THEN 2..Len(args) ELSE 1..Len(args)
ContentTabs(args, rest) == IF TabFirst(args) THEN <<args[1]>> \o rest ELSE rest

\* content: of a line that it accepts nothing is dropped.
LEMMA ContentRead ==
  ASSUME NEW kinds, NEW args \in Seq(Tokens), LimitFlags(kinds), NEW parsed,
         parsed = ParseFlags(kinds, ItemsAt(args, ContentPlaces(args))), parsed.result = "ok",
         Len(ContentTabs(args, parsed.rest)) = 1, ~NoTab(ContentTabs(args, parsed.rest)[1])
  PROVE  /\ WrittenTabs(args) = <<Atoi(ContentTabs(args, parsed.rest)[1])>>
         /\ \A flag \in LimitNames \cap DOMAIN kinds : TakenAs(args, flag, Setting(parsed, flag, 0))
<1> DEFINE N == Len(args)
           taken == WrittenValues(args)
           places == ContentPlaces(args)
           first == TabFirst(args)
<1>1. N \in Nat /\ \A n \in 1..N : args[n] \in Tokens
  BY LenProperties, ElementOfSeq
<1>2. /\ places = IF first THEN 2..N ELSE 1..N
      /\ first => 1 \in 1..N /\ args[1].dashes = 0
      /\ \A n \in 1..N : n \notin places => n = 1 /\ args[n].dashes = 0
  <2>1. args # <<>> => 1 \in 1..N
    BY <1>1, EmptySeq
  <2> QED
    BY <1>1, <2>1 DEF ContentPlaces, TabFirst
<1>3. taken \subseteq 1..N /\ \A n \in 1..N : IsWritten(args, taken, n)
  BY EveryPlace
<1>4. PICK state : ReaderAt(state, kinds, args, places)
  BY PassesOver
<1> HIDE DEF taken, places, first
<1> DEFINE good == {n \in 0..N : IsState(state[n]) /\ Naming(state[n], kinds, args, taken, places, n)}
<1>5. 0 \in good
  <2>1. Follows(Start, kinds, args, taken, places, 0)
    BY FollowsAtFirst
  <2>2. Naming(Start, kinds, args, taken, places, 0)
    BY <2>1 DEF Naming
  <2>3. state[0] = Start /\ 0 \in 0..N
    BY <1>1, <1>4 DEF ReaderAt
  <2> QED
    BY <2>2, <2>3, StartIsState
<1>6. ASSUME NEW n \in 0..N, n < N, n \in good
      PROVE  n + 1 \in good
  <2>1. PICK m \in 1..N : m = n + 1 /\ m - 1 = n /\ m \in 0..N
    BY <1>1, <1>6
  <2>2. state[m] = IF m \in places THEN ReadToken(kinds, state[n], args[m]) ELSE state[n]
    BY <1>4, <2>1 DEF ReaderAt
  <2>3. IsState(state[n]) /\ Naming(state[n], kinds, args, taken, places, m - 1)
    BY <1>6, <2>1
  <2>4. /\ IsState(state[m])
        /\ IF m \in places THEN Advances(kinds, state[n], state[m], args[m]) ELSE state[m] = state[n]
    BY <2>2, <2>3, TokenReading
  <2>5. IsWritten(args, taken, m) /\ (m \notin places => m = 1 /\ args[m].dashes = 0)
    BY <1>2, <1>3
  <2>6. Naming(state[m], kinds, args, taken, places, m)
    BY <2>3, <2>4, <2>5, NamingKeeps
  <2> QED
    BY <2>1, <2>4, <2>6
<1>7. N \in good
  <2> HIDE DEF good
  <2>1. 0..N \subseteq good
    BY <1>1, <1>5, <1>6, UpTo
  <2> QED
    BY <1>1, <2>1
<1> DEFINE s == state[N]
<1>8. parsed = End(s)
  BY <1>4 DEF ReaderAt, places
<1>9. Naming(s, kinds, args, taken, places, N)
  BY <1>7
<1> HIDE DEF s, good
<1>10. ~Stops(s) /\ s.at # "value"
  BY <1>8, Succeeds
<1>11. parsed.rest = s.rest
  BY <1>8 DEF End
<1> DEFINE tabs == ContentTabs(args, parsed.rest)
           written == {i \in 1..N : args[i].dashes = 0} \ taken
<1>12. tabs = IF first THEN <<args[1]>> \o s.rest ELSE s.rest
  BY <1>11 DEF ContentTabs, first
<1>13. WrittenTabs(args) = [i \in DOMAIN ItemsAt(args, written) |-> Atoi(ItemsAt(args, written)[i])]
  BY DEF WrittenTabs, taken
<1>14. \A i \in 1..N : args[i].dashes = 0 <=> ~(args[i].dashes > 0)
  BY <1>1 DEF Tokens
<1> HIDE DEF written
<1>15. ASSUME NEW x \in 1..N, written = {x}
       PROVE  WrittenTabs(args) = <<Atoi(args[x])>>
  <2>1. ItemsAt(args, written) = <<args[x]>>
    BY <1>15, OnePlace
  <2> QED
    BY <1>13, <2>1
<1>16. ASSUME first
       PROVE  /\ WrittenTabs(args) = <<Atoi(tabs[1])>> /\ Tells(s, kinds, args, taken, N)
  <2>1. s.rest \in Seq(Tokens) \/ s.rest = <<>>
    <3>1. \A n \in 1..N : <<args[n]>> \in Seq(Tokens)
      BY <1>1
    <3> QED
      BY <1>9, <1>10, <3>1 DEF Naming, Follows, LeavesOne, LeavesMany
  <2>2. s.rest \in Seq(Tokens) /\ args[1] \in Tokens
    BY <1>1, <1>2, <1>16, <2>1, EmptySeq
  <2>3. tabs = <<args[1]>> \o s.rest
    BY <1>12, <1>16
  <2> HIDE DEF tabs
  <2>4. s.rest = <<>> /\ tabs[1] = args[1]
    <3>1. <<args[1]>> \in Seq(Tokens) /\ Len(<<args[1]>>) = 1 /\ <<args[1]>>[1] = args[1] /\ Len(s.rest) \in Nat
      BY <2>2, LenProperties
    <3>2. Len(tabs) = 1 + Len(s.rest) /\ tabs[1] = args[1]
      BY <2>2, <2>3, <3>1, ConcatProperties
    <3>3. Len(tabs) = 1
      BY DEF tabs
    <3>4. Len(s.rest) = 0
      <4>1. \A l \in Nat : 1 + l = 1 => l = 0
        OBVIOUS
      <4> QED
        BY <3>1, <3>2, <3>3, <4>1, Zenon
    <3> QED
      BY <2>2, <3>2, <3>4, EmptySeq
  <2>5. Follows(s, kinds, args, taken, places, N)
    <3>1. Len(<<>>) = 0 /\ \A t : <<t>> # <<>>
      BY EmptySeq
    <3> QED
      BY <1>9, <1>10, <2>4, <3>1 DEF Naming, LeavesOne, LeavesMany
  <2>6. \A j \in 1..N : j \in places => args[j].dashes > 0 \/ j \in taken
    BY <2>5 DEF Follows
  <2>7. 1 \notin taken
    <3>1. 0 \notin Openings(args) /\ 1 - 1 = 0
      BY DEF Openings
    <3> QED
      BY <1>2, <1>3, <1>16, <3>1 DEF IsWritten
  <2>8. written = {1}
    <3>1. \A i \in 1..N : i # 1 => i \in places
      BY <1>1, <1>2
    <3> QED
      BY <1>2, <1>14, <1>16, <2>6, <2>7, <3>1 DEF written
  <2>9. WrittenTabs(args) = <<Atoi(args[1])>>
    BY <1>2, <1>15, <1>16, <2>8
  <2> QED
    BY <2>4, <2>5, <2>9 DEF Follows
<1>17. ASSUME ~first
       PROVE  /\ WrittenTabs(args) = <<Atoi(tabs[1])>> /\ Tells(s, kinds, args, taken, N)
  <2>1. tabs = s.rest /\ Len(s.rest) = 1 /\ ~NoTab(s.rest[1])
    BY <1>12, <1>17
  <2>2. LeavesOne(s, kinds, args, taken, places, N)
    <3>1. s.rest # <<>>
      BY <2>1, EmptySeq
    <3> QED
      BY <1>9, <1>10, <2>1, <3>1 DEF Naming, Follows, LeavesMany
  <2>3. N \in 1..N /\ s.rest = <<args[N]>> /\ N \notin taken /\ N \in Nat \ {0}
    BY <1>1, <2>2 DEF LeavesOne
  <2>4. s.rest[1] = args[N]
    BY <2>3
  <2>5. ~(args[N].dashes > 0)
    BY <1>1, <2>1, <2>3, <2>4, Numerals
  <2>6. written = {N}
    <3>1. \A i \in 1..N : i # N => i \in 1..(N - 1) /\ i \in places
      BY <1>1, <1>2, <1>17
    <3>2. \A j \in 1..(N - 1) : j \in places => args[j].dashes > 0 \/ j \in taken
      BY <2>2 DEF LeavesOne
    <3> QED
      BY <1>14, <2>3, <2>5, <3>1, <3>2 DEF written
  <2>7. Tells(s, kinds, args, taken, N)
    <3>1. \A flag \in LimitNames \cap DOMAIN kinds : NewLimit(args, taken, flag, N) = {}
      BY <2>3, <2>5 DEF NewLimit
    <3>2. Tells(s, kinds, args, taken, N - 1)
      BY <2>2 DEF LeavesOne
    <3> QED
      BY <2>3, <3>1, <3>2, TellsAsBefore
  <2>8. WrittenTabs(args) = <<Atoi(args[N])>>
    BY <1>15, <2>3, <2>6
  <2> QED
    BY <2>1, <2>4, <2>7, <2>8
<1>18. Tells(s, kinds, args, taken, N) /\ WrittenTabs(args) = <<Atoi(tabs[1])>>
  BY <1>16, <1>17
<1>19. ASSUME NEW flag \in LimitNames \cap DOMAIN kinds
       PROVE  TakenAs(args, flag, Setting(parsed, flag, 0))
  BY <1>3, <1>8, <1>18, SaysWhatItTells DEF taken
<1> QED
  BY <1>18, <1>19

\* The flags of content, compare and diff.
LEMMA FlagsOfLimits ==
  ASSUME NEW limits \in SUBSET LimitNames
  PROVE  LimitFlags(Flags({"json"}, limits, {})) /\ LimitNames \cap DOMAIN Flags({"json"}, limits, {}) = limits
<1>1. "json" \notin LimitNames
  BY DEF LimitNames
<1> QED
  BY <1>1 DEF LimitFlags, Flags

\* An identifier that is taken is a positive number.
LEMMA NotBad ==
  ASSUME NEW t, ~Bad(<<Atoi(t)>>)
  PROVE  ~NoTab(t)
<1> DEFINE id == Atoi(t)
<1> HIDE DEF id
<1>1. 1 \in DOMAIN <<id>> /\ <<id>>[1] = id
  OBVIOUS
<1>2. ~Bad(<<id>>)
  BY DEF id
<1> QED
  BY <1>1, <1>2 DEF Bad, NoTab, id

\* content: of a line without an empty word what is asked for is what it says.
LEMMA ContentAsks ==
  ASSUME NEW args \in Seq(Tokens), NEW json, ContentCommand(args, json).kind = "call", ~Misread("content", args)
  PROVE  LET input == ContentCommand(args, json).input IN
         WrittenTabs(args) = <<input.id>> /\ TakenAs(args, "max-chars", input.max)
<1> DEFINE kinds   == Flags({"json"}, {"max-chars"}, {})
           parsed  == ParseFlags(kinds, ItemsAt(args, ContentPlaces(args)))
           tabs    == ContentTabs(args, parsed.rest)
           input   == [id |-> Atoi(tabs[1]), max |-> Setting(parsed, "max-chars", 0)]
           outcome == IF Len(tabs) # 1 \/ Bad(<<Atoi(tabs[1])>>) THEN Reject("INVALID_ARGUMENT")
                      ELSE Call("content", input)
<1>1. ContentCommand(args, json) = AfterParse(parsed, json, outcome)
  <2>1. ItemsAt(args, ContentPlaces(args)) = IF TabFirst(args) THEN Tail(args) ELSE args
    BY AllItems, OtherItems DEF ContentPlaces, TabFirst
  <2>2. TabFirst(args) => args[1] # Word("")
    <3>1. args # <<>> => 1 \in DOMAIN args
      BY EmptySeq, LenProperties
    <3> QED
      BY <3>1 DEF TabFirst, Misread, Elements
  <2> DEFINE items == ItemsAt(args, ContentPlaces(args))
  <2> HIDE DEF items
  <2>3. ContentCommand(args, json) =
          LET p    == ParseFlags(kinds, IF TabFirst(args) THEN Tail(args) ELSE args)
              ts   == IF TabFirst(args) THEN <<args[1]>> \o p.rest ELSE p.rest
          IN AfterParse(p, json, IF Len(ts) # 1 \/ Bad(<<Atoi(ts[1])>>) THEN Reject("INVALID_ARGUMENT")
                                 ELSE Call("content", [id |-> Atoi(ts[1]), max |-> Setting(p, "max-chars", 0)]))
    <3>1. (TabFirst(args) /\ args[1] # Word("")) = TabFirst(args)
      BY <2>2 DEF TabFirst
    <3> QED
      BY <3>1 DEF ContentCommand, TabFirst
  <2> QED
    BY <2>1, <2>3 DEF ContentTabs
<1> HIDE DEF parsed, tabs, kinds
<1>2. parsed.result = "ok" /\ ContentCommand(args, json) = outcome
  <2> HIDE DEF outcome
  <2> QED
    BY <1>1, AsksWhenParsed
<1>3. Len(tabs) = 1 /\ ~Bad(<<Atoi(tabs[1])>>) /\ ContentCommand(args, json).input = input
  <2>1. Reject("INVALID_ARGUMENT").kind # "call" /\ Call("content", input).input = input
    BY DEF Reject, Exit, Call
  <2> HIDE DEF input
  <2> QED
    BY <1>2, <2>1
<1>4. LimitFlags(kinds) /\ "max-chars" \in LimitNames \cap DOMAIN kinds
  <2>1. {"max-chars"} \subseteq LimitNames
    BY DEF LimitNames
  <2> QED
    BY <2>1, FlagsOfLimits DEF kinds
<1>5. ~NoTab(tabs[1])
  BY <1>3, NotBad
<1>6. /\ WrittenTabs(args) = <<Atoi(tabs[1])>>
      /\ \A flag \in LimitNames \cap DOMAIN kinds : TakenAs(args, flag, Setting(parsed, flag, 0))
  BY <1>2, <1>3, <1>4, <1>5, ContentRead DEF parsed, tabs
<1> QED
  BY <1>3, <1>4, <1>6

\* compare and diff: of a line that does not mix limits and numerals with one dash
\* what is asked for is what it says.
LEMMA ComparisonAsks ==
  ASSUME NEW args \in Seq(Tokens), NEW json, NEW tool \in {"compare", "diff"},
         CommandOf(tool, args, json).kind = "call", ~Misread(tool, args)
  PROVE  LET input == CommandOf(tool, args, json).input IN
         /\ WrittenTabs(args) = input.ids
         /\ tool = "diff" => TakenAs(args, "max-chars", input.max) /\ TakenAs(args, "max-diff-chars", input.maxDiff)
<1> DEFINE limits  == IF tool = "diff" THEN {"max-chars", "max-diff-chars"} ELSE {}
           kinds   == Flags({"json"}, limits, {})
           parsed  == ParseFlags(kinds, ItemsAt(args, FlagPlaces(args)))
           ids     == ComparisonIds(args, parsed)
           input   == IF tool = "diff" THEN [ids |-> ids, max |-> Setting(parsed, "max-chars", 0),
                                             maxDiff |-> Setting(parsed, "max-diff-chars", 0)]
                      ELSE [ids |-> ids]
           outcome == IF IsComparison(ids) THEN Call(tool, input) ELSE Reject("INVALID_ARGUMENT")
<1>1. CommandOf(tool, args, json) = AfterParse(parsed, json, outcome)
  <2>1. CASE tool = "compare"
    <3>1. CommandOf(tool, args, json) = CompareCommand(args, json) /\ limits = {}
      BY <2>1 DEF CommandOf
    <3> QED
      BY <2>1, <3>1 DEF CompareCommand
  <2>2. CASE tool = "diff"
    <3>1. CommandOf(tool, args, json) = DiffCommand(args, json) /\ limits = {"max-chars", "max-diff-chars"}
      BY <2>2 DEF CommandOf
    <3> QED
      BY <2>2, <3>1 DEF DiffCommand
  <2> QED
    BY <2>1, <2>2
<1> HIDE DEF parsed, ids, kinds
<1>2. parsed.result = "ok" /\ CommandOf(tool, args, json) = outcome
  <2> HIDE DEF outcome
  <2> QED
    BY <1>1, AsksWhenParsed
<1>3. IsComparison(ids) /\ CommandOf(tool, args, json).input = input
  <2>1. Reject("INVALID_ARGUMENT").kind # "call" /\ Call(tool, input).input = input
    BY DEF Reject, Exit, Call
  <2> HIDE DEF input
  <2> QED
    BY <1>2, <2>1
<1>4. LimitFlags(kinds) /\ LimitNames \cap DOMAIN kinds = limits
  <2>1. limits \in SUBSET LimitNames
    BY DEF LimitNames
  <2> HIDE DEF limits
  <2> QED
    BY <2>1, FlagsOfLimits DEF kinds
<1>5. NoMix(args)
  BY DEF NoMix, Misread, LimitNames
<1>6. /\ WrittenTabs(args) = ids
      /\ \A flag \in LimitNames \cap DOMAIN kinds : TakenAs(args, flag, Setting(parsed, flag, 0))
  BY <1>2, <1>3, <1>4, <1>5, ComparisonRead DEF parsed, ids
<1>7. input.ids = ids /\ (tool = "diff" => input.max = Setting(parsed, "max-chars", 0)
                                           /\ input.maxDiff = Setting(parsed, "max-diff-chars", 0))
  OBVIOUS
<1>8. tool = "diff" => "max-chars" \in limits /\ "max-diff-chars" \in limits
  OBVIOUS
<1> HIDE DEF input, limits
<1> QED
  BY <1>3, <1>4, <1>6, <1>7, <1>8

\* Where no limit is taken for octal, it is what it says.
LEMMA SaysWhatItTakes ==
  ASSUME NEW tool, NEW args, ~Misread(tool, args), NEW flag \in LimitNames, NEW limit, TakenAs(args, flag, limit)
  PROVE  Says(args, flag, limit)
<1>1. CASE WrittenLimits(args, flag) = {}
  BY <1>1 DEF Says, TakenAs
<1>2. CASE WrittenLimits(args, flag) # {}
  <2>1. PICK t \in WrittenLimits(args, flag) : ParseInt(t) = limit /\ limit # Null
    BY <1>2 DEF TakenAs, Taken
  <2>2. t \in WrittenLimits(args, "max-chars") \cup WrittenLimits(args, "max-diff-chars")
    BY <2>1 DEF LimitNames
  <2>3. ~(Null \notin {Atoi(t), ParseInt(t)} /\ Atoi(t) # ParseInt(t))
    BY <2>2, Zenon DEF Misread
  <2>4. AsOneReads(t) = limit
    BY <2>1, <2>3 DEF AsOneReads
  <2> QED
    BY <1>2, <2>1, <2>4 DEF Says
<1> QED
  BY <1>1, <1>2

\* content, compare and diff: what a line comes to is what it says.
LEMMA SaysWhatIsAsked ==
  ASSUME NEW line \in Seq(Tokens), NEW tool \in {"content", "compare", "diff"},
         Run(line).kind = "call", Run(line).tool = tool, ~Misread(tool, Arguments(line))
  PROVE  LET input == Run(line).input IN
         /\ WrittenTabs(Arguments(line)) = IF tool = "content" THEN <<input.id>> ELSE input.ids
         /\ tool # "compare" => Says(Arguments(line), "max-chars", input.max)
         /\ tool = "diff" => Says(Arguments(line), "max-diff-chars", input.maxDiff)
<1>1. PICK json : Run(line) = CommandOf(tool, Arguments(line), json)
  BY RunsAsCommand
<1>2. Arguments(line) \in Seq(Tokens)
  BY RunsAsCommand
<1>3. "max-chars" \in LimitNames /\ "max-diff-chars" \in LimitNames
  BY DEF LimitNames
<1>4. CASE tool = "content"
  <2>1. Run(line) = ContentCommand(Arguments(line), json)
    BY <1>1, <1>4 DEF CommandOf
  <2> QED
    BY <1>2, <1>3, <1>4, <2>1, ContentAsks, SaysWhatItTakes
<1>5. CASE tool \in {"compare", "diff"}
  BY <1>1, <1>2, <1>3, <1>5, ComparisonAsks, SaysWhatItTakes
<1> QED
  BY <1>4, <1>5

\* content, compare and diff: for any line, with its flags and tabs in any order,
\* what the extension is asked for is what the line says; nothing is dropped.
THEOREM LinesAreReadAsWritten ==
  ASSUME NEW Sessions, \A s \in Sessions : Proper(s)
  PROVE  Init(Sessions) /\ [][Next]_vars => []ReadAsWritten
<1> DEFINE I == IInv /\ InstalledInv /\ CommandInv /\ LineInv
<1>1. Init(Sessions) => I
  BY BeginsWell, LineInvBegins
<1>2. I /\ [Next]_vars => I'
  <2> SUFFICES ASSUME I, [Next]_vars
               PROVE  I'
    OBVIOUS
  <2>1. (IInv /\ InstalledInv /\ CommandInv)'
    BY GoesOnWell
  <2>2. LineInv'
    BY LineInvKeeps DEF CommandInv
  <2> QED
    BY <2>1, <2>2
<1>3. I => ReadAsWritten
  <2> SUFFICES ASSUME I, NEW tool \in {"content", "compare", "diff"}, Asks(tool),
                      ~Misread(tool, Arguments(Line(command.number)))
               PROVE  LET args  == Arguments(Line(command.number))
                          input == command.outcome.input
                      IN /\ WrittenTabs(args) = IF tool = "content" THEN <<input.id>> ELSE input.ids
                         /\ tool # "compare" => Says(args, "max-chars", input.max)
                         /\ tool = "diff" => Says(args, "max-diff-chars", input.maxDiff)
    BY DEF ReadAsWritten, Arguments
  <2> DEFINE line == Line(command.number)
  <2>1. line \in Seq(Tokens) /\ command.outcome = Run(line) /\ Run(line).kind = "call" /\ Run(line).tool = tool
    BY LineInHand
  <2> HIDE DEF line
  <2> QED
    BY <2>1, SaysWhatIsAsked DEF line
<1> QED
  BY <1>1, <1>2, <1>3, PTL

-----------------------------------------------------------------------------
(* Listing tabs.                                                           *)

\* sortTabs's less compares like an order in which some may be equal.
LEMMA BeforeCompares ==
  ASSUME NEW a \in ChromeTabs, NEW b \in ChromeTabs, NEW c \in ChromeTabs, NEW field, NEW order
  PROVE  /\ ~Before(a, a, field, order)
         /\ ~(Before(a, b, field, order) /\ Before(b, a, field, order))
         /\ Before(a, c, field, order) => Before(a, b, field, order) \/ Before(b, c, field, order)
<1>1. Null \notin Int
  BY ToolsAssumption
<1>2. \A t \in ChromeTabs : t.id \in Int /\ t.window \in Int /\ t.index \in Int
                            /\ SortValue(t, field) \in Int \cup {Null}
  BY DEF ChromeTabs, SortValue
<1>3. CASE field = "position"
  BY <1>2, <1>3 DEF Before, LeftOf
<1>4. CASE field # "position"
  BY <1>1, <1>2, <1>4 DEF Before, Ordered
<1> QED
  BY <1>3, <1>4

\* sort.SliceStable: where it puts the tabs.
TabOrder(tabs, field, order) ==
  {p \in (1..Len(tabs)) \X (1..Len(tabs)) :
     \/ Before(tabs[p[1]], tabs[p[2]], field, order)
     \/ p[1] < p[2] /\ ~Before(tabs[p[2]], tabs[p[1]], field, order)}

\* It leaves no two tabs in doubt.
LEMMA TabOrderIsTotal ==
  ASSUME NEW tabs \in Seq(ChromeTabs), NEW field, NEW order
  PROVE  TotalOrder(TabOrder(tabs, field, order), Len(tabs))
<1> DEFINE N == Len(tabs)
           B(i, j) == Before(tabs[i], tabs[j], field, order)
           less == TabOrder(tabs, field, order)
<1>1. N \in Nat /\ \A i \in 1..N : tabs[i] \in ChromeTabs
  BY LenProperties, ElementOfSeq
<1>2. \A i, j, k \in 1..N : ~B(i, i) /\ ~(B(i, j) /\ B(j, i)) /\ (B(i, k) => B(i, j) \/ B(j, k))
  BY <1>1, BeforeCompares
<1>3. \A i, j \in 1..N : <<i, j>> \in less <=> B(i, j) \/ (i < j /\ ~B(j, i))
  BY DEF TabOrder
<1> HIDE DEF B, less, N
<1>4. \A i \in 1..N : <<i, i>> \notin less
  BY <1>1, <1>2, <1>3
<1>5. \A i, j \in 1..N : i # j => <<i, j>> \in less \/ <<j, i>> \in less
  BY <1>1, <1>2, <1>3
<1>6. ASSUME NEW i \in 1..N, NEW j \in 1..N, NEW k \in 1..N, <<i, j>> \in less, <<j, k>> \in less
      PROVE  <<i, k>> \in less
  <2>1. /\ B(i, k) => B(i, j) \/ B(j, k)
        /\ B(k, i) => B(k, j) \/ B(j, i)
        /\ B(i, j) => B(i, k) \/ B(k, j)
        /\ B(j, k) => B(j, i) \/ B(i, k)
        /\ ~(B(i, j) /\ B(j, i)) /\ ~(B(j, k) /\ B(k, j)) /\ ~(B(i, k) /\ B(k, i))
    BY <1>2
  <2>2. /\ B(i, j) \/ (i < j /\ ~B(j, i))
        /\ B(j, k) \/ (j < k /\ ~B(k, j))
    BY <1>3, <1>6
  <2>3. B(i, k) \/ (i < k /\ ~B(k, i))
    BY <1>1, <2>1, <2>2
  <2> QED
    BY <1>3, <2>3
<1> QED
  BY <1>4, <1>5, <1>6 DEF TotalOrder, N, less

\* What it has sorted: the same tabs, none behind one that belongs behind it.
LEMMA SortedInOrder ==
  ASSUME NEW tabs \in Seq(ChromeTabs), NEW field, NEW order
  PROVE  LET sorted == Sorted(tabs, field, order) IN
         /\ DOMAIN sorted = DOMAIN tabs
         /\ \A k \in DOMAIN sorted : \E i \in DOMAIN tabs : sorted[k] = tabs[i]
         /\ \A k, m \in DOMAIN sorted : k < m => ~Before(sorted[m], sorted[k], field, order)
<1> DEFINE N == Len(tabs)
           less == TabOrder(tabs, field, order)
           place == [k \in 1..N |-> CHOOSE i \in 1..N : Earlier(less, N, i) = k - 1]
<1>1. N \in Nat /\ DOMAIN tabs = 1..N
  BY LenProperties
<1>2. TotalOrder(less, N)
  BY TabOrderIsTotal
<1>3. \A i \in 1..N : Rank(tabs, i, field, order) = Earlier(less, N, i)
  <2> SUFFICES ASSUME NEW i \in 1..N
               PROVE  Rank(tabs, i, field, order) = Earlier(less, N, i)
    OBVIOUS
  <2>1. {j \in DOMAIN tabs : \/ Before(tabs[j], tabs[i], field, order)
                             \/ j < i /\ ~Before(tabs[i], tabs[j], field, order)} = Less(less, N, i)
    BY <1>1 DEF Less, TabOrder
  <2> QED
    BY <2>1 DEF Rank, Earlier
<1> DEFINE sorted == Sorted(tabs, field, order)
<1>4. DOMAIN sorted = 1..N /\ \A k \in 1..N : sorted[k] = tabs[CHOOSE i \in 1..N : Rank(tabs, i, field, order) = k - 1]
  BY <1>1 DEF Sorted
<1> HIDE DEF less, sorted, N
<1>5. \A k \in 1..N : \E i \in 1..N : Earlier(less, N, i) = k - 1
  BY <1>1, <1>2, EveryPlaceTaken
<1>6. \A k \in 1..N : place[k] \in 1..N /\ Earlier(less, N, place[k]) = k - 1
  BY <1>5
<1>7. \A k \in 1..N : sorted[k] = tabs[place[k]]
  <2> SUFFICES ASSUME NEW k \in 1..N
               PROVE  sorted[k] = tabs[place[k]]
    OBVIOUS
  <2>1. (CHOOSE i \in 1..N : Rank(tabs, i, field, order) = k - 1) = CHOOSE i \in 1..N : Earlier(less, N, i) = k - 1
    BY <1>3
  <2> QED
    BY <1>4, <2>1
<1> HIDE DEF place
<1>8. ASSUME NEW k \in 1..N, NEW m \in 1..N, k < m
      PROVE  ~Before(sorted[m], sorted[k], field, order)
  <2>1. place[k] \in 1..N /\ place[m] \in 1..N /\ Earlier(less, N, place[k]) = k - 1 /\ Earlier(less, N, place[m]) = m - 1
    BY <1>6
  <2>2. k - 1 < m - 1 /\ ~(m - 1 < k - 1) /\ k - 1 # m - 1
    BY <1>1, <1>8
  <2>3. <<place[k], place[m]>> \in less
    <3>1. PICK a \in 1..N, b \in 1..N : a = place[k] /\ b = place[m]
      BY <2>1
    <3>2. Earlier(less, N, a) = k - 1 /\ Earlier(less, N, b) = m - 1
      BY <2>1, <3>1
    <3>3. <<b, a>> \in less => Earlier(less, N, b) < Earlier(less, N, a)
      BY <1>1, <1>2, EarlierGrows
    <3>4. a # b /\ <<b, a>> \notin less
      BY <2>2, <3>2, <3>3
    <3>5. <<a, b>> \in less
      BY <1>2, <3>4 DEF TotalOrder
    <3> QED
      BY <3>1, <3>5
  <2>4. \/ Before(tabs[place[k]], tabs[place[m]], field, order)
        \/ ~Before(tabs[place[m]], tabs[place[k]], field, order)
    BY <2>3 DEF less, TabOrder
  <2>5. tabs[place[k]] \in ChromeTabs /\ tabs[place[m]] \in ChromeTabs
    BY <2>1, ElementOfSeq DEF N
  <2> QED
    BY <1>7, <2>4, <2>5, BeforeCompares
<1> QED
  BY <1>1, <1>4, <1>6, <1>7, <1>8 DEF sorted, N

\* Division: what is at least as much, is so when it is divided; and it is at least
\* some number exactly when that many divisors fit.
LEMMA Division ==
  ASSUME NEW x \in Nat, NEW d \in Nat \ {0}
  PROVE  /\ x \div d \in Nat /\ (x \div d) * d <= x
         /\ \A y \in Nat : x <= y => x \div d <= y \div d
         /\ (x * d) \div d = x
<1>1. \A z \in Nat : z \div d \in Int /\ z % d \in Int /\ z = d * (z \div d) + (z % d) /\ 0 <= z % d /\ z % d < d
  OBVIOUS
<1>2. \A p, q \in Int : p > q => d * p >= d * q + d
  OBVIOUS
<1>3. \A z \in Nat : z \div d \in Nat
  <2> SUFFICES ASSUME NEW z \in Nat
               PROVE  z \div d \in Nat
    OBVIOUS
  <2>1. PICK q \in Int, r \in Int : q = z \div d /\ z = d * q + r /\ 0 <= r /\ r < d
    BY <1>1
  <2>2. ~(0 > q)
    <3>1. 0 > q => d * 0 >= d * q + d
      BY <1>2
    <3> QED
      BY <2>1, <3>1
  <2> QED
    BY <2>1, <2>2
<1>4. \A y \in Nat : x <= y => x \div d <= y \div d
  <2> SUFFICES ASSUME NEW y \in Nat, x <= y
               PROVE  x \div d <= y \div d
    OBVIOUS
  <2>1. PICK q \in Int, r \in Int : q = x \div d /\ x = d * q + r /\ 0 <= r /\ r < d
    BY <1>1
  <2>2. PICK p \in Int, t \in Int : p = y \div d /\ y = d * p + t /\ 0 <= t /\ t < d
    BY <1>1
  <2>3. ~(q > p)
    <3>1. q > p => d * q >= d * p + d
      BY <1>2
    <3> QED
      BY <2>1, <2>2, <3>1
  <2> QED
    BY <2>1, <2>2, <2>3
<1>5. (x \div d) * d <= x
  <2>1. PICK q \in Int, r \in Int : q = x \div d /\ x = d * q + r /\ 0 <= r
    BY <1>1
  <2>2. q * d = d * q
    BY <2>1
  <2> QED
    BY <2>1, <2>2
<1>6. (x * d) \div d = x
  <2>1. x * d \in Nat
    OBVIOUS
  <2>2. PICK q \in Int, r \in Int : q = (x * d) \div d /\ x * d = d * q + r /\ 0 <= r /\ r < d
    BY <1>1, <2>1
  <2>3. d * x = x * d
    OBVIOUS
  <2>4. ~(x > q) /\ ~(q > x)
    <3>1. (x > q => d * x >= d * q + d) /\ (q > x => d * q >= d * x + d)
      BY <1>2
    <3> QED
      BY <2>2, <2>3, <3>1
  <2> QED
    BY <2>2, <2>4
<1> QED
  BY <1>3, <1>4, <1>5, <1>6

\* InactiveSeconds: the longer ago the last access, the more of them.
LEMMA InactiveAtLeast ==
  ASSUME NEW a \in ChromeTabs, NEW b \in ChromeTabs, a.accessed # Null, b.accessed # Null, a.accessed >= b.accessed
  PROVE  /\ InactiveSeconds(a, Now) \in Nat /\ InactiveSeconds(b, Now) \in Nat
         /\ InactiveSeconds(a, Now) <= InactiveSeconds(b, Now)
<1>1. /\ Second \in Nat \ {0} /\ Now \in Nat /\ a.accessed \in Nat /\ b.accessed \in Nat
  BY ToolsAssumption, DurationsAssumption DEF ChromeTabs
<1> DEFINE time(t) == Now - t.accessed
<1>2. \A t \in {a, b} : ~(Now < t.accessed) => time(t) \in Nat /\ time(t) \div Second \in Nat
  <2>1. \A t \in {a, b} : ~(Now < t.accessed) => time(t) \in Nat
    BY <1>1
  <2> HIDE DEF time
  <2> QED
    BY <1>1, <2>1, Division
<1>3. InactiveSeconds(a, Now) \in Nat /\ InactiveSeconds(b, Now) \in Nat
  <2>1. \A t \in {a, b} : InactiveSeconds(t, Now) = IF Now < t.accessed THEN 0 ELSE time(t) \div Second
    BY DEF InactiveSeconds
  <2> HIDE DEF time
  <2> QED
    BY <1>2, <2>1
<1>4. CASE Now < a.accessed
  <2>1. InactiveSeconds(a, Now) = 0
    BY <1>4 DEF InactiveSeconds
  <2> QED
    BY <1>3, <2>1
<1>5. CASE ~(Now < a.accessed)
  <2>1. /\ InactiveSeconds(a, Now) = time(a) \div Second /\ InactiveSeconds(b, Now) = time(b) \div Second
        /\ ~(Now < b.accessed) /\ time(a) <= time(b)
    BY <1>1, <1>5 DEF InactiveSeconds
  <2>2. time(a) \in Nat /\ time(b) \in Nat
    BY <1>2, <1>5, <2>1
  <2>3. time(a) \div Second <= time(b) \div Second
    <3> HIDE DEF time
    <3> QED
      BY <1>1, <2>1, <2>2, Division
  <2> QED
    BY <1>3, <2>1, <2>3
<1> QED
  BY <1>4, <1>5

\* The column that list shows.
Time(tab, field) ==
  IF field = "created_at" THEN tab.created
  ELSE IF field = "last_accessed" \/ tab.accessed = Null THEN tab.accessed
  ELSE InactiveSeconds(tab, Now)

\* sortTabs's less follows the column that is shown, what is unknown last.
LEMMA FollowsTheColumn ==
  ASSUME NEW left \in ChromeTabs, NEW right \in ChromeTabs, NEW field \in SortFields \ {"position"}, NEW order,
         ~Before(right, left, field, order)
  PROVE  \/ Time(right, field) = Null
         \/ /\ Time(left, field) # Null
            /\ IF order = "desc" THEN Time(left, field) >= Time(right, field)
               ELSE Time(left, field) <= Time(right, field)
<1>1. Null \notin Int
  BY ToolsAssumption
<1>2. field # "position" /\ field \in {"last_accessed", "inactive_duration", "created_at"}
  BY DEF SortFields
<1> DEFINE l == SortValue(left, field)
           r == SortValue(right, field)
<1>3. l \in Nat \cup {Null} /\ r \in Nat \cup {Null}
  BY DEF SortValue, ChromeTabs
<1>4. \/ r = Null
      \/ l # Null /\ ((order = "desc") # (field = "inactive_duration") => l >= r)
                  /\ ((order = "desc") = (field = "inactive_duration") => l <= r)
  <2> HIDE DEF l, r
  <2>1. \/ r = Null
        \/ l # Null /\ (l = r \/ ~Ordered(r, l, field, order))
    BY <1>2, <1>3 DEF Before, l, r
  <2>2. CASE l # Null /\ r # Null
    <3>1. l = r \/ ~Ordered(r, l, field, order)
      BY <2>1, <2>2
    <3> QED
      BY <1>3, <2>2, <3>1 DEF Ordered
  <2> QED
    BY <2>1, <2>2
<1>5. CASE r = Null
  BY <1>2, <1>5 DEF SortValue, Time
<1>6. CASE r # Null /\ field \in {"created_at", "last_accessed"}
  BY <1>3, <1>4, <1>6 DEF SortValue, Time
<1>7. CASE r # Null /\ field = "inactive_duration"
  <2>1. /\ left.accessed # Null /\ right.accessed # Null
        /\ order = "desc" => left.accessed <= right.accessed
        /\ order # "desc" => left.accessed >= right.accessed
    BY <1>4, <1>7 DEF SortValue
  <2>2. Time(left, field) = InactiveSeconds(left, Now) /\ Time(right, field) = InactiveSeconds(right, Now)
    BY <1>7, <2>1 DEF Time
  <2>3. left.accessed \in Nat /\ right.accessed \in Nat
    BY <2>1 DEF ChromeTabs
  <2>4. CASE order = "desc"
    <3>1. right.accessed >= left.accessed
      BY <2>1, <2>3, <2>4
    <3>2. /\ InactiveSeconds(left, Now) \in Nat /\ InactiveSeconds(right, Now) \in Nat
          /\ InactiveSeconds(right, Now) <= InactiveSeconds(left, Now)
      BY <2>1, <3>1, InactiveAtLeast
    <3> QED
      BY <1>1, <2>2, <2>4, <3>2
  <2>5. CASE order # "desc"
    <3>1. /\ InactiveSeconds(left, Now) \in Nat /\ InactiveSeconds(right, Now) \in Nat
          /\ InactiveSeconds(left, Now) <= InactiveSeconds(right, Now)
      BY <2>1, <2>5, InactiveAtLeast
    <3> QED
      BY <1>1, <2>2, <2>5, <3>1
  <2> QED
    BY <2>4, <2>5
<1> QED
  BY <1>2, <1>5, <1>6, <1>7

\* The last --inactive-for of a line is its j-th token, and a duration follows.
LastDuration(args, j) ==
  /\ j \in 1..(Len(args) - 1)
  /\ args[j].dashes > 0 /\ args[j].name = "inactive-for" /\ args[j].value = ""
  /\ args[j + 1] = Word(args[j + 1].name) /\ args[j + 1].name \in DOMAIN Durations
  /\ \A i \in (j + 1)..Len(args) : args[i].name # "inactive-for"

\* Something is left; or the duration has been read, if it is among the first n.
LeavesSome(s) == s.at = "rest" /\ s.rest \in Seq(Tokens) /\ s.rest # <<>>

DurationRead(s, args, j, n) ==
  /\ s.at \in {"flags", "value", "rest"} /\ s.rest = <<>>
  /\ s.at = "value" => n \in 1..Len(args) /\ s.flag = args[n].name
  /\ n > j => "inactive-for" \in DOMAIN s.set /\ s.set["inactive-for"] = args[j + 1].name

Lasting(s, args, j, n) == Stops(s) \/ LeavesSome(s) \/ DurationRead(s, args, j, n)

\* One more token of a line for list.
LEMMA LastingKeeps ==
  ASSUME NEW kinds, NEW args \in Seq(Tokens), NEW j, LastDuration(args, j), kinds["inactive-for"] = "string",
         NEW n \in 1..Len(args), NEW s, NEW u, Lasting(s, args, j, n - 1), Advances(kinds, s, u, args[n])
  PROVE  Lasting(u, args, j, n)
<1> DEFINE t == args[n]
<1>1. Len(args) \in Nat /\ n \in Nat /\ j \in Nat /\ t \in Tokens
  <2>1. j \in 1..(Len(args) - 1)
    BY Zenon DEF LastDuration
  <2> QED
    BY <2>1, LenProperties, ElementOfSeq
<1>2. n = j + 1 => t.dashes = 0 /\ Text(t) = t.name /\ args[n - 1].name = "inactive-for" /\ n - 1 = j
  <2> SUFFICES ASSUME n = j + 1
               PROVE  t.dashes = 0 /\ Text(t) = t.name /\ args[n - 1].name = "inactive-for" /\ n - 1 = j
    OBVIOUS
  <2>1. n - 1 = j /\ t = args[j + 1]
    BY <1>1
  <2>2. t = Word(t.name)
    BY <2>1 DEF LastDuration
  <2>3. Word(t.name).dashes = 0
    BY DEF Word, Token
  <2>4. args[j].name = "inactive-for"
    BY DEF LastDuration
  <2> HIDE DEF t
  <2> QED
    BY <2>1, <2>2, <2>3, <2>4 DEF Text
<1>3. \A i \in 1..Len(args) : i > j => args[i].name # "inactive-for"
  <2>1. \A i \in (j + 1)..Len(args) : args[i].name # "inactive-for"
    BY Zenon DEF LastDuration
  <2> QED
    BY <1>1, <2>1
<1>4. n > j => n = j + 1 \/ (n - 1 > j /\ n - 1 \in 1..Len(args))
  BY <1>1
<1> HIDE DEF t
<1>5. CASE Stops(s)
  BY <1>5 DEF Advances, Stops, Lasting
<1>6. CASE s.at = "rest" /\ s.rest \in Seq(Tokens) /\ Leaves(s, u, t)
  <2>1. Append(s.rest, t) \in Seq(Tokens) /\ Append(s.rest, t) # <<>>
    BY <1>1, <1>6, AppendProperties
  <2> QED
    BY <1>6, <2>1 DEF Leaves, LeavesSome, Lasting
<1>7. CASE LeavesSome(s)
  <2>1. Leaves(s, u, t)
    BY <1>7 DEF Advances, LeavesSome, t
  <2> QED
    BY <1>6, <1>7, <2>1 DEF LeavesSome
<1>8. CASE DurationRead(s, args, j, n - 1)
  <2> USE <1>8 DEF DurationRead
  <2>1. Advances(kinds, s, u, t)
    BY DEF t
  <2>2. CASE Stops(u)
    BY <2>2 DEF Lasting
  <2>3. CASE Leaves(s, u, t)
    <3>1. Append(<<>>, t) \in Seq(Tokens) /\ Append(<<>>, t) # <<>>
      BY <1>1, AppendProperties, EmptySeq
    <3> QED
      BY <2>3, <3>1 DEF Leaves, LeavesSome, Lasting
  <2>4. CASE s.at = "value" /\ ~Stops(u)
    <3>1. PICK value : Sets(s, u, s.flag, value) /\ (kinds[s.flag] = "string" => value = Text(t))
      BY <2>1, <2>4 DEF Advances
    <3>2. s.flag = args[n - 1].name /\ n - 1 \in 1..Len(args)
      BY <2>4
    <3>3. n > j => "inactive-for" \in DOMAIN u.set /\ u.set["inactive-for"] = args[j + 1].name
      <4>1. CASE n = j + 1
        <5>1. s.flag = "inactive-for"
          BY <1>2, <3>2, <4>1
        <5>2. value = t.name
          BY <1>2, <3>1, <4>1, <5>1
        <5>3. t.name = args[j + 1].name
          BY <4>1 DEF t
        <5> QED
          BY <3>1, <5>1, <5>2, <5>3 DEF Sets
      <4>2. CASE n > j /\ n # j + 1
        <5>1. s.flag # "inactive-for"
          BY <1>3, <1>4, <3>2, <4>2
        <5>2. "inactive-for" \in DOMAIN s.set /\ s.set["inactive-for"] = args[j + 1].name
          BY <1>4, <4>2
        <5> QED
          BY <3>1, <5>1, <5>2 DEF Sets
      <4> QED
        BY <4>1, <4>2
    <3>4. u.at = "flags" /\ u.rest = <<>>
      BY <3>1 DEF Sets
    <3> QED
      BY <3>3, <3>4 DEF Lasting
  <2>5. CASE n # j + 1 /\ Goes(s, u, "rest")
    BY <1>4, <2>5 DEF Goes, Lasting
  <2>6. CASE n # j + 1 /\ Flagged(kinds, s, u, t) /\ ~Stops(u)
    <3>1. CASE \E value : Sets(s, u, t.name, value)
      <4>1. n > j => t.name # "inactive-for"
        BY <1>3 DEF t
      <4> QED
        BY <1>4, <2>6, <3>1, <4>1 DEF Sets, Lasting
    <3>2. CASE Waits(s, u, t.name)
      BY <1>4, <2>6, <3>2 DEF Waits, Lasting, t
    <3> QED
      BY <2>6, <3>1, <3>2 DEF Flagged
  <2>7. n = j + 1 => t # Terminator
    <3>1. Terminator.dashes = 2
      BY DEF Terminator, Token
    <3> QED
      BY <1>2, <3>1
  <2>8. n = j + 1 => ~(t.dashes # 0)
    BY <1>2
  <2> QED
    BY <2>1, <2>2, <2>3, <2>4, <2>5, <2>6, <2>7, <2>8 DEF Advances
<1> QED
  BY <1>5, <1>7, <1>8 DEF Lasting

\* The flag package: if nothing is left, the last --inactive-for has been read.
LEMMA DurationIsRead ==
  ASSUME NEW kinds, NEW args \in Seq(Tokens), NEW j, LastDuration(args, j), kinds["inactive-for"] = "string",
         ParseFlags(kinds, args).result = "ok", ParseFlags(kinds, args).rest = <<>>
  PROVE  Setting(ParseFlags(kinds, args), "inactive-for", "") = args[j + 1].name
<1> DEFINE N == Len(args)
           parsed == ParseFlags(kinds, args)
<1>1. N \in Nat /\ j < N /\ ~(0 > j)
  <2>1. j \in 1..(N - 1)
    BY Zenon DEF LastDuration
  <2> QED
    BY <2>1, LenProperties
<1>2. PICK state : ReaderOf(state, kinds, args)
  BY <1>1, Reader
<1> DEFINE good == {n \in 0..N : IsState(state[n]) /\ Lasting(state[n], args, j, n)}
<1>3. 0 \in good
  <2>1. Lasting(Start, args, j, 0)
    BY <1>1 DEF Start, DurationRead, Lasting
  <2> QED
    BY <1>1, <1>2, <2>1, StartIsState DEF ReaderOf
<1>4. ASSUME NEW n \in 0..N, n < N, n \in good
      PROVE  n + 1 \in good
  <2>1. PICK m \in 1..N : m = n + 1 /\ m - 1 = n /\ m \in 0..N
    BY <1>1, <1>4
  <2>2. state[m] = ReadToken(kinds, state[n], args[m])
    BY <1>2, <2>1 DEF ReaderOf
  <2>3. IsState(state[n]) /\ Lasting(state[n], args, j, m - 1)
    BY <1>4, <2>1
  <2>4. IsState(state[m]) /\ Advances(kinds, state[n], state[m], args[m])
    BY <2>2, <2>3, TokenReading
  <2>5. Lasting(state[m], args, j, m)
    BY <2>3, <2>4, LastingKeeps
  <2> QED
    BY <2>1, <2>4, <2>5
<1>5. N \in good
  <2> HIDE DEF good
  <2>1. 0..N \subseteq good
    BY <1>1, <1>3, <1>4, UpTo
  <2> QED
    BY <1>1, <2>1
<1> DEFINE s == state[N]
<1>6. parsed = End(s)
  BY <1>2 DEF ReaderOf
<1>7. parsed.result = "ok" /\ parsed.rest = <<>>
  OBVIOUS
<1>8. Lasting(s, args, j, N)
  BY <1>5
<1> HIDE DEF parsed, s, good
<1>9. ~Stops(s) /\ s.at # "value"
  BY <1>6, <1>7, Succeeds
<1>10. s.rest = <<>> /\ parsed.set = s.set
  BY <1>6, <1>7 DEF End
<1>11. "inactive-for" \in DOMAIN s.set /\ s.set["inactive-for"] = args[j + 1].name
  BY <1>1, <1>8, <1>9, <1>10 DEF Lasting, LeavesSome, DurationRead
<1> QED
  BY <1>10, <1>11 DEF Setting, parsed

\* list: the seconds it asks for are those of the last duration in the line.
LEMMA ListAsks ==
  ASSUME NEW args \in Seq(Tokens), NEW json, ListTabsCommand(args, json).kind = "call", NEW j, LastDuration(args, j)
  PROVE  LET d == Durations[args[j + 1].name]
         IN ListTabsCommand(args, json).input.inactive = (d.amount * Units[d.unit]) \div Units["s"]
<1> DEFINE parsed   == ParseFlags(ListFlags, args)
           window   == Setting(parsed, "window", 0)
           group    == Setting(parsed, "group", 0)
           word     == Setting(parsed, "inactive-for", "")
           duration == ParseDuration(word)
           input    == [window |-> OrNone(window), group |-> OrNone(group),
                        ungrouped |-> Setting(parsed, "ungrouped", FALSE),
                        inactive |-> IF word = "" THEN Null ELSE duration \div Units["s"],
                        sort |-> Setting(parsed, "sort", ""), order |-> Setting(parsed, "sort-order", "asc")]
           outcome  == IF parsed.rest # <<>> \/ window < 0 \/ group < 0 THEN Reject("INVALID_ARGUMENT")
                       ELSE IF word # "" /\ duration = Null THEN Reject("INVALID_DURATION")
                       ELSE Call("list", input)
<1>1. ListTabsCommand(args, json) = AfterParse(parsed, json, outcome)
  BY DEF ListTabsCommand
<1> HIDE DEF parsed, window, group, word, duration
<1>2. \A x : Reject(x).kind # "call"
  BY DEF Reject, Exit
<1>3. parsed.result = "ok" /\ ListTabsCommand(args, json) = outcome
  <2> HIDE DEF outcome
  <2> QED
    BY <1>1, AsksWhenParsed
<1>4. outcome = Call("list", input) /\ parsed.rest = <<>> /\ ~(word # "" /\ duration = Null)
  <2> HIDE DEF input
  <2> QED
    BY <1>2, <1>3, Zenon
<1> HIDE DEF outcome
<1>5. ListTabsCommand(args, json).input = input
  <2> HIDE DEF input
  <2>1. Call("list", input).input = input
    BY DEF Call
  <2> QED
    BY <1>3, <1>4, <2>1
<1>6. word = args[j + 1].name
  <2>1. ListFlags["inactive-for"] = "string"
    BY DEF ListFlags, Flags
  <2> QED
    BY <1>3, <1>4, <2>1, DurationIsRead DEF parsed, word
<1>7. args[j + 1].name \in DOMAIN Durations
  BY DEF LastDuration
<1>8. word # "" /\ word \in DOMAIN Durations
  BY <1>6, <1>7, DurationsAssumption
<1>9. input.inactive = duration \div Units["s"]
  BY <1>8
<1>10. duration = Durations[word].amount * Units[Durations[word].unit]
  BY <1>4, <1>8 DEF duration, ParseDuration
<1> HIDE DEF input
<1> QED
  BY <1>5, <1>6, <1>9, <1>10

\* ListTabs: a tab that matches a duration has been left alone for as long, however
\* the duration is rounded on the way.
LEMMA LeftAlone ==
  ASSUME NEW tab \in ChromeTabs, NEW w \in DOMAIN Durations, NEW input,
         input.inactive = (Durations[w].amount * Units[Durations[w].unit]) \div Units["s"], Matches(tab, input, Now)
  PROVE  /\ tab.accessed # Null
         /\ (Now - tab.accessed) * Units["s"] >= Durations[w].amount * Units[Durations[w].unit] * Second
<1> DEFINE inactive == input.inactive
<1>1. PICK a \in Nat \ {0}, u \in Nat \ {0}, s \in Nat \ {0} :
        /\ a = Durations[w].amount /\ u = Units[Durations[w].unit] /\ s = Units["s"]
        /\ u % s = 0
  <2>1. Durations[w].amount \in Nat \ {0} /\ Durations[w].unit \in {"s", "m", "h", "d"}
    BY DurationsAssumption
  <2> QED
    BY <2>1, DurationsAssumption
<1>2. PICK k \in Nat \ {0} : u = k * s
  <2>1. u = s * (u \div s) + (u % s) /\ u \div s \in Nat
    BY Division
  <2>2. PICK k \in Nat : k = u \div s
    BY <2>1
  <2>3. u = s * k /\ s * k = k * s /\ 0 * s = 0
    BY <1>1, <2>1, <2>2
  <2>4. k # 0
    BY <2>3
  <2> QED
    BY <2>3, <2>4
<1>3. PICK q \in Nat \ {0} : q = a * k
  <2>1. a * k \in Nat \ {0}
    OBVIOUS
  <2> QED
    BY <2>1
<1>4. inactive = q
  <2>1. a * u = q * s
    <3>1. a * (k * s) = (a * k) * s
      OBVIOUS
    <3> QED
      BY <1>2, <1>3, <3>1
  <2>2. (q * s) \div s = q
    BY Division
  <2>3. inactive = (a * u) \div s
    BY <1>1
  <2> HIDE DEF inactive
  <2> QED
    BY <2>1, <2>2, <2>3
<1>5. Null \notin Int /\ Second \in Nat \ {0} /\ Now \in Nat
  BY ToolsAssumption, DurationsAssumption
<1>6. tab.accessed # Null /\ InactiveSeconds(tab, Now) >= q
  <2>1. inactive = Null \/ (tab.accessed # Null /\ InactiveSeconds(tab, Now) >= inactive)
    BY DEF Matches
  <2> HIDE DEF inactive
  <2> QED
    BY <1>4, <1>5, <2>1
<1>7. tab.accessed \in Nat
  BY <1>6 DEF ChromeTabs
<1>8. PICK x \in Nat : x = Now - tab.accessed /\ x \div Second >= q
  <2>1. ~(Now < tab.accessed)
    BY <1>6 DEF InactiveSeconds
  <2>2. Now - tab.accessed \in Nat /\ (Now - tab.accessed) \div Second >= q
    BY <1>5, <1>6, <1>7, <2>1 DEF InactiveSeconds
  <2> QED
    BY <2>2
<1>9. x >= q * Second
  <2>1. PICK y \in Nat : y = x \div Second /\ y * Second <= x
    BY <1>5, Division
  <2>2. y >= q => y * Second >= q * Second
    BY <1>5
  <2> QED
    BY <1>5, <1>8, <2>1, <2>2
<1>10. x * s >= (q * Second) * s
  <2>1. PICK z \in Nat : z = q * Second
    BY <1>5
  <2>2. x >= z => x * s >= z * s
    OBVIOUS
  <2> QED
    BY <1>9, <2>1, <2>2
<1>11. (q * Second) * s = a * u * Second
  <2>1. ((a * k) * Second) * s = a * (k * s) * Second
    BY <1>5
  <2> QED
    BY <1>2, <1>3, <2>1
<1> QED
  BY <1>1, <1>6, <1>8, <1>10, <1>11

\* ListTabs: what is listed are tabs that match, in the order of the column.
Listing(listed, input) ==
  /\ \A k \in DOMAIN listed : listed[k] \in ChromeTabs /\ Matches(listed[k], input, Now)
  /\ \A k, m \in DOMAIN listed : k < m /\ input.sort \notin {"", "position"} =>
       input.sort \in SortFields /\ ~Before(listed[m], listed[k], input.sort, input.order)

\* ListTabs lists so.
LEMMA ListsMatching ==
  ASSUME NEW tabs \in Seq(ChromeTabs), NEW input, ListTabs(tabs, input, Now).code = "OK"
  PROVE  Listing(ListTabs(tabs, input, Now).value, input)
<1> DEFINE shown == SnapshotTabs(tabs)
           places == {i \in DOMAIN shown : Matches(shown[i], input, Now)}
           found == ItemsAt(shown, places)
           sorted == Sorted(found, input.sort, input.order)
           wrong == \/ input.ungrouped /\ input.group # Null
                    \/ input.inactive # Null /\ input.inactive < 0
                    \/ input.sort # "" /\ (input.sort \notin SortFields \/ input.order \notin SortOrders \cup {""})
<1>1. ListTabs(tabs, input, Now) =
        IF wrong THEN Failed("INVALID_ARGUMENT") ELSE IF input.sort = "" THEN Ok(found) ELSE Ok(sorted)
  BY DEF ListTabs, Chosen
<1>2. shown \in Seq(ChromeTabs)
  BY ItemsAreAList DEF SnapshotTabs, Chosen
<1> HIDE DEF shown
<1>3. found \in Seq(ChromeTabs) /\ \A k \in DOMAIN found : \E i \in DOMAIN shown : i \in places /\ found[k] = shown[i]
  <2> HIDE DEF places
  <2> QED
    BY <1>2, ChosenItems
<1>4. \A k \in DOMAIN found : found[k] \in ChromeTabs /\ Matches(found[k], input, Now)
  <2>1. \A k \in DOMAIN found : found[k] \in ChromeTabs
    BY <1>3, ElementOfSeq, LenProperties
  <2>2. \A i \in DOMAIN shown : i \in places => Matches(shown[i], input, Now)
    OBVIOUS
  <2> HIDE DEF places, found
  <2> QED
    BY <1>3, <2>1, <2>2
<1> HIDE DEF found
<1>5. /\ DOMAIN sorted = DOMAIN found
      /\ \A k \in DOMAIN sorted : \E i \in DOMAIN found : sorted[k] = found[i]
      /\ \A k, m \in DOMAIN sorted : k < m => ~Before(sorted[m], sorted[k], input.sort, input.order)
  BY <1>3, SortedInOrder
<1> HIDE DEF sorted
<1>6. Failed("INVALID_ARGUMENT").code # "OK" /\ Ok(found).value = found /\ Ok(sorted).value = sorted
  BY DEF Failed, Ok
<1>7. ~wrong
  <2> HIDE DEF wrong
  <2> QED
    BY <1>1, <1>6
<1>8. input.sort # "" => input.sort \in SortFields
  BY <1>7
<1> HIDE DEF wrong
<1>9. CASE input.sort = ""
  <2>1. ListTabs(tabs, input, Now).value = found
    BY <1>1, <1>6, <1>7, <1>9
  <2> QED
    BY <1>4, <1>9, <2>1 DEF Listing
<1>10. CASE input.sort # ""
  <2>1. ListTabs(tabs, input, Now).value = sorted
    BY <1>1, <1>6, <1>7, <1>10
  <2>2. \A k \in DOMAIN sorted : sorted[k] \in ChromeTabs /\ Matches(sorted[k], input, Now)
    BY <1>4, <1>5
  <2> QED
    BY <1>5, <1>8, <2>1, <2>2 DEF Listing
<1> QED
  BY <1>9, <1>10

\* What list has listed is what it was asked for.
ListedInv ==
  /\ session.tabs \in Seq(ChromeTabs)
  /\ Asks("list") => Listing(command.listed, command.outcome.input)

\* It is, when the line is typed, and when it is answered.
LEMMA ListedInvKeeps ==
  ASSUME LineInv, IsCommand, ListedInv, [Next]_vars
  PROVE  ListedInv'
<1>1. UNCHANGED session /\ (TypesNext \/ StaysTheLine)
  BY EveryStep
<1>2. \A input : Listing(<<>>, input)
  BY DEF Listing
<1>3. CASE TypesNext
  BY <1>1, <1>2, <1>3 DEF TypesNext, ListedInv
<1>4. CASE StaysTheLine /\ (command'.listed = command.listed \/ Asks("group list"))
  BY <1>1, <1>4 DEF StaysTheLine, ListedInv, Asks
<1>5. CASE StaysTheLine /\ ListsNow /\ ~Asks("group list")
  <2> DEFINE input == command.outcome.input
             result == ListTabs(Tabs, input, Now)
  <2>1. command'.listed = (IF result.code = "OK" THEN result.value ELSE <<>>) /\ command'.outcome.input = input
    BY <1>5 DEF ListsNow, StaysTheLine
  <2>2. Tabs \in Seq(ChromeTabs)
    <3> DEFINE found == Chosen(session.tabs, LAMBDA tab : tab.id \in open)
    <3>1. found \in Seq(ChromeTabs)
      BY ItemsAreAList DEF Chosen, ListedInv
    <3>2. \A tab \in ChromeTabs : Present(tab) \in ChromeTabs
      <4>1. \A tab \in ChromeTabs, b \in BOOLEAN : [tab EXCEPT !.ignored = b] \in ChromeTabs
        BY DEF ChromeTabs
      <4>2. \A tab : (tab.id \in ignored) \in BOOLEAN
        OBVIOUS
      <4> QED
        BY <4>1, <4>2, Zenon DEF Present
    <3>3. Tabs = [i \in DOMAIN found |-> Present(found[i])]
      BY Zenon DEF Tabs
    <3> HIDE DEF found
    <3>4. /\ Len(found) \in Nat /\ DOMAIN found = 1..Len(found)
          /\ \A i \in 1..Len(found) : Present(found[i]) \in ChromeTabs
      BY <3>1, <3>2, ElementOfSeq, LenProperties
    <3> QED
      BY <3>3, <3>4, SeqDef
  <2>3. result.code = "OK" => Listing(result.value, input)
    BY <2>2, ListsMatching
  <2> HIDE DEF result, input
  <2>4. Listing(command'.listed, command'.outcome.input)
    BY <1>2, <2>1, <2>3
  <2> QED
    BY <1>1, <2>4 DEF ListedInv
<1> QED
  BY <1>1, <1>3, <1>4, <1>5 DEF StaysTheLine

\* The durations one reads are those of the last --inactive-for.
LEMMA ReadDurations ==
  ASSUME NEW args, NEW d \in WrittenDurations(args)
  PROVE  \E j : LastDuration(args, j) /\ d = Durations[args[j + 1].name]
BY DEF WrittenDurations, LastDuration

\* list: for any tabs and any line the tabs that are listed come in the order of the
\* column that is shown, and have been left alone for as long as the line says.
THEOREM ListsAsAsked ==
  ASSUME NEW Sessions, \A s \in Sessions : Proper(s)
  PROVE  Init(Sessions) /\ [][Next]_vars => []ListedAsAsked
<1> DEFINE I == IInv /\ InstalledInv /\ CommandInv /\ LineInv /\ ListedInv
<1>1. Init(Sessions) => I
  <2> SUFFICES ASSUME Init(Sessions)
               PROVE  I
    OBVIOUS
  <2>1. IInv /\ InstalledInv /\ CommandInv /\ LineInv
    BY BeginsWell, LineInvBegins
  <2>2. session.tabs \in Seq(ChromeTabs) /\ ~Asks("list")
    BY DEF Init, Proper, NewCommand, Exit, Asks
  <2> QED
    BY <2>1, <2>2 DEF ListedInv
<1>2. I /\ [Next]_vars => I'
  <2> SUFFICES ASSUME I, [Next]_vars
               PROVE  I'
    OBVIOUS
  <2>1. (IInv /\ InstalledInv /\ CommandInv)'
    BY GoesOnWell
  <2>2. LineInv' /\ ListedInv'
    BY LineInvKeeps, ListedInvKeeps DEF CommandInv
  <2> QED
    BY <2>1, <2>2
<1>3. I => ListedAsAsked
  <2> SUFFICES ASSUME I, Asks("list")
               PROVE  ListedAsAsked
    BY DEF ListedAsAsked
  <2> DEFINE input == command.outcome.input
             listed == command.listed
             args == Arguments(Line(command.number))
  <2>1. Listing(listed, input)
    BY DEF ListedInv
  <2>2. ASSUME NEW i \in DOMAIN listed, NEW j \in DOMAIN listed, i < j, input.sort \notin {"", "position"}
        PROVE  \/ Time(listed[j], input.sort) = Null
               \/ /\ Time(listed[i], input.sort) # Null
                  /\ IF input.order = "desc" THEN Time(listed[i], input.sort) >= Time(listed[j], input.sort)
                     ELSE Time(listed[i], input.sort) <= Time(listed[j], input.sort)
    <3>1. /\ listed[i] \in ChromeTabs /\ listed[j] \in ChromeTabs /\ input.sort \in SortFields \ {"position"}
          /\ ~Before(listed[j], listed[i], input.sort, input.order)
      BY <2>1, <2>2 DEF Listing
    <3> HIDE DEF listed, input
    <3> QED
      BY <3>1, FollowsTheColumn
  <2>3. ASSUME NEW i \in DOMAIN listed, NEW d \in WrittenDurations(args)
        PROVE  /\ listed[i].accessed # Null
               /\ (Now - listed[i].accessed) * Units["s"] >= d.amount * Units[d.unit] * Second
    <3> DEFINE line == Line(command.number)
    <3>1. line \in Seq(Tokens) /\ command.outcome = Run(line) /\ Run(line).kind = "call" /\ Run(line).tool = "list"
      BY LineInHand
    <3> HIDE DEF line
    <3>2. Arguments(line) \in Seq(Tokens) /\ \E json : Run(line) = CommandOf("list", Arguments(line), json)
      BY <3>1, RunsAsCommand
    <3>3. PICK json : Run(line) = ListTabsCommand(Arguments(line), json)
      BY <3>2 DEF CommandOf
    <3>4. args = Arguments(line)
      BY DEF line
    <3> HIDE DEF args
    <3>5. PICK k : LastDuration(args, k) /\ d = Durations[args[k + 1].name]
      BY ReadDurations
    <3>6. input.inactive = (d.amount * Units[d.unit]) \div Units["s"]
      BY <3>1, <3>2, <3>3, <3>4, <3>5, ListAsks
    <3>7. listed[i] \in ChromeTabs /\ Matches(listed[i], input, Now)
      BY <2>1 DEF Listing
    <3>8. PICK w \in DOMAIN Durations : d = Durations[w]
      BY <3>5 DEF LastDuration
    <3> HIDE DEF listed, input
    <3> QED
      BY <3>6, <3>7, <3>8, LeftAlone
  <2> QED
    BY <2>2, <2>3 DEF ListedAsAsked, Time, Arguments
<1> QED
  BY <1>1, <1>2, <1>3, PTL
=============================================================================

---------------------------- MODULE Installation ----------------------------
(***************************************************************************)
(* tabcli install and uninstall (internal/install): the Native Messaging   *)
(* manifest that Chrome reads, on Windows the registration that names it,  *)
(* and the files of the product.  Each system call is a step that may      *)
(* fail, or be the last one of a process that is killed; meanwhile Chrome  *)
(* starts hosts, which write into the product's directory, and another     *)
(* copy of tabcli registers its own manifest.                              *)
(***************************************************************************)
EXTENDS Naturals

CONSTANTS
  MaxFaults,   (* bound: system calls that fail *)
  MaxKills,    (* bound: processes killed       *)
  MaxHosts,    (* bound: hosts started          *)
  MaxOthers    (* bound: installs of other copies *)

ASSUME FaultsAssumption == {MaxFaults, MaxKills, MaxHosts, MaxOthers} \subseteq Nat

\* A manifest names another executable, this one, or is only partly written; a
\* registration is a key without a value, or names this manifest or another one.
Registrations == {"absent", "empty", "ours", "foreign"}

Files == [manifest : {"absent", "old", "new", "torn"},
          registry : Registrations,
          product  : SUBSET {"runtime", "settings"}]

Steps == {"none", "read", "write", "register", "create", "set", "verify", "restore", "rollback", "rewrite",
          "unregister", "look", "delete", "manifest", "runtime", "runtime?", "settings", "settings?",
          "directory", "returned"}

\* What it is doing, what it has found, and what has happened to it: how many of
\* its calls failed, whether a host has written since it began, and where it
\* was when another copy registered last.
Processes == [kind   : {"none", "install", "uninstall"}, step : Steps, before : Files, failed : Nat,
              late : BOOLEAN, other : Steps, result : {"none", "ok", "error", "killed"}]

VARIABLES
  windows,   (* whether there is a registry                             *)
  files,     (* what is on disk and in the registry                     *)
  process,   (* the install or uninstall that runs, or has run last     *)
  starting,  (* whether a host has been started and has not yet written *)
  faults, kills, hosts, others  (* how much of each bound is used up    *)

installation == <<windows, files, process, starting, faults, kills, hosts, others>>

InstallationTypeOK ==
  /\ windows \in BOOLEAN
  /\ files \in Files
  /\ process \in Processes
  /\ starting \in BOOLEAN
  /\ faults \in Nat /\ kills \in Nat /\ hosts \in Nat /\ others \in Nat

InstallationInit(isWindows, found) ==
  /\ windows = isWindows
  /\ files = found
  /\ process = [kind |-> "none", step |-> "none", before |-> found, failed |-> 0,
                late |-> FALSE, other |-> "none", result |-> "none"]
  /\ starting = FALSE
  /\ faults = 0 /\ kills = 0 /\ hosts = 0 /\ others = 0

-----------------------------------------------------------------------------
(* A process: what it found, where it is, how many of its calls failed.    *)

\* What windowsRegistrationStore.Read finds: a key without a value is no registration.
Found == IF files.registry = "empty" THEN "absent" ELSE files.registry

Begin(kind, step) ==
  process' = [kind |-> kind, step |-> step, before |-> [files EXCEPT !.registry = Found], failed |-> 0,
              late |-> FALSE, other |-> "none", result |-> "none"]

At(step)    == process.step = step
Then(step)  == process' = [process EXCEPT !.step = step] /\ UNCHANGED faults
Return(res) == process' = [process EXCEPT !.step = "returned", !.result = res] /\ UNCHANGED faults

\* A system call fails, and the process goes on to another step, or returns.
FaultThen(step) ==
  /\ faults < MaxFaults
  /\ faults' = faults + 1
  /\ process' = [process EXCEPT !.step = step, !.failed = @ + 1]
FaultReturn ==
  /\ faults < MaxFaults
  /\ faults' = faults + 1
  /\ process' = [process EXCEPT !.step = "returned", !.result = "error", !.failed = @ + 1]

Keep        == UNCHANGED files
Manifest(m) == files' = [files EXCEPT !.manifest = m]
Registry(r) == files' = [files EXCEPT !.registry = r]
RemoveProduct(p) == files' = [files EXCEPT !.product = @ \ {p}]

-----------------------------------------------------------------------------
(* Install.                                                                *)

\* os.ReadFile of the manifest that is there; its absence is no failure.
ReadPrevious ==
  /\ At("read")
  /\ Then("write") \/ FaultReturn
  /\ Keep

\* Variant: the manifest is written in place.
WriteInPlace ==
  \/ At("write") /\ files.manifest # "torn" /\ Then("write") /\ Manifest("torn")
  \/ At("write") /\ files.manifest = "torn" /\ Then("register") /\ Manifest("new")

\* WriteManifest: a temporary file, synced and renamed into place, or removed.
WriteManifest ==
  /\ At("write")
  /\ \/ Then("register") /\ Manifest("new")
     \/ FaultReturn /\ Keep

\* registerStore on Windows, with Write as CreateKey and SetStringValue; elsewhere
\* registerPlatform has nothing to do.
Register ==
  \/ /\ At("register") /\ windows /\ Keep
     /\ \/ process' = [process EXCEPT !.step = "create", !.before.registry = Found] /\ UNCHANGED faults
        \/ FaultThen("rollback")
  \/ At("register") /\ ~windows /\ Return("ok") /\ Keep
  \/ At("create") /\ Found = "absent" /\ Then("set") /\ Registry("empty")
  \/ At("create") /\ Found # "absent" /\ Then("set") /\ Keep
  \/ At("set") /\ Then("verify") /\ Registry("ours")
  \/ (At("create") \/ At("set")) /\ FaultThen("rollback") /\ Keep
  \/ At("verify") /\ files.registry = "ours" /\ Return("ok") /\ Keep
  \/ At("verify") /\ files.registry # "ours" /\ Then("restore") /\ Keep
  \/ At("verify") /\ FaultThen("restore") /\ Keep

\* What has been found is written back over the key, or the key is deleted,
\* whether that succeeds or not.
RestoreRegistration ==
  /\ At("restore")
  /\ \/ Then("rollback") /\ Registry(process.before.registry)
     \/ FaultThen("rollback") /\ Keep

\* Variant: the manifest is left as it was written.
RollBackNothing == At("rollback") /\ Return("error") /\ Keep

\* The manifest is removed, or written back by os.WriteFile, which empties it
\* first; an error of either is ignored.
RollBack ==
  \/ At("rollback") /\ process.before.manifest = "absent" /\ Return("error") /\ Manifest("absent")
  \/ At("rollback") /\ process.before.manifest # "absent" /\ Then("rewrite") /\ Manifest("torn")
  \/ At("rewrite") /\ Return("error") /\ Manifest(process.before.manifest)
  \/ (At("rollback") \/ At("rewrite")) /\ FaultReturn /\ Keep

-----------------------------------------------------------------------------
(* Uninstall.                                                              *)

\* A look at what is registered: what names another manifest ends the uninstall,
\* what is not there is not to be deleted.
Look(next) ==
  \/ Found = "ours"    /\ Then(next) /\ Keep
  \/ Found = "absent"  /\ Then("manifest") /\ Keep
  \/ Found = "foreign" /\ Return("error") /\ Keep
  \/ FaultReturn /\ Keep

\* Variant: what unregisterPlatform has seen is deleted.
DeleteWhatWasSeen == At("look") /\ Then("delete") /\ Keep

\* unregisterStore looks again, and deletes.
UnregisterStore == At("look") /\ Look("delete")

\* unregisterPlatform: on Windows only there is something to be done.
Unregister ==
  \/ At("unregister") /\ windows /\ Look("look")
  \/ At("unregister") /\ ~windows /\ Then("manifest") /\ Keep
  \/ UnregisterStore
  \/ At("delete") /\ Then("manifest") /\ Registry("absent")
  \/ At("delete") /\ FaultReturn /\ Keep

RemoveManifest ==
  /\ At("manifest")
  /\ \/ Then("runtime") /\ Manifest("absent")
     \/ FaultReturn /\ Keep

\* Variant: the settings are taken to be gone with the runtime directory.
RemoveRuntime == At("runtime") /\ Then("directory") /\ RemoveProduct("runtime")

\* os.RemoveAll, and a look whether what is managed is gone.
RemoveManaged ==
  \/ At("runtime")   /\ Then("runtime?")  /\ RemoveProduct("runtime")
  \/ At("runtime?")  /\ Then("settings")  /\ "runtime" \notin files.product /\ Keep
  \/ At("settings")  /\ Then("settings?") /\ RemoveProduct("settings")
  \/ At("settings?") /\ Then("directory") /\ "settings" \notin files.product /\ Keep
  \/ At("runtime?")  /\ Return("error")   /\ "runtime" \in files.product /\ Keep
  \/ At("settings?") /\ Return("error")   /\ "settings" \in files.product /\ Keep
  \/ process.step \in {"runtime", "runtime?", "settings", "settings?"} /\ FaultReturn /\ Keep

\* The directory goes too, unless something is left in it.
RemoveDirectory ==
  /\ At("directory")
  /\ Return("ok") \/ FaultReturn
  /\ Keep

-----------------------------------------------------------------------------
Running == process.step \notin {"none", "returned"}

Kill ==
  /\ Running
  /\ kills < MaxKills
  /\ kills' = kills + 1
  /\ process' = [process EXCEPT !.step = "returned", !.result = "killed"]
  /\ Keep /\ UNCHANGED <<windows, starting, faults, hosts, others>>

\* What doctor finds right: validateInstalledManifest and RegistrationCheck.
Usable == files.manifest = "new" /\ (windows => files.registry = "ours")

\* Chrome starts a host, which will create its runtime directory and write the
\* discovery file there.
StartHost ==
  /\ Usable
  /\ ~starting /\ hosts < MaxHosts
  /\ starting' = TRUE /\ hosts' = hosts + 1
  /\ Keep /\ UNCHANGED <<windows, process, faults, kills, others>>

HostWrites ==
  /\ starting
  /\ starting' = FALSE
  /\ files' = [files EXCEPT !.product = @ \cup {"runtime"}]
  /\ process' = [process EXCEPT !.late = TRUE]
  /\ UNCHANGED <<windows, faults, kills, hosts, others>>

\* Another copy, which keeps its manifest elsewhere, registers it under the same key.
OtherRegisters ==
  /\ windows /\ others < MaxOthers
  /\ others' = others + 1
  /\ Registry("foreign")
  /\ process' = [process EXCEPT !.other = process.step]
  /\ UNCHANGED <<windows, starting, faults, kills, hosts>>

ProcessStep ==
  /\ \/ ReadPrevious \/ WriteManifest \/ Register \/ RestoreRegistration \/ RollBack
     \/ Unregister \/ RemoveManifest \/ RemoveManaged \/ RemoveDirectory
  /\ UNCHANGED <<windows, starting, kills, hosts, others>>

InstallationStep == ProcessStep \/ Kill \/ StartHost \/ HostWrites \/ OtherRegisters

\* One command after another.
BeginInstall   == ~Running /\ Begin("install", "read") /\ UNCHANGED <<windows, files, starting, faults, kills, hosts, others>>
BeginUninstall == ~Running /\ Begin("uninstall", "unregister") /\ UNCHANGED <<windows, files, starting, faults, kills, hosts, others>>

\* The states install may find: nothing half done, and a registry on Windows only.
Intact(isWindows, found) ==
  /\ found \in Files
  /\ found.manifest # "torn"
  /\ ~isWindows => found.registry = "absent"

InstallationNext == BeginInstall \/ BeginUninstall \/ InstallationStep

InstallationSpec ==
  /\ \E w \in BOOLEAN, f \in Files : Intact(w, f) /\ InstallationInit(w, f)
  /\ [][InstallationNext]_installation

-----------------------------------------------------------------------------
(* Properties.                                                             *)

\* Another copy has registered while it ran, or after it ended.
Disturbed == process.other # "none"

Ended(kind, result) == process.step = "returned" /\ process.kind = kind /\ process.result = result

\* An install in which one call fails, whichever it is, leaves the manifest and
\* the registration as it found them; and one that fails only because another copy
\* registers under it leaves at least the manifest so (Install after
\* registerPlatform, registerStore after its verification).
FailedInstallRestores ==
  Ended("install", "error") =>
    /\ process.failed <= 1 /\ ~Disturbed => files.manifest = process.before.manifest /\ Found = process.before.registry
    /\ process.failed = 0 => files.manifest = process.before.manifest

\* Chrome reads the manifest at any moment.  It is never half written, but for
\* the rewriting of the old one after a failure or under another copy's install,
\* and what becomes of it when the process is killed in it or it fails too.
ReadableManifest ==
  files.manifest = "torn" => At("rewrite") \/ kills > 0 \/ (faults > 0 /\ faults + others > 1)

\* DIST-011: uninstall removes all that is this product's: an uninstall that
\* succeeds leaves nothing behind but a key without a value and what a host
\* writes that was started before.
UninstallRemovesOurs ==
  Ended("uninstall", "ok") =>
    /\ files.manifest = "absent" /\ files.registry # "ours"
    /\ ~process.late => files.product = {}

\* DIST-011: ... and nothing else: it deletes the registration of another copy only
\* if that copy registered between its second look and the deletion; and if it has
\* been another's from the beginning, nothing is removed at all.
KeepsWhatIsNotOurs ==
  [][process.kind = "uninstall" =>
       /\ files.registry = "foreign" /\ files'.registry # "foreign" => process.other = "delete"
       /\ process.before.registry = "foreign" =>
            /\ files'.registry = "foreign"
            /\ files'.manifest = files.manifest /\ files.product \subseteq files'.product]_installation
=============================================================================

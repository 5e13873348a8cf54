# A specification of tabcli

tabcli lets a coding agent read, classify and regroup the tabs of a running Chrome. This
directory holds TLA+ modules that model the parts of it that keep state and meet each other
concurrently, configurations that check them with TLC, and proofs checked by TLAPS.

    tlc -workers 2 -config MCPlanApply.cfg MCPlanApply     # a run
    tlapm PlanApplyProofs.tla                              # the proofs

`PROJECT.json` lists, for each run, what it checks; for each definition, the lines of source it
models; for each property, a mutation of the model that the run catches; and the hazards that the
properties were chosen for.

## The system

    agent ── stdio ──> proxy ─┐                        ┌ NativeConnectionManager
                              ├─ HTTP + token ─> host ─┤ Native Messaging (one port)
    tabcli <command> ─────────┘   (one per port)       └ service worker ── chrome.* ── tabs
                   │                    │
                   └── discovery file ──┘

| part | where | state it keeps | operations |
|---|---|---|---|
| plan service | `internal/plan`, `internal/tools/{preview,apply}.go` | stored previews (five minutes, once), `operationMu`, the snapshot of the last apply | preview, apply with rollback, undo |
| plan validation, operations | `internal/plan/{schema,operations}.go` | none | `ValidatePlan`, `BuildOperations`, `captureUndoSnapshot` |
| operations in Chrome | `extension/src/chrome-operations.ts` | Chrome's | one operation; restoring a snapshot |
| bridge | `internal/nativemsg` | `pending`, one channel per call | `Run`, `Call`, handshake; frames of at most 1 MiB |
| service worker | `extension/src/service-worker.ts` | the port, handlers in flight | dispatch of messages |
| connection manager | `extension/src/native-connection.ts` | port, retry count, timer | connect, disconnect, retry |
| host lifecycle | `internal/app/native_host.go`, `internal/mcpserver` | listener, token | start, publish, shut down |
| discovery | `internal/discovery` | one file for all hosts | write, read, remove if mine |
| client | `internal/mcpclient`, `internal/cli`, `internal/app/proxy.go` | none | resolve, connect, call |
| page text | `extension/src/content-service.ts`, `content.ts`, `internal/tools/content.go` | a revision per text handed out, copied to session storage | get, compare, diff, validate; issue, revoke |
| tab activity | `extension/src/activity-*.ts` | counters and times per tab, persisted | reduce, reconcile, persist |
| closing tabs | `internal/tools/close.go`, `tab-close.ts` | none | close after a check |
| listing | `internal/tools/list.go`, `extension/src/snapshot.ts` | none | filter, sort |
| installation | `internal/install` | manifest, registration, files of the product | install, uninstall with rollback |
| command line | `cmd/tabcli`, `internal/cli` | none | read the arguments, call, exit with a status |
| the rest | HTTP security, frame codec, stdio proxy, settings page, skills, release tooling | none or user interface | |

How they meet. Every MCP request runs in a goroutine of the host; `PlanService` is shared by all of
them, and `operationMu` is what keeps two applies apart. A host has one `Bridge`; its `Run` loop
reads frames and hands each answer to the `Call` that has its random id in `pending`. The service
worker starts an `async` handler per frame, so several run at once and their answers come in any
order. A host lives as long as the port that made Chrome start it: the end of the port is the end
of stdin, the end of `Run`, and a shutdown of at most three seconds. The next host may be up before
the last one is gone, and both use the same discovery file. All in-memory state of a host dies with
it; all state of the worker dies when Chrome stops it.

What is hard here, and what each module is for:

* a change of the browser takes many messages, and users, other tools and late requests change
  the same tabs in between (`PlanApply`, `ChromeRestore`);
* any of these messages may fail, before or after it took effect, and the way back is made of
  such messages too (`PlanApply`, `ChromeRestore`);
* a cancelled request is neither taken back nor waited for, but answered (`NativeBridge`,
  `PlanApply`);
* handlers on both sides interleave freely (`NativeBridge`);
* processes end and overlap, and share a file (`HostLifecycle`);
* what the worker remembers must survive it, but not the session it is about (`Activity`);
* a page may be another one after every `await` (`PageContent`);
* install and uninstall are sequences of system calls, each of which may fail or be the last
  (`Installation`), and a command's status is all that a script sees of them (`CommandLine`).

## Modules

| module | models | |
|---|---|---|
| `PlanOperations` | plans, operations and their order, undo snapshots, one operation in Chrome | used by the next two |
| `PlanApply` | the plan service with its clients, the extension and the user | `MCPlanApply` |
| `PlanApplyProofs` | theorems on `PlanApply` | |
| `ChromeRestore` | one apply and its restore, a Chrome call at a time | `MCChromeRestore` |
| `ChromeRestoreProofs` | theorems on `ChromeRestore` | |
| `RemoteCalls` | what callers of the bridge may rely on | abstract |
| `NativeBridge` | the bridge and the service worker's dispatch | implements `RemoteCalls`; `MCNativeBridge` |
| `NativeBridgeProofs` | theorems on `NativeBridge`, the refinement among them | |
| `HostLifecycle` | connection manager, host processes, discovery file, clients | `MCHostLifecycle` |
| `HostLifecycleProofs` | theorems on `HostLifecycle` | |
| `Activity` | what the extension remembers of each tab | `MCActivity` |
| `ActivityProofs` | theorems on `Activity` | |
| `Selections` | what a loop keeps that goes through a list once | used by the next two and by `TabTools` |
| `LineDiff` | the line difference of two texts, and what it is for | used by the next |
| `PageContent` | requests for page text, revisions and the events that revoke them | `MCPageContent` |
| `PageContentProofs` | theorems on `PageContent` | |
| `Installation` | install and uninstall, a system call at a time | composed in `CommandLine` |
| `TabTools` | listing and closing tabs, and what the content tools refuse, as functions | used by the next |
| `CommandLine` | the command line with these tools and `Installation` carried out | implements `InstallationSpec`; `MCCommandLine` |
| `CommandLineProofs` | theorems on `Installation` and on `CommandLine`, the refinement among them | |
| `CommonLemmas` | lemmas on numbers, lists and orders | used by the proofs of all but the bridge and the lifecycle |

### PlanOperations

A tab is a number, and its place is a group, `Ungrouped`, or `Closed`. A plan gives every tab a
destination: an existing group, a key of a new group, no group, or nothing (`Unassigned`), and names
the tabs whose content it was made from (`refs`, the plan's content revisions). `BuildOperations`
turns it into a set of operations and `Before` is the order in which the code lists them: creations
sorted by key, then the others by tab. `CaptureUndoSnapshot` keeps the place of every tab an operation
names, and every group that loses or gains a tab. Chrome removes a group with its last tab (`Exists`)
and never gives an identifier twice (`NewGroups`, in order, which loses nothing: identifiers are only
compared for equality). Titles, colours, windows, positions and the pinned flag are left out, and with
them `update_group`, which changes titles and colours only.

### PlanApply

One variable per piece of the service's state (`records`, `operationMu`, `undoSnapshot`), Chrome's
grouping and pages, and for each client where its tool call is. A step ends where the code waits for
the extension or for the lock, so whatever happens between two such points can interleave; what the
goroutine does in between touches nothing that another one can see without the lock.

| action | code |
|---|---|
| `StartPreview`, `ValidateContentRevisions`, `Preview` | `validatedPreviewEngine.Preview`, `PreviewManager.Preview` |
| `StartApply`, `Consume`, `RefuseStale`, `BeginOperations`, `CarryOut`, `FailOperation`, `Commit`, `Rollback` | `ApplyManager.Apply`, `rollbackFailure` |
| `StartUndo`, `TakeUndo`, `Undo`, `FailUndo` | `ApplyManager.Undo` |
| `FailRead` | the error returns after a snapshot or a validation |
| `Cancel` | `<-ctx.Done()` in `Bridge.Call`; an apply then writes its rollback with the same cancelled context and does not wait for that either |
| `AnswerLate`, `HostExit` | the extension carries out what nobody waits for; its answer ends `Bridge.Run` and so the host, `doomed` |
| `Expire`, `UserMoves`, `UserNavigates` | five minutes; the user, and `chrome_tabs_close`, which takes no lock |

An operation may fail before or after it has moved its tab: `create_group` groups first and names
the group in a second call. A restore is one step here (`RestoreTabs`), but one that may throw after any
part of its tabs; `ChromeRestore` has its calls one by one. The revision of a preview is the
grouping itself, being a digest of it; its other ingredients (titles, positions, session) are not
modelled.

`began`, `calm`, `undoBase` and the locals that an ended call keeps are history: no action looks at
them. `calm` holds the clients since whose comparison of the revisions nobody else has moved a tab.

### ChromeRestore

Starts where `Apply` has compared the revisions. `restoreChromeSnapshot` reads the tabs, then the groups,
and then works through the snapshot without reading again: its first loop keeps, makes or gives up
each group and names it, the second places each tab, the third restores positions (`Arrange`, which
can only throw here). The code goes through groups and tabs in the order of the snapshot, the model in any
order, of which the code's is one. `look` says whose title and colour a group shows. An Undo that threw
can be called again (`tries`), since `undoSnapshot` is cleared only after an answer.

### NativeBridge and RemoteCalls

Each `Call` is at one of the points between which other goroutines can run: registered in `pending`,
request written, answer taken or given up, entry deleted. `Run` holds an envelope between the lookup under
`pendingMu` (`ReadResponse`) and its delivery (`Deliver`). The two pipes are queues. The extension starts a
handler for each request (`Receive`), and a handler ends in any order (`Answer`). A handshake that is
not accepted makes `handleNativeMessage` throw, whose catch posts an envelope under the handshake's own id and
operation. Frames stay readable for the host after the worker has gone; what the host wrote and Chrome has
not passed on is lost. An answer that is longer than a frame may be (`Oversized`) ends `Run` like one that no
call waits for.

`RemoteCalls` is the promise behind it: a request is carried out at most once; an answered call has its
own answer, after its request was carried out; a call that is given up says nothing about its request.
`ImplementsRemoteCalls` is checked with `Outcome` as the refinement mapping.

### HostLifecycle

A host is starting, serving at one of the system's ports (`Addresses`, which are given out again), stopping (in `Shutdown`), checking (before `RemoveIfInstance` has read the
file), removing (before `os.Remove`), or gone. The manager has its port, retry count and timer, all
gone with the worker (`StopWorker`). A host stops when Chrome has closed its stdin, when its bridge ends with
an error (`FailRun`), or it crashes and leaves its file. `FailToPublish` is `discovery.Write` failing: before
the file is renamed into place, or after, when the directory cannot be synced; the second leaves a file
that names a process which ends. `CheckFile` and `RemoveFile` can fail, too (`GiveUp`): `RemoveIfInstance`
returns the error of `Read` or of `os.Remove`, the host only logs it, and the file stays. `unclean` keeps the hosts that have
ended in one of these ways. A client goes through `Resolve`, which takes any file whose process number is
alive, whoever has that number by now; `ConnectSession`, where somebody has to listen at the address of the file
and accept its token (`Authorized`, the security middleware); and `Return` or `Fail`. A host's identity stands for
its token and its instance identifier: that two hosts never draw the same random bytes is assumed. What happens inside a call is left to the other modules.

### Activity

Chrome's open tabs, a pipe of events, and two storage areas: one that lives as long as the session of the
browser (its identifier) and one that outlives it (the state). `ActivityRuntime` is the variables
`worker`, `read`, `state`, `queued` and `flushScheduled`, all gone with the worker; `Reduce` and `Reconcile`
are the functions of `activity-reducer.ts`. `initialize` reads the storage and the open tabs in either
order, while events come in between and are queued; `Initialize` reconciles, replays and persists in one
step, as the code does without an `await`. A write is a copy of the state of the moment (`Flush`), carried
out or refused later (`Store`), in order. When Chrome stops the worker, writes that it has sent and events
that it has not handled are carried over or lost. `RestartBrowser` begins a session with tabs of which some may have
identifiers of tabs before. Of the three timestamps of a record the model has whether they are set.

`real` is what has happened to each tab in this session, whoever noticed; `lost` is set when a worker
that stops takes something with it.

### PageContent and LineDiff

A tab shows a page: an address, a document and a text. `Navigate` makes another document, `PushState` another
address in the same one; each tells the worker so, some time later (`events`, `Invalidate`). Every `await` of
`content-service.ts` ends a step, and for each tab of a request `at` says which one it is waiting in: the look
whether the tab may be read (`RequireAccessible`), the script that reads it (`Capture`), for compare and diff the
digest in that script, after which it reads the address (`Digested`), then the probe and the last look at the tab
(`Probe`, `Latest`). `AllAccessible` and `AllCaptured` are the barriers of `Promise.all`. A validation goes through
its references one by one, with a step before and one after the script (`ProbeReference`, `JudgeReference`).

`store` is `ContentRevisionStore` in the worker, `disk` its copy, and `writes` the calls of `storage.set` between
them, which nobody awaits: `StopWorker` loses any number of the last ones. `truth`, `revoked` and the history of
all pages that were open together are there for the properties only; `truth` also keeps revisions apart, as random
identifiers do. Texts are sequences over a small alphabet, and the limits on texts, on differences and on the table of
the longest common subsequence are constants.

`LineDiff` has `createLineDiff` as functions: the common beginning and end, the table and the walk through it, the
replacement when the table would be too large, and the cut (`Bounded`). Beside them stands what a difference is for,
independent of how it is computed: `Explains` and `MostInCommon`.

### Installation

What `install` and `uninstall` change: the manifest, the registry key on Windows, and the files of the product. A process goes from step to step, one system call each; each may fail
(`FaultThen`, `FaultReturn`) or be the last (`Kill`). `WriteManifest` is a temporary file renamed into place, one
step; the way back is `os.WriteFile` on the manifest itself, two steps with a half-written file between them
(`RollBack`). `Register` makes the key and sets its value in two steps, with an `"empty"` key between them, which reads as
no registration (`Found`), and then reads it again. `RestoreRegistration` goes on whether or not it succeeds, as its error is
ignored. `Unregister` looks at the key twice, in `unregisterPlatform` and in `unregisterStore`, and deletes it in a step of its own.

Meanwhile others act. Chrome may start a host as soon as manifest and registration allow it, and the host writes into
the product's directory. Another copy of tabcli, whose manifest is elsewhere, may register it under the same key between any
two steps (`OtherRegisters`); `other` says at which step of the process that was. That nothing but what is the product's is in the
directories that `os.RemoveAll` is given, and that `os.Remove` leaves a directory alone that is not empty, is not modelled.

### TabTools and CommandLine

`TabTools` has the tools of the host that keep no state, as functions of a snapshot and an input: which tabs and groups
a snapshot shows, the filters and the order of `ListTabs`, the checks of `CloseTabs`, and what the extension's
`closeTabs` makes of `chrome.tabs.remove`, which closes tabs up to the first that is gone.

`CommandLine` reads a line of tokens. A token has a number of dashes, a name and perhaps a value behind `=`, and
`ParseFlags` is Go's `flag` package as far as it matters: flags up to the first token that is none, `--`, values, errors
and help. An integer is read as `flag.Int` does, `ParseInt` with base 0 (`Literals`: `010` is 8 and `0x5` is 5), a tab as
`Atoi` does, always decimal (`Numbers`), and a bool by the words of `ParseBool`. Each command is an operator from tokens to
what it comes to: an exit with a status, a call with its input, or an install. `Flags` says which flags a command declares, and of which type. `splitComparisonArguments` is
`FlagPlaces`, and `ItemsAt` the tokens at those places. A numeral has no sign of its own: its sign is the dash of its
token, so one behind `=` is never negative. Durations are counted in a small unit against a small
`MaxInt`, so that a product overflows as it would in 64 bits.

On top of this is a terminal. `TypeLine` types the next line of a script; `Lists`, `Closes`, `Reads`, `Plans` and `Status` are the
host's side of the call; `RemoveTabs` is the extension's, whenever it comes; `Disconnect` breaks the connection, before or
after a request has gone to the extension; `UserCloses` and `UserIgnores` are the user, who closes a tab, or takes it to an ignored
address or back, or edits the list of ignored addresses (`ignored`); and `Installs` is the steps of `Installation`. `seen` is a history:
for each line, the tabs that a snapshot would have shown at some moment between its typing and its request. What the
content and plan tools answer is any of their codes: `PageContent` and `PlanApply` say which.

## Properties and runs

All runs use small sets and named bounds; the bounds count what the environment may do, since nothing
else in these systems is unbounded but the calls themselves.

| run | instance | checks |
|---|---|---|
| `plan_apply` | 2 clients, 2 tabs, 1 initial group, 2 plans, 2 previews, 1 edit, 1 fault | `TypeOK`, `AppliedAtMostOnce`, `OneChangeAtATime`, `WorksOnThePreviewedState` |
| `plan_apply_alone` | 1 client, 3 tabs, 2 initial groups, 4 plans, 2 previews, 2 faults | `CreatedBeforeUse`, `RestoredMeansRestored`, `AppliedMeansApplied` |
| `plan_apply_interrupted` | 2 clients, 2 tabs, 1 preview, 2 cancellations, 1 exit; fair | `RestoredMeansRestored`, `CallsReturn` |
| `restore` | 3 tabs, 2 initial groups, 3 plans, 2 edits, 3 tries | `TypeOK`, `ReturnedMeansBack`, `ReportIsHonest`, `RetriesSuffice` |
| `bridge` | 3 calls, 1 cancellation, 1 frame over the limit, 1 end of the worker; fair | `TypeOK`, `RunNeverBlocks`, `EndsOnlyAfterCancel`, `ImplementsRemoteCalls`, `CallsEnd` |
| `lifecycle` | 3 hosts, 2 ports, 1 client, 1 retry, 1 crash, 1 error, 1 failed write, 1 failed removal, 1 end of the worker; fair | `TypeOK`, `NothingLeftBehind`, `StartsFewHosts`, `HostsEnd`, `Reconnects`, `ClientsEnd` |
| `activity` | 1 tab and 1 incognito tab, 2 sessions, 3 changes, 1 end of the worker, 1 fault | `TypeOK`, `OnlyWhatHappened`, `CaughtUp` |
| `content` | 1 client, 2 tabs, 3 addresses of which 1 ignored and 1 denied, 2 changes, 2 requests, 2 revisions, 1 end of the worker; and 1,664 pairs of texts | `TypeOK`, `OfOneMoment`, `ValidMeansSamePage`, `RevokedIsInvalid`, `DiffIsRight` |
| `commands` | every line of up to 2 to 4 tokens after each command; pairs of lines that close tabs; pairs of installs and uninstalls from every state of disk and registry; 1 lost call, 1 tab that is ignored or shown again, 1 fault, 1 kill, 1 host, 1 install of another copy | `ClosesOnlyApproved`, `StatusIsTrue`, `ReadAsWritten`, `ListedAsAsked`, `FailedInstallRestores`, `ReadableManifest`, `UninstallRemovesOurs`, `KeepsWhatIsNotOurs` |

Why these bounds are enough for the cases the properties are about:

* `plan_apply`. Two clients are what a lock or a one-shot record needs to fail; two previews let one be
  applied, or found stale, while the other waits; one edit can come at every point, between the
  comparison and an operation too; one fault can hit every call. Its two plans create a group of both
  tabs, and empty or fill an existing one.
* `plan_apply_alone`. What an apply leaves behind depends on the plan and the grouping, so this run has the
  plans and every initial grouping of three tabs in two groups: a rotation that empties groups on the
  way, two new groups, `ungrouped_only`, a tab leaving its group. Two faults reach a failed
  operation followed by a failed restore.
* `plan_apply_interrupted`. Two cancellations reach an apply and, later, the undo; the late requests of the
  first may arrive in the middle of the second.
* `restore`. Three tries are one more than there are groups in a snapshot; two edits can close a tab
  and empty a group.
* `bridge`. Three calls give two that are answered out of order and a third that is cancelled.
* `lifecycle`. Three hosts let one end while the next runs and a third starts, of one worker or of two; one worker alone must not
  start a third (`StartsFewHosts`; that two with a retry each start no fifth is left to the theorem). `Reconnects` supposes no more
  failures than there are retries, one here, and two workers then need no more than three hosts. Two ports let a host listen where one did
  whose file a client has read. Calls do not influence each other, so one will do.
* `activity`. The records of two tabs do not influence each other, so one tab will do, with one of the kind
  that is not recorded; three changes are its creation, its activation and its end, each of which can come before,
  between or after the two readings; two sessions reuse its identifier. `Kinds` leaves out
  `tab-updated`, which differs from `tab-moved` in the field it sets; a run with all three kinds (7 million states)
  finds nothing else.
* `content`. Two changes let a page go and come back, in another document or in the same, or both pages change between
  their captures; two requests let a revision be validated that was issued before. The texts are all those of up
  to three characters, which are those with a line repeated, an empty line, and none, against each other, and
  all of three one-letter lines; the table's limit of 6 cells makes some of them too long for it.
* `commands`. What is read from a line depends on a token and those beside it, so lines of a few tokens have every
  case: a value before or behind a flag, a flag twice, a negative number, an octal one, a bool with a value, help, `--`. The lines that read pages or plans
  are typed with no tab open, since the command and its tool's checks do not look at the tabs. Two lines that close tabs let the
  second be typed while the request of the first is still on its way, and one change of what is ignored can come at every
  point, between the snapshot and the removal too. One install of another copy can come between any two steps of the process.

`CHECK_DEADLOCK FALSE` is said where the system comes to rest: every bound is used up and every call
has returned. `NativeBridge` has no such state but the end of the connection (`Over`), so the bridge's
runs do look for deadlocks.

Fairness. `PlanApply`: the extension answers each request that is waited for (a handler is a finite
sequence of Chrome calls, each of which settles), and a waiter for `operationMu` gets it at last: a Go
mutex hands over to its first waiter once that has waited for a millisecond, which is strong fairness of
`Lock`. `NativeBridge`: goroutines are scheduled, Chrome passes frames on, handlers end; a call is not
forced to be made or cancelled, nor the worker to stop. `HostLifecycle`: Chrome reports the end of a
process, the timer fires, hosts are scheduled and `Shutdown` has a deadline; nobody has to start
or end a worker. That a client's call ends (`ClientsEnd`) needs a client that goes on running and its 30 seconds,
which is fairness of its own, stated in the property: other clients may be stopped.

### Where the code and the documents disagree

Each has a run in which TLC finds the property violated.

| run | property | what happens |
|---|---|---|
| `restore_no_group` | `UndoneRightAway` (AC-04) | the snapshot of an apply that touches no existing group has `Groups` nil, `null` in JSON, and the restore throws at every attempt |
| `bridge_refused` | `HandshakeEnds` (NFR-004) | the error of a refused handshake is answered as another handshake, for ever |
| `lifecycle_lost` | `StaysPublished` | an ending host that has compared the file removes the one that another host has put there since |

More are known from these models and from reading, and have no run of their own:

* FR-108 (`docs/requirements.md:313`) has any change after the preview refused. `Apply` compares once,
  and a change between the comparison and an operation is not seen. `WorksOnThePreviewedState` says what
  does hold.
* FR-084 (`docs/requirements.md:292`) has no result used for classification once its page has changed. Content revisions
  are validated for the preview only; a tab that navigates afterwards is moved as its old page called for. `PlanApply`
  has `UserNavigates` and no look at pages after `ValidateContentRevisions`.
* FR-205 (`docs/requirements.md:325`) has the last apply undoable. The answer to a cancelled call ends the host, and
  `undoSnapshot` with it (`AnswerLate`, `HostExit`).
* A host ends whenever a cancelled call is answered, so one client that goes away ends the calls of all
  (`docs/requirements.md:563` has only its own proxy end). `EndsOnlyAfterCancel` says that no order of events does it
  without a cancellation; an answer of more than 1 MiB does, too.
* A restore can throw at a group that it has itself emptied: making one group again takes its tabs
  from the others, and the list of existing groups is not read again. `RetriesSuffice` bounds how often.
* `retryCount` is set back by `start()` only, so the retries (SYS-016) are for the life of a worker.
  `Reconnects` says what that leaves, and `StartsFewHosts` that there is a limit.
* `discovery.Write` that fails to sync the directory leaves a file in place whose host ends, and so does `RemoveIfInstance` when it
  cannot read the file (opening, decoding, or a check of its permissions, owner, kind or version: `file.go:131-137`) or
  `os.Remove` fails (`file.go:141`); `Close` joins the error and the host logs it. `NothingLeftBehind` excepts these hosts.
* FR-082 (`docs/requirements.md:290`) has ignored tabs refused. `requireAccessibleTab` looks before the script runs; a tab
  that navigates to an ignored address in between is read, and the address that is compared afterwards is the new one.
* FR-084, of the address: compare and diff read `location.href` after they have awaited the digest, so a page that has
  changed its address and its text in the same document between the two is answered with the old text and the new
  address. `OfOneMoment` says of them what does hold: both documents were open at one moment.
* FR-011 (`docs/requirements.md:253`) has no tab closed when one is gone. `CloseTabs` looks first; a tab that goes after that
  makes `chrome.tabs.remove` stop at it, with those before it closed. The status then is 1, never 2 or 4
  (`StatusIsTrue`).
* FR-011 has no tab closed that is ignored either. The extension's `closeTabs` does not look again, so a tab that comes to be
  ignored after the snapshot (`close.go:43`) and before the removal (`close.go:66`) is closed. `ClosesOnlyApproved` says what does hold:
  a tab that is closed was shown, or would have been, between the typing of the line and its request.
* DIST-011 (`docs/requirements.md:633`) has uninstall remove what is the product's only. `unregisterStore` deletes whatever the key
  holds by then, so another copy's registration is lost if it is made between the second look and the deletion
  (`KeepsWhatIsNotOurs` has this one exception). In the same way `registerStore` that cannot verify its value writes over or deletes a
  registration that another copy has made since it began; `FailedInstallRestores` is about installs that no other copy disturbs.
* `CreateKey` that succeeds before `SetStringValue` fails leaves a key without a value if the process is killed then, or if the
  way back fails. It reads as no registration, so no uninstall removes it; `UninstallRemovesOurs` excepts it.
* A flag that does not parse exits with 2, with `--json` with 4; help asked for with `--json` behind a command exits with 0 and
  prints nothing to stdout; `doctor` exits with 0 whatever it finds; a protocol mismatch found in the discovery
  file is reported as a disconnected browser, 3 and not 15.
* `splitComparisonArguments` knows limits with two dashes and a separate value only: behind `-max-chars 7` (one dash) the
  7 is taken for a tab, and a later token with dashes becomes the limit. That token is mostly refused, by the flag package or by
  the host's limits, but not when it is `-0`, which is the default limit, or a negative numeral that a later flag replaces:
  `diff -max-chars 7 9 -0` compares tabs 7 and 9, and `diff 1 -max-chars 5 -7 --max-chars 3` tabs 1 and 5. `Misread` is these
  lines; `ReadAsWritten` says of all others that no call is made with what was not written. The tokens of `commands` have one-dash
  flags and negative numerals.
* `--max-chars 010` is a limit of 8: the flag package takes the base from the numeral, while tab identifiers are always decimal, so
  `content 010 --max-chars 010` has two meanings of `010` (`Misread`, too).
* `content "" 5` reads tab 5: an empty first argument is dropped and not refused (`Misread`, too).
* A killed install leaves a temporary file beside the manifest, which no uninstall removes.
* The reducer's handlers of `tab-activated`, `tab-updated` and `tab-moved` do not ask whether the tab is incognito.

## Proofs

Eight modules hold theorems and their lemmas, which are about every set of clients, calls, tabs, groups, keys, pages, lines and hosts,
every set of plans and every bound.

| module | theorem | says |
|---|---|---|
| `CommonLemmas` | (lemmas only) | induction and recursion up to a bound; what `ItemsAt` and `Chosen` return; the places of a total order |
| `PlanApplyProofs` | `Invariance`, `Effects` | `Spec => []IInv`, `Spec => [](IInv /\ EInv)` |
| | `TypeCorrect`, `AtMostOnce`, `MutualExclusion`, `GroupsBeforeMoves` | `TypeOK`, `AppliedAtMostOnce`, `OneChangeAtATime`, `CreatedBeforeUse` |
| | `WorksAsPreviewed`, `AppliedAsPlanned`, `RestoredAsBefore` | `WorksOnThePreviewedState`, `AppliedMeansApplied`, `RestoredMeansRestored` |
| `ChromeRestoreProofs` | `Invariance` | `Spec => []IInv` |
| | `TypeCorrect`, `ComesBack`, `SaysWhatIsMissing`, `UndoNeedsFewTries` | `TypeOK`, `ReturnedMeansBack`, `ReportIsHonest`, `RetriesSuffice` |
| `NativeBridgeProofs` | `TypeCorrect`, `NeverBlocked`, `EndedByCancelOnly` | `TypeOK`, `RunNeverBlocks`, `EndsOnlyAfterCancel` |
| | `Refinement` | `Spec => ImplementsRemoteCalls` |
| `HostLifecycleProofs` | `TypeCorrect`, `FewHosts`, `NothingRemains` | `TypeOK`, `StartsFewHosts`, `NothingLeftBehind` |
| `ActivityProofs` | `Invariance` | `Spec => []IInv` |
| | `TypeCorrect`, `HistoryIsReal`, `NothingForgotten` | `TypeOK`, `OnlyWhatHappened`, `CaughtUp` |
| `PageContentProofs` | `Invariance` | `Spec => []IInv` |
| | `TypeCorrect`, `ShownTogether`, `ValidForItsPage`, `RevokedForGood` | `TypeOK`, `OfOneMoment`, `ValidMeansSamePage`, `RevokedIsInvalid` |
| | `DifferencesAreRight` | `DiffIsRight` |
| `CommandLineProofs` | `InstallInvariant` | `InstallationSpec => []IInv` |
| | `TypeCorrect`, `FailureRestores`, `ManifestReadable`, `UninstallComplete`, `OthersKept` | `InstallationTypeOK`, `FailedInstallRestores`, `ReadableManifest`, `UninstallRemovesOurs`, `KeepsWhatIsNotOurs` |
| | `ImplementsInstallation` | the command line implements `InstallationSpec` |
| | `StatusCanBeReliedOn`, `OnlyApprovedIsClosed` | `StatusIsTrue`, `ClosesOnlyApproved` |
| | `LinesAreReadAsWritten`, `ListsAsAsked` | `ReadAsWritten`, `ListedAsAsked` |

With these, every invariant and every step property that a run checks is also a theorem.

Assumptions are those the modules declare: tabs, keys and groups are numbers, the special values differ
from them and from each other, plans have their type, bounds are numbers, there is a first session of the browser, a browser
has finitely many tabs, texts are sequences of `Letters`, numerals stand for natural numbers in both readings, and a unit of time is a whole number
of seconds. TLC evaluates them in every run. `ImplementsInstallation` also assumes that no session begins with a
half-written manifest; the other theorems on the command line, that sessions are `Proper`: lines are sequences of tokens, and
no two tabs of Chrome have one identifier.

None of the properties is inductive.

**The plan service.** `IInv` adds to `TypeOK` and `AppliedAtMostOnce`:

* `PreviewsInv`: an identifier not drawn has no record and was never begun, and one that has a record was
  not begun yet. With it, at most once follows: `Consume` takes the record away before `BeginOperations`
  counts, and an apply that is `checking` has a count of 0 (`CallInv`).
* `CallInv`: an apply or undo past the lock is the one `operationMu` names. Mutual exclusion follows
  at once. It holds also because the record of an apply in progress is in no `records`, so no second
  apply can count for it.
* `CreatesItsGroups`: for each move into a new group that is still to be done, the group has been made or
  its creation is still to be done. `BuildOperations` establishes it (the first of a key's tabs exists,
  lemma `Least`), `CarryOut` keeps it; and since creations come first in `Before`, the next operation,
  if it is a move, finds its group made (lemma `NextOperation`). That is `CreatedBeforeUse`, and also what
  makes every request well typed.
* `LateInv`: requests whose caller is gone are well formed, which `AnswerLate` needs to keep Chrome's types.

There is a lemma for each action that it preserves `IInv`, on lemmas for what most actions have in
common: `EndOfCall` (a call that ends), `EnterInv`, `OthersUndisturbed` (the other calls), `RestoreType`.

**What an apply does.** `EInv` follows an apply that nobody disturbs through its operations:

* `RecordsMade` and `Made`: the operations of a preview are `BuildOperations` of a valid plan, in its record and in the call
  that has taken it. So there is one operation per tab (lemma `OneOperationPerTab`).
* `Moves`: creations come before all else; a tab that no operation done so far is about is where the preview found it, and
  one that is done with is where its operation put it. `CarryOut` keeps this because Chrome moves one tab per
  operation and no operation comes back to it.
* `Creates` and `GroupsUsed`: the groups made for different keys are different and none that the preview knew, because
  Chrome has given out the identifier of every group there is and takes none back (lemmas `OperationUsesGroups`,
  `RestoreUsesGroups`). Without it, two keys could share a group, and "all of the key's tabs and no others" would not follow.

Everything that another actor does takes the call out of `calm`, and what the call itself does apart from operations moves no
tab (`ProgressKept`, and a lemma for each action). When no operation is left, `Moves` and `Creates` are what the plan says.

**What takes an apply back.** `RInv` is about the snapshot that an apply captures, from its first operation to its rollback, and
on as `undoSnapshot` until somebody else moves a tab: it has, of each tab that it names, where the tab was, and all other tabs are
still there (`BringsBack`). An operation keeps this since its tab is named, and an undo that throws since it moves named tabs
only; so where operations and earlier tries have put the named tabs need not be known. A restore of all of them then yields the
grouping of before, with other identifiers for groups that were gone: different ones for different groups, and none that another
group has, because the identifiers of all groups there have been are used up (lemma `RestoredGroups`).

**A restore.** Between the calls of `restoreChromeSnapshot` the user goes on, and some tabs have been moved by it already while
others wait. `IInv` says what its locals are worth then: which group stands for each group of the snapshot (made by the
restore for this one, or there before and not emptied by it), that a tab the user has left alone is where the plan, or the
part of the restore that has been over it, has put it, and that a group is made of open tabs only. That a restore throws at a
group at most once is counted in groups: each throw makes one group that stands from then on (lemma `ThrowsAtAnother`), and
`RetriesSuffice` follows from the cardinality of what is left.

**Page text.** `IInv` ties each call to the history of the pages, by what it has come to (`CallOK`): what a single request has
captured was shown at one moment (`Shown`). Documents are numbered upwards in each tab, so one that is still there at a second look
has been there in between. When both tabs of a pair have been read, either both documents were open together then
(`Together`), or one of them is gone already and its probe, still to come, will find that out (`Past`): so a pair whose probes
have both passed was open together. A revision that was revoked is not in the worker's store, and when the worker has
stopped not in the copy that the next one will read, unless its removal was among the writes that were lost (`StoreInv`).

**Activity.** Events are handled after they have happened, so a record is compared with what has happened less what is still to
be handled: `Pending`, the events queued in the worker before those in the pipe. A tab's creation is the first of its events and
its removal the last (`Orderly`). A state of the worker or of the storage is `Right` when, with the pending events handled, it
says no more than has happened, `Shown` when its tabs will then be the open ones, and `Full` when nothing is missing. Each is
kept by the reducer (`ReduceKeeps`), and so by the replay of any number of events, which is a recursive function: for each
there is a sequence of states (`ReplaySteps`), and a least place at which it were not kept would be a step that did not keep it.

**The bridge.** What is under way for a call is in one place: its request in the pipe, with a handler, or carried out; its
answer in the pipe back, in the hands of `Run`, or in the call's channel (`OnePlace`). So the channel is empty when `Run`
delivers, and its room for one answer is enough. `CallMatches` ties this to where the call is: one that waits is in
`pending`, so without a cancellation every answer finds it. The refinement maps a call to its `Outcome`; a lemma each
for the steps that leave all outcomes alone, that move one on, and that give one up.

**The lifecycle.** The host that the file names has published it and not ended, or it is one that has ended without seeing to it
(`NamesItsHost`): an ending host may remove another's file, but keeps its own only in the ways that `unclean` records. The hosts are
counted worker by worker (`StartedSoFar`): each worker that has ended has started one more than it has retries at most, and
the one that runs one more than it has counted, less the one that its timer has still to start; that a timer runs only
without a port (`ConnectsOnce`) is why none is counted twice.

**Installation.** `IInv` says for each step of a process how far it has come: until the key is made with no failure, the registration
is what was found; a `rollback` after one failure has it back, unless another copy has registered since (`InstallInv`, `AsFound`); a
half-written manifest comes from a kill, a second failure, or a failure and another copy's install (`TornInv`); what an uninstall is
past is gone, and whatever it has not deleted another copy's registration survives, unless it was made while the deletion was due
(`UninstallInv`). `ImplementsInstallation`, a step by step
refinement with the identity as its mapping, carries these theorems to whatever is typed at the terminal.

**The command line.** `CommandInv` follows a line from the terminal to its end: what it came to is what `Run` makes of the line
(`IsCommand`), a request to close under way is the one of a close that was checked (`RequestsInv`), an answer says what was done
(`AnsweredInv`), and while install runs the process is its own (`RunningInv`). With them `StatusIsTrue` is a matter of the
statuses that `ExitCode` gives.

The other three theorems are about reading a line of any length. `LineInv` says that the line in hand is a sequence of tokens and has
come to what `Run` says of it (`LineInHand`); of all commands only a tool's own comes to a call of the tool (`RunsCommand`). The
readers are recursive functions of the first *n* tokens: a lemma says that they are what their recursion says (`Reader`, from
`Recursion`, that a function defined by recursion exists), and then a relation is kept token by token.

* `ClosesOnlyApproved`: `ParseGlobalJSON` keeps the order of what it keeps (`KeepsOrder`); behind `ParseFlags`, every argument that is
  left stands behind the flag that confirms, if one does (`RestIsBehind`). So what is closed was named behind `--confirm`
  (`NamesItsTabs`). And `Closes` asks only for tabs that its snapshot shows, which `seen` has: it takes in what is shown when the line is
  typed, and again whenever the user changes what is ignored until the request is made (`SeenInv`, `SnapshotShowsOpen`); what it says of
  earlier lines never changes (`ApprovedInv`).
* `ReadAsWritten`: the values of limits as one reads them (`WrittenValues`) and the tokens that the code hands to the flag package
  (`FlagPlaces`) are both the second ones of pairs (`Alternation`). What a limit has been given is kept as tokens, with the value that the flag package
  made of one of them (`LimitsBy`, `Taken`); that this is the value one reads, too, holds of the lines that `Misread` does not name
  (`SaysWhatItTakes`). Of compare and diff, after each token the flag package either
  has read the limits that have been written so far and waits for a value if and only if one is due (`Follows`), or it has lost the
  thread. It loses it at a limit with one dash, whose value went to the tabs: then the next token it takes for a value begins
  with a dash and is no numeral, unless the line is one that `Misread` names, and the reading ends with an error (`Stuck`) or in a
  token that is no tab (`LeavesNoTab`; `Comparing`, `ComparingKeeps`). Of content, either the tab is still to come, or it is what is left, or
  too much is left (`Naming`, `NamingKeeps`).
* `ListedAsAsked`: `Before` is a total order of the places of a list, ties included, in which what has no value comes last
  (`TabOrderIsTotal`). In such an order the number of places before a place grows with it (`EarlierGrows`), so no two places have the
  same rank, and every rank is some place's (`EveryPlaceTaken`): `Sorted` has each tab once, in order (`SortedInOrder`). A time in milliseconds and
  the seconds shown for it run the same way (`FollowsTheColumn`). The last `--inactive-for` of a line is what `ParseFlags` has set, or
  something is left over and the line is refused (`Lasting`); as the units are whole seconds and the product does not overflow,
  the comparison of seconds is that of the times (`Division`, `InactiveAtLeast`).

**The difference of two texts.** `DiffIsRight` is a fact about `CreateLineDiff`, whatever the texts: `IInv` adds only that what
is compared are texts (`ClippedText`). The table of `createMinimalChanges` is a function on cells, defined from the last one on, and so is
the walk through it; both exist and are what their recursion says (`TableRecursion`, `RowsFill`, `Walking`), and what is kept from
the cells behind to a cell holds of all (`TableInduction`).

* The walk tells the truth (`Tells`): the lines that its changes do not name are the same in both texts, and there are as many
  of them as the cell says. This is kept by each of its three steps (`TellsAlike`, `TellsInsert`, `TellsDelete`), put behind the
  common beginning (`TellsRun`), and true of the common end (`TellsEnd`).
* No choice of lines does better: if some lines of both texts are the same list, it is no longer than the cell says, by the
  cases whether it uses the next line of either (`AtMostRow`). Beginning and end are common to both, so they lose nothing
  (`AtMostInCommon`); that they do not overlap is `Suffix`. So the number of changes is the least one (`MinimalLeavesMost`).
* Where the table would be too large, all between beginning and end is replaced, which is right though not minimal
  (`ReplacementTells`). The limits cut a beginning off the changes, and a result that is not said to be cut is all of
  them (`Counting`, `CountsAgree`, `Bounding`).

Only model-checked: liveness (`CallsReturn`, `CallsEnd`, `HostsEnd`, `Reconnects`, `ClientsEnd`), which the prover does not do. The
loops of the code over lists are recursive functions here and not operators of the library on sequences (`SelectSeq`, `SortSeq`,
folds), of which the prover knows nothing.

## Not modelled

* Titles, colours, windows, positions, pinned tabs and `update_group` in plans (see `PlanOperations`): they change no grouping,
  and what they add to a restore is one more call that may throw, which `ChromeRestore` has (`Arrange`).
* Which elements of a page are its visible text, and the matching of ignore patterns: string functions without state.
* The stdio proxy forwards calls and is a client like others. Of the HTTP middleware only the token matters to the other
  parts, of the frame codec only the limit. What the commands print, the settings page, skills, build information and
  release tooling are not about the state of the running system.
* An apply of a plan without operations succeeds and replaces the undo of the apply before it; the model does so, too, but
  no document says whether it should.
* The session identifier in a preview's revision, which may be `unknown` while the activity runtime initialises, so that a
  preview of that moment is refused later as stale. The refusal is among the behaviours of `PlanApply` and harms nothing.
* The length of delays: a timer may fire at any time after it was set.

## Plan

Done, in this order: `PlanOperations` and `PlanApply`, the change of the user's tabs being what must not go
wrong; its proofs; `ChromeRestore`; `NativeBridge` with `RemoteCalls`; `HostLifecycle`; `Activity`; `PageContent` with
`LineDiff`; `Installation`; `TabTools` and `CommandLine`; the proofs of `NativeBridge`, `HostLifecycle` and `Installation`, those
about the effect of an apply; the proofs of what takes it back, of `ChromeRestore`, `PageContent`, `Activity` and `CommandLine`; those
of the difference of two texts, of reading a line and of sorting a list. The proofs also made the models clearer: a `CASE` whose guards overlap may be read as any of the cases, which TLC never does and the prover always, and several
of these are now tests in the order of the code.

What would come next: titles and colours in `PlanOperations`; and an abstract plan service (an apply is all or nothing when nobody
interferes, undo takes back the last apply) that `PlanApply` implements, for which `IInv`, `EInv` and `RInv` are the invariant.

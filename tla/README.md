# Verification of a10-certctl

TLA+ models of the Go library and command `a10-certctl`, which rotates TLS
certificates on A10 load balancers over aXAPI. The appliance has no
transactions and no conditional writes: a rotation is a dozen HTTP requests,
any of which may be refused, lost or carried out late, while GUI users, other
processes and reboots change the same configuration. The models describe which
states such a rotation, its rollbacks and its retries can reach. Paths below
are relative to `src/`.

## The system

| component | state | operations | interacts with |
|---|---|---|---|
| Synchronization, `pkg/a10/sync.go` | locals of one call: baseline, expected template, what was uploaded, whether the template was touched, the result; `Client.managedMu`, `Session.managedMu` | `SyncCertificate`, `ReconcileCertificate`, `rollbackSynchronization`, `rollbackUploadedMaterial`, `deleteUnreferenced` | the appliance, through a session of its own per call |
| Pre-staging, `pkg/a10/sync.go` | uploaded files, `persistenceAttempted` | `CreateManagedCertificate` and its deferred rollback | a later rotation picks its files up |
| State and revisions, `pkg/a10/state.go` | none | `Revision`, `requireTemplateRevision`, `templateWithBinding`, `templateWithoutCertificate`, `GetManagedCertificateState` | the conflict checks of a rotation |
| Certificate resources, `pkg/a10/certificates.go` | none | list, upload, bind, unbind, delete, write memory | one aXAPI request each |
| Session, `pkg/a10/client.go` | token, `closed`, selected partition, `lifecycle` (RWMutex) | `StartSession`, `doJSON`, `doMultipart`, `Close`, `Raw` | goroutines share a session |
| Compatibility, `pkg/a10/compatibility.go` | none | `VerifyCompatibility` | first request of a managed write |
| Virtual servers, `pkg/a10/virtual_servers.go` | none | `ListVirtualServers`, `FindClientSSLTemplatesByVIP` | read-only |
| Bundles, `pkg/a10/certificate.go` | immutable values | `ParseCertificateBundle`, `validateForSync`, `checksum` | names of managed files are derived from checksums |
| Identifiers, `pkg/a10/identifiers.go` | none | validation, `sanitizeName`, `limitName` | names of files, partition selectors |
| Command line, `cmd/a10-certctl/main.go` | one session per invocation | `sync`, `import`, `bind`, `unbind`, `delete`, `write-memory`, `status`, `vip`, `find-domain`, listings | a process of its own, hence a `Client` of its own; scripts look at its exit code |
| Appliance (external) | running and startup configuration, file stores, signatures | aXAPI | everybody |

What makes it hard:

* **Partial failure.** A failure in the middle leaves files, bindings and saved
  state to undo. Until the bind is sent the uploads may be deleted; from then
  on the template may refer to them (`sync.go:476-479`).
* **Answers that get lost.** A request without a good answer may have been
  carried out, or may be carried out while the rollback is under way.
* **Implicit replacement.** Binding to a template with one entry may replace
  the entry instead of adding one (`sync.go:491-500`).
* **Two saved states.** A reboot brings back the startup configuration, so the
  order of write memory and the deletes matters (`sync.go:577-579`).
* **Stale reads.** Every check is a read followed by a write; revisions are
  compared immediately before each step, and the last race remains
  (`README.md:192`).
* **Concurrency.** Goroutines share a `Client` or a `Session`; several
  processes share an appliance.
* **Identity.** Conflict checks compare revisions of documents the appliance
  renders as it likes (`state.go:40`); reuse of files relies on names derived
  from checksums (`sync.go:705`). Both must stand for the thing itself.

What makes each part correct: a rotation that reports success has exchanged
one binding and nothing else; one that reports a rollback has restored the
baseline; no step lets a template refer to missing material or a template in
service run out of bindings, now or after a reboot; cleanup removes exactly
what is unreferenced; a conflict stops the call; an expected revision is
honoured; retries converge; a session never sends a request with a dead
signature and always manages to close; equal revisions mean equal
configurations; a managed name means one bundle; an exit code of zero means the
command's work is done; a lookup finds what the appliance serves and no more.

## Modules

| module | what it is |
|---|---|
| `SslTemplate` | files, bindings, templates, and the pure helpers of `sync.go` and `state.go` |
| `CertSync` | the calls of `SyncCertificate`, `ReconcileCertificate` and `CreateManagedCertificate`, one action per request, with the appliance and the environment |
| `CertificateStore` | abstract specification: what any number of rotations may do to the appliance; implemented by `CertSync` and by `CommandLine` |
| `CertSyncProperties` | the properties of `CertSync`; maps it to `CertificateStore` with `INSTANCE` |
| `MCCertSync` | small instances of `CertSync` |
| `CertSyncProofs` | types, mutual exclusion, and what a call knows at each of its requests, whoever else works on the appliance |
| `CertSyncStoreProofs` | what the calls of one Client do to the appliance: the refinement of `CertificateStore` and the theorems that rest on it; calls of several Clients that keep the old files |
| `CertSyncFilesProofs` | what these calls leave among the files: staged material stays, undisturbed rotations leave nothing behind |
| `SessionLifecycle` | one `Session` from `StartSession` to `Close`, shared by goroutines; its properties |
| `MCSessionLifecycle` | small instances of it |
| `SessionLifecycleProofs` | inductive invariant and theorems about it |
| `TemplateDocument` | templates as the appliance renders them, their decoding, their revision, the prediction of a changed one, the scan for references |
| `ManagedMaterial` | bundles, the names of their files, and the reuse of files by name, in calls one after the other |
| `CommandLine` | shells that run scripts of commands, with sessions, failures and exit codes |
| `Discovery` | the lookups by address and by DNS name |
| `MCTemplateDocument`, `MCManagedMaterial`, `MCCommandLine`, `MCDiscovery` | small instances of these |
| `TemplateDocumentProofs`, `ManagedMaterialProofs`, `CommandLineProofs`, `DiscoveryProofs` | invariants and theorems about these |

Definitions marked "Mutant" in a comment are faulty variants of the definition
they stand in front of or near. Nothing uses them; they document which bug each
property would notice.

### CertSync and the code

A caller is a goroutine in a call. `pc[c]` names the request it sends next,
`loc[c]` holds the local variables of the Go function, `call[c]` its arguments.
A step is one HTTP request together with the code that runs from its answer up
to the next request, so every point at which another actor can intervene is a
state. `Query` is a reading request, `Send` a changing one; both have an
outcome for a good answer and one for an error. The operators `After...` are
the stretches of straight-line code between requests, `Failed` is an error
return with the deferred rollback, `Require` is `requireTemplateRevision`.

| in the model | in the code |
|---|---|
| `Lock`, `Auth`, `Logoff` | `managedMu`, `StartSession`, `Close`, in `Client.SyncCertificate` and `Client.CreateManagedCertificate` |
| `Version` ... `PreBind` | `Session.SyncCertificate` to the last check before the bind; a pre-staging call goes from `Version` to `ListCerts` |
| `Bind`, `ReadBack`, `VerifyBound`, `AfterBinding` | the bind and the four-way switch on what is read back |
| `PreUnbind`, `Unbind`, `PostUnbind` | retiring the old binding |
| `PrePersist`, `Persist`, `CreatePersist` | write memory |
| `ScanClient` ... `PersistCleanup` | `deleteUnreferenced` and the second write |
| `RbInspect` ... `RbPersist` | `rollbackSynchronization` |
| `UndoPair` ... `UndoKeys`, `UndoPersist` | `rollbackUploadedMaterial`, and the write after it in `CreateManagedCertificate` |
| `loc.up`, `mutated`, `attempted`, `exp`, `base`, `cur` | `uploaded`, `templateMutated`, `persistenceAttempted`, `expectedTemplate`, `template`, `current` |
| `loc.pin` | `ExpectedRevision`, read before the call |
| `Retry` | `ReconcileCertificate` after an error |
| `stray`, `Land`, `landed` | what a call leaves in doubt under a signature nobody has ended (`client.go:316-319`), that it is carried out later, and which operations have been |

A template value is what `Revision` fingerprints: the set of bindings and the
other material it refers to. Equal values have equal revisions; that this is
what the code's revisions do is the matter of `TemplateDocument`. Material is a
name in one of two stores; contents matter only to the collision check, where
`Foreign` files are those that hold another certificate. That a managed name
otherwise stands for one content is the matter of `ManagedMaterial`. A private
key of the same name is not compared by the code either.

A call runs on a session its `Client` opens for it, or, when the caller's
`ClientOf` is in `Explicit`, on a `Session` several goroutines share: then the
mutex is `Session.managedMu`, the session is opened once, before any call, and
`CloseSession` may fall between any two requests. The call then fails at its
next request, its rollback too, and what it has left in doubt stays so after its
end, since only the session's logoff could end it.

`Session.Close` sends one logoff and forgets the token whatever the answer is
(`client.go:316-319`). When the logoff fails, and when the process dies before
it, the signature stays valid on the appliance. `Logoff`, `CloseSession` and
`Crash` therefore move the call's requests in doubt to `stray`, from where
`Land` may carry them out during the retry, during another call or after all of
them.

The code that is abstracted away without changing control: JSON, multipart,
error texts, PEM, the validation of arguments before the session is opened.
Only bundles and targets that pass it are arguments here.

### The appliance

Modelled from how the code uses it; external to the repository.

* The certificate list of a template is keyed by certificate name. A bind needs
  the files, replaces an entry of the same name, and may take the place of a
  sole entry.
* Deletes do not look at references. A delete of a pair may be carried out in
  part. An upload over an existing file, and a delete of a missing one, may be
  refused or accepted.
* Write memory copies the running configuration with its files; a reboot goes
  back to that copy and ends all signatures.
* A changing request without a good answer stays in `doubt`: it takes effect
  never, or at any moment until its signature has ended. Only an answered logoff
  or a reboot ends it. A request whose call is over without either is `stray`.
* Failures come from a budget (`Limit`), so do reboots, crashes, GUI edits and
  calls. Requests with an ended signature fail without spending it.
* GUI users bind, unbind, refer to files and save. They use the material of
  their own bindings and do not empty a template. With `Coordinated` they act
  only between calls, the single-writer coordination `README.md:124-126` asks
  for.

### CertificateStore

Eight actions on the pair of configurations: stage, serve, swap, withdraw,
refer, discard, save, restart. Files appear unreferenced, a binding needs its
files, a binding leaves only while another one stays (or the template started
empty), files go only when nothing refers to them. `ImplementsStore` says that
every step, late requests and rollbacks included, is one of these or leaves the
configurations alone: in `CertSync` until a stray request is carried out, in
`CommandLine` always.

### SessionLifecycle and the code

`opening` follows `StartSession`: authentication, resolution of an ID, selection
of the partition, `Close` on failure. Then goroutines issue single requests,
managed writes (`managedMu` and up to `Length` requests) and `Close`, in any
order and any number of times. The RWMutex is Go's: `Announce` is the moment a
`Lock` becomes known and keeps new readers out, `Logoff` and `CloseAgain` need
the readers gone, `Unlock` lets all readers in that have waited. `closed`,
`signature` (what the appliance thinks), and `active` (its partition) are
separate, so that a failed logoff can leave them apart. Acquiring the lock and
looking at `closed` are separate steps.

A selector of digits is an ID up to `MaxID` (32 bits in the code), `0` selects
nothing, and digits beyond it are the name of a partition again (`Resolve`,
`client.go:277-281`).

### TemplateDocument and the code

The state is a configuration (the certificate list, and the other places that
name a file), how the appliance renders it at the moment (order, UUIDs and URLs,
flags as numbers, booleans, texts or left out), and the template the library
expects to read next with the configuration that expectation stands for. `Read`
is `GetClientSSLTemplate`, `Bind` and `Unbind` change the configuration and
predict the result with `templateWithBinding` and `templateWithoutCertificate`,
`Edit` is somebody else, `Regenerate` the appliance. A document is the set of
its leaves, each a text, a number or a boolean with the fields that lead to it
and the position in the list on the way: what `removeGeneratedA10Metadata` and
`jsonValueContainsString` do by recursion over a tree, `WithoutMetadata` and
`ContainsText` do to every leaf. An object without fields is thus the same as
none, which no property tells apart. `Revision` is what is hashed, the sorted
bindings and the leaves of the rest; equal hashes are taken for equal contents,
and sorted lists are the same when they are the same bag.

### ManagedMaterial and the code

A certificate is a record of what the code asks it: its key, who signed it,
whether it is a CA, its validity and the metadata ACOS shows. `Accepted` is
`ParseCertificateBundle`, `Current` is `validateForSync`, `Managed` is
`managedNamesForPrefix`. A file name is a sequence of words. That is coarser than
characters: two prefixes that differ only in how a separator is placed are one
here, so more names clash than in the code, not fewer. A digest is a word no
prefix has. The calls run one after the other, which is what `managedMu`
provides for one `Client`, and each may fail, be killed or have its rollback
cut short; deletes in between leave any part of a bundle. The module is why
`CertSync` may let a name stand for its content.

### CommandLine and the code

`Program` lists the requests of a changing command in order; a command is an
authentication, the version check unless it only reads, its requests up to the
first error, and a logoff whose error joins the command's (`main.go:500`).
`Request` is one of them with everything the appliance may answer.
`ReadTemplate`, `FindCertificate` and `FindKey` are `GetManagedCertificateState`
as `status` calls it. A shell goes on to its next command after exit code zero
and repeats a failed one. Bindings need their files and an import without
`--replace` never overwrites. A request that got no answer is `late` while its
shell stands at the command; when the shell begins anew after a kill or a logoff
that failed, it is `stray`, and `LandStray` may carry it out at any moment until a
reboot.

`sync` is a caller of `CertSync` with a `Client` of its own (run `Replicas`); `vip`
and `find-domain` are in `Discovery`; the other listings are one reading request,
`show`.

### Discovery and the code

`Denoted` says which address a text means, as `netip.ParseAddr` would, so that
spellings of one address, and an IPv4 address mapped into IPv6, can be told
apart from different addresses. A DNS name is the sequence of its characters;
white space, which the code trims first, is left out, and labels are not empty.
Somebody reconfigures the appliance between two lookups. `Serves` and `Covers`
state the intended answers independently of the code's string operations.

## Runs

| run | instance | what it shows |
|---|---|---|
| `Alone` | one caller, two templates; sole slot, one of several, empty slot, pre-staging, `NoWriteMemory`, pinned revision; 2 faults, 1 reboot, 1 crash, retries | success means rotated, rolled back means restored, cleanup spares what a reboot needs, nothing dangles, and all of it refines `CertificateStore`, until a request of an ended call comes in |
| `Shared` | two goroutines of one `Client`, same bundle to two templates, or one stages it; 1 fault, 1 reboot, 1 crash | the mutex serialises them; the second one's cleanup removes exactly the leftovers; staged material survives the rotation that uses it, whatever comes in late but a delete; every call that is retried converges |
| `Operators` | one caller that keeps old files, 2 GUI edits at any moment, 2 faults | conflicts stop the call, a pinned call goes on only from what its own requests make of its revision, nothing dangles unless a delete of an ended call comes in |
| `Separate` | two goroutines as in `Shared` on one explicit `Session` that is closed at some moment, and a second process that stages another bundle; 1 fault | the session's mutex serialises the two, a report of a rollback is true in either process, staged material survives, and what is cut short refines `CertificateStore` |
| `Session` | three goroutines, every kind of configured partition, managed writes of 2 requests | the session properties and that every call returns |
| `Documents` | two certificates, one with and without the shared flag; four renderings; a reference in one of six places or none | a predicted revision is met exactly when the configuration is as predicted; the scan finds what is in use and nothing else |
| `Material` | three calls, ten inputs (chain in one file or several, renewal with the same key, cross-signed issuer, wrong order, server certificate as issuer, encrypted keys), prefixes that clash once sanitised and truncated, names of 3 words; 2 failures, 1 delete | a completed call keeps its material, names identify bundles, what is staged verifies |
| `Commands` | one shell imports, binds, unbinds and deletes, the other reads status, writes memory and imports another bundle under the same name; 1 fault, 1 kill, 1 reboot, either image | exit code zero is true, no certificate stands beside another bundle's key, `status` misses files only of a slot that has changed, an unsupported image is not changed, and the whole refines `CertificateStore` |
| `Lookups` | two virtual servers with three addresses, five texts asked for; one certificate of six common names, ten domains | both lookups answer what they are asked |
| `Unpersisted`, `Replicas`, `Several` | see below | where documentation and code part |

Every instance is explored completely: `Lookups` and `Session` have some 22,000
distinct states, `Shared` 183,000, `Commands` 296,000, `Documents` 315,000, `Alone`
366,000, `Operators` 777,000, `Separate` 939,000 and `Material` 1.6 million; none
takes much more than two minutes.

Bounds. Two faults let a rollback itself fail, or a request be lost and then
the logoff, which is what makes it stray. What a third would add, a rollback whose delete and
whose logoff both fail, the crash shows as well. In `Shared` and `Separate` the one
fault becomes stray through the crash or the end of a call on the explicit
`Session`. One reboot and one crash can fall at every request, and a retry
follows each. Two callers are what a mutex or a lost race needs; two templates
give every cleanup somebody else's reference to respect. Two GUI edits can
change and change back, or unbind what a reference needs. Three goroutines give
a closing one two others that overlap for ever. Three calls of
`ManagedMaterial` are one that leaves something behind, one that meets it, and
one that follows with another prefix; two shells, each with an import under the
same name, are what a mixed pair needs. A list of two entries has every order,
and a field in an object in a list in an object is as deep as the scan has to
look. `call` limits how
often callers start afresh; retries are not limited. In `Shared` and
`Separate` the callers and templates are not interchangeable, so no symmetry is
used.

A rotation with `CleanupOld` and a GUI user who starts to use an old file
between the scan and the delete would dangle; the documentation says so
(`README.md:192`), and the runs with GUI edits in the middle of a call keep old
files.

A request whose call is over may take effect during a later one, which has then
no means to notice: on an explicit `Session`, where no logoff lies in between
(`sync.go:648`), after a logoff that failed, and after a crash. It may unbind what
a retry has just found bound, or delete files a retry has found and bound
(`ReconciledServes`, below). Hence two kinds of guards in the properties.
`landed = {}` (`NoDanglingReference`, `CompletedMeansRotated`,
`RolledBackMeansRestored`, `CleanupSparesStartup`, `ImplementsStore`) means until
such a request is carried out: what calls promise while requests are lost, late
within their call, or stray and still outstanding. `"delete" \notin landed`
(`KeptReferencesStay`, `StagedMaterialStays`) is weaker: stray uploads, binds,
unbinds and writes may come in at any moment, in any order. `TypeOK`,
`ManagedWritesExclusive`, `NothingLeftBehind`, `Converges`, `ConflictStops` and
`PinnedCourse` have no such guard. On an explicit `Session` a call may meet what
an earlier one left in doubt without any fault of its own, so
`CompletedMeansRotated` is claimed only for sessions a `Client` opens per call.

`Material` switches off the deadlock check: when the budget of calls
is spent and the clock stands at its bound, nothing is left to do. The
`NameLimit` of 3 words makes both the name of a certificate and that of a chain
subject to truncation. `KeyComesFirst` speaks of names that nobody replaces and
whose key nobody deletes; with `--replace` the pair is inconsistent between two
requests, and aXAPI offers nothing better. `ExitZeroIsDone` speaks of commands
that are `Uncontested`: no request of a command in another shell's script, and
none of an earlier command in the own script, undoes one of theirs (`Undoes`), so
that it does not matter when those requests come in. What undoes what is meant
precisely: an upload of other content with `--replace` undoes an upload, one
without does not, since it is refused where a file is. The requests of the
command's own earlier attempts may come in at any time. Another shell's delete of
a name that is imported makes the import contested: it may land between the upload
and the import's logoff.

### Where documentation and code part

* `Unpersisted`. The write happens only when this call changed something
  (`sync.go:558`). A call that dies between bind and write is reconciled by one
  that finds nothing to change: it completes and never writes. A reboot then
  undoes the rotation. `sync.go:39` and `sync.go:335` promise otherwise.
* `Replicas`. Two processes, one template, the same bundle, no failure. The
  first uploads; the second finds the files and binds them; the first sees the
  conflict before its bind, and its deferred rollback deletes the files that
  are bound now. `README.md:203` says that a rollback is attempted only when
  the template is the exact state this invocation produced.
* `Several`. With `CurrentCertificate` set, an unbind that took effect without
  an answer makes every later reconciliation fail: the named certificate "is
  not bound", and the desired one, which is, is not looked at
  (`sync.go:740-745`). `sync.go:335` promises convergence.

Six more disagreements have a property that states the promise but no run of
their own. Each is violated when it takes the place of the properties of the
instance named:

* `ReconciledServes` on `Alone`. A logoff that fails leaves the signature valid
  (`client.go:316-319`), and so does a process that dies. The rollback's delete
  gets no answer and the call ends in one of these ways; the retry finds the
  files, binds them and completes; the delete is carried out. `sync.go:335-337`
  says that `ReconcileCertificate` converges an interrupted synchronization by
  reusing files and re-reading the appliance's state.
* `RolledBackLeavesNoUpload` on `Alone`. Only acknowledged uploads are
  remembered (`sync.go:441-446`). If the certificate was stored but the answer
  lost, the rollback deletes the key, verifies the key, and reports
  `RolledBack`, which `sync.go:129` explains as "newly uploaded files were
  restored".
* `ClosedMeansLoggedOff` on `Session`. A failed logoff still sets `closed`; the
  next `Close` returns nil while the signature is valid (`client.go:304`).
* `NumericMeansID` on `Session`. Digits beyond 32 bits are used as the name of a
  partition (`client.go:278`); `client.go:38` says that numeric strings are IDs.
* `EveryFieldCounts` on `Documents`. `Revision` replaces the certificate list of
  the response by bindings of four fields (`state.go:66`), so a field the library
  does not know inside an entry can change without a conflict.
  `README.md:176-178` promises the complete response, unknown fields included.
* `DatesValidated` on `Material`. Only the synchronization looks at validity
  dates (`certificate.go:331`); `import` uploads an expired bundle.
  `docs/API.md:44-46` says that `ParseCertificateBundle` validates them.

### Fairness

`CertSync`: weak fairness of a caller's next step, because every request is
answered or times out; strong fairness of `Lock`, because `sync.Mutex` does not
starve a waiter; weak fairness of `Retry`, because convergence is about callers
that do reconcile. No fairness for the environment: nobody has to crash, edit or
deliver. `SessionLifecycle`: weak fairness of opening and of each goroutine's
step inside a call, strong fairness of the mutexes (`managedMu`, and the one
inside `RWMutex` that orders writers). Nobody has to begin a call. The other
modules state safety only, and no fairness: a shell that repeats a failed
`import` without `--replace` is refused for ever, and nothing promises otherwise.

## Proofs

All of them are about every value of the constants that the named assumptions
allow, and each safety proof has the same shape: an inductive invariant, one
lemma per action, and a last temporal step.

### Calls, whoever else is there

`CertSyncProofs` proves for all callers, clients, templates, names, requests
and bounds:

* `TypeCorrect`: `Spec => []TypeOK`
* `MutualExclusion`: `Spec => []ManagedWritesExclusive`
* `ExpectedRevisionHonoured`: `Spec => PinnedCourse`
* `ConflictsStopTheCall`: `Spec => ConflictStops`

`TypeOK` is not inductive: that a chain upload, a request to retire a binding or
the bind of a rollback is well-formed depends on what the call decided several
requests earlier. `LocalsFit` states that dependency, and `Inv` is the
conjunction of the three. The proof has three layers: each stretch of code
between requests yields an `Outcome` (label and locals that fit); `QueryInv` and
`SendInv` show once that a request keeps `Inv` when both outcomes are such; one
lemma per action applies them.

For the last two `CallShaped` adds what the locals say of each other at each
label (which files a call can have uploaded by then, whether it can have touched
the template, which error and which stage it can carry). It does not mention the
appliance, so it needs no assumption on the others. Both are action properties.
`ConflictStops`: after a conflict the labels that are left are those of the undo
of uploads and the logoff, and what they delete is in `loc.up`. `PinnedCourse`:
the steps that enter the bind, the unbind and the write are the checks
in front of them (`WatchedSteps`, `OwnSteps`), each of which has just read the
template and compared it with `expectedTemplate`, and that is what the requests
sent so far make of the pinned template.

### Calls of one Client

`CertSyncStoreProofs` proves under `Premises`

* `CallsImplementStore`: `ImplementsStore`, the refinement of `CertificateStore`
* `ReferencedMaterialStays`: `[]NoDanglingReference`
* `CleanupWaitsForWrite`: `[]CleanupSparesStartup`
* `SuccessIsRotated`: `[]CompletedMeansRotated`
* `RollbackIsRestored`: `[]RolledBackMeansRestored`, when no name of a chain is
  the name of its certificate (`ChainsApart`)

`Premises`: all callers share a Client, none uses an explicit `Session`, GUI users
edit between calls only, and nothing dangles at the start. That is the
single-writer coordination `README.md:124-126` asks for, and the runs `Alone` and
`Shared` satisfy it. Faults, failed logoffs, requests that come late within their
call, crashes, reboots and retries are unrestricted. The exception stands in the
properties: each speaks of the time until a request is carried out whose call is
over (`landed = {}`), and `ImplementsStore` allows any step afterwards. This
exception is necessary, as `ReconciledServes` shows; that requests are outstanding
in `stray` is no exception. Without coordination the first two are false for a call with
`CleanupOld` (see Runs) and for two Clients (run `Replicas`). `ChainsApart`
excludes a prefix that, truncated to the limit of a name, makes the two names one
(`sync.go:707-709`): the rollback would then delete both files in its first
request, and a chain upload that is late could bring the certificate back.

The invariant is `Inv /\ CallShaped /\ (landed = {} => StoreInv)`; `landed` never
shrinks. `StoreInv` says that both configurations are closed and keep what is in service
bound (`Sound`), that a request in doubt belongs to an open session, and for a
call with a valid signature at each label (`Phase`): which requests may be in
doubt, alone or together (`InDoubt`); whether the template is as the call expects
it or as it found it (`Matching`); that everything the configuration it would
restore refers to was there when it listed the files, so it is not among its
uploads (`Listed`); that the baseline may be restored (`Baseline`); that the
write it got an answer for holds its state (`Saved`); that the scan has not
overlooked a reference (`Scanned`); and what a rollback has taken back
(`TakenBack`). `Pending` is the part a test hardly reaches: a change of the
template is in doubt only when nothing but a write is in doubt with it, because
a call that loses such an answer goes on to read back or to roll back, and never
to a request that a late bind could undo. The refinement follows step by step:
each request in doubt, and each one a call sends, is `Allowed` in the
configuration it meets, and an allowed request is a step of `CertificateStore` or
changes nothing it sees. TLC checks `StoreInv` on `Alone` and `Shared` as well.

### Calls that keep the old files

A cleanup needs the coordination `Premises` asks for. A call without `CleanupOld`
deletes nothing but its own uploads, and `CertSyncStoreProofs` proves that this is
safe without it: `KeptMaterialStays` is `[]KeptReferencesStay` under `Keeping`.
Several processes may work, GUI users may edit, save and begin to use files
between any two requests, and faults, failed logoffs, crashes, reboots and
retries are unrestricted. Late requests are too, those of ended calls included,
with one exception: until a delete of an ended call is carried out. A stray
bind, unbind, upload or write may come in any time.

`Keeping`: no call asks for a cleanup, none uses an explicit `Session`, nothing
dangles at the start, the names a call brings in are not those of the bindings a
GUI user works with, and calls of different Clients differ in their names and
rotate different templates. The run `Operators` satisfies it. The conditions on
names matter: a GUI user may otherwise bind a file the deferred rollback is about to
delete, and so may the call of another process that found the file there and
reuses it (run `Replicas`).

`KeepInv` says for each call with a valid signature what it relies on and what it
owns. It relies on the files of its baseline, on those of any bind it has in
doubt, and, while it goes forward (`Holding`), on what it has found or uploaded of
its bundle (`Stock`): these stay on the appliance (`Relied`). It owns, of the files
of its bundle, those it has not found so far as it has looked, and later its
uploads (`Claimed`). Nothing refers to these but the binding it asks for, in its own
template (`OwnOnly`); what its baseline refers to is on the appliance and is
nobody's claim, so that binding it again is harmless at any time; and whenever the
call may delete its uploads, nothing refers to them and no late bind can
(`Spare`): the bind is in doubt only while the call reads back or logs off (`Hot`), a
delete only while it rolls back or logs off (`Backing`). What a GUI user or another
call does takes none of these files away and adds no reference to a claim
(`Gentle`), so one lemma serves every step that is not the call's own. For the
requests of ended calls it says that the files of a stray bind are on the
appliance and nobody's claim (`BoundBy(stray)`): whoever lists files after that
call finds them, so no rollback deletes them. TLC checks `KeepInv` on the instance
of `Operators` as well.

### Files after several calls

`CertSyncFilesProofs` goes on from `StoreInv` to what one call leaves for the next.

* `StagedStays`: `[](landed = {} => StagedMaterialStays)`, under `Premises` and
  `NobodyRetires`: no rotation that cleans up retires, with the binding it
  replaces, a file that somebody stages. Faults, failed logoffs, crashes and
  retries are unrestricted; the property itself speaks of runs without a reboot.
  TLC checks `StagedMaterialStays` as it is on `Shared` and `Separate`, after stray
  requests other than deletes too.
* `NothingIsLeftBehind`: `[]NothingLeftBehind`, under `Premises` and `TidyPremises`:
  every call cleans up and writes, none only stages; a certificate name stands
  for one binding, and a chain's name is not its certificate's; a file name
  stands for the same files wherever it is used, because the reference scan
  compares names and would keep a certificate for the sake of a key of its name;
  and nothing is left over at the start.

`StagedInv` says of every call in progress that what others have staged is among
the files it has listed, so it is not among its uploads, which are all that a
rollback deletes, early or late. The premise takes care of the cleanup.
`TidyInv` gives, for each label of an undisturbed call, the exact set of files:
what is referenced, with the uploads before the bind and with the files of the
replaced binding after it, less those that the first delete has taken; the
startup configuration is the one before the call until the write and the same as
the running one from then on. A call that is refused halfway (a revision that is
not the expected one, nothing to choose, a name that is taken) takes its uploads
back. `NoneLate` says that in an undisturbed run, in which every logoff is
answered and nobody dies, nothing is ever stray. The instance of `Shared` satisfies
`NobodyRetires`, and `TidyPremises` when nobody only stages.

### Sessions

`SessionLifecycleProofs` proves for any number of goroutines, any inventory and
any length of managed writes `TypeCorrect`, `LogoffSafe` (`LogoffNeverRaces`),
`LoggedOffOnce` (`LogoffOnce`), `PartitionKept` (`RequestsInPartition`) and
`FailedStartClean` (`FailedStartLogsOff`). The invariant says who holds and who
waits for the RWMutex in terms of what each goroutine is doing (`LockHeld`), that
a logoff excludes readers and that neither it nor a request meets a closed
session (`Guarded`), and what each phase of `StartSession` may rely on
(`Started`). `LockHeld` carries the argument: a sent request is a reader, and
a logoff has none.

### Commands

`CommandLineProofs` proves for any shells, scripts, images and bounds
`TypeCorrect` and `KeyComesFirstHolds` (`KeyComesFirst`). Pairs alone are not
inductive: an upload of a certificate may be sent, or be in doubt, while the key
it belongs to is what another shell has put there. The invariant adds that
whoever has come as far as the upload of a certificate, or has left one in
doubt, found or placed its own bundle's key before (`PairInv`). The proof
follows one upload through the ways it can take effect: at once, late, after its
command has ended, at the save of another shell, and across a reboot, which drops
what is in doubt.
`UnsupportedStays` (`UnsupportedUntouched`) rests on `VersionInv`: on an image
that is not ACOS 6, a shell that has a session has not yet passed the version
check or runs a command that only reads, and nothing of it is late; a stray
request could only have been sent under an image that is supported, and the
reboot that changes the image drops it.

`ExitZeroHolds` (`ExitZeroIsDone`) is about requests: `Achieved` is what a request
has done, `Undoes` whether another may take it back, and `AchievedStays` that no
other does. `Doubts` says whose requests may come in: what is late belongs to the
command its shell stands at, what is stray was sent by some shell so far (`Sent`).
Of these, the command's own spare what it has done, those of earlier attempts
included (`RepeatSpares`: an import writes three different files, a delete only
deletes, and write memory is last), and those of other commands do so because it is
uncontested; `DoneStays` puts the two together. So `ExitInv` is inductive: as long
as a command has its session and no error, everything before its place in the
program is achieved, in the startup configuration too once the write is behind it.
A reboot ends the session, so such a command cannot exit with zero.

A delete does not look at references and an unbind does not ask what remains, so
what a script of commands leaves depends on its order. `Orderly` says which
order: the appliance starts without dangling references; each unbind comes after
a bind of another certificate for good, each delete after an unbind for good of
every binding that may use the file. For good means saved, and taken back by no
other command of any shell: a template is rotated once, since a request of an
earlier rotation may be stray when the next one has begun. The script of the run
`Commands` is of this kind (TLC has evaluated `Orderly` and `HandInv` on it). Under
`Orderly`, `CommandLineProofs` proves

* `NothingDangles`: what the templates refer to is there, in both configurations
* `MissingExplained`: `MissingMeansChanged`
* `CommandsImplementStore`: `ImplementsStore`

The invariant `HandInv` carries what an exit code of zero said over the commands
that follow (`Standing`): at line `k`, what an earlier bind or unbind promised
still holds in the running and the startup configuration. It begins with
`CloseDone`, the fact behind `ExitZeroHolds` (`EndStands`), and no request that any
shell may have sent undoes it (`StandsAfter`), whenever it comes in (`Doubts`).
`StepMoves` reduces the steps to the three that matter, a request of some command
(sent, late or stray), the end of a command, a reboot. `Kept` is then the
absence of dangling references, with the bindings bounded by those anybody asks
for; each kind of request is one action of the store (`UploadStores`,
`DeleteStores`, `BindStores`, `UnbindStores`).

### Documents

`TemplateDocumentProofs` proves for any entries, references, generated identifiers
and renderings

* `DocumentsTyped`: `[]TypeOK`
* `RevisionsStandForConfigurations`: `[]RevisionIsConfiguration`
* `ScanIsComplete`: a file that is in use is found, whatever it is called and
  wherever a template names it
* `ScanIsExact`: `[]ScanFindsUses`, when no file has the name of a template or of a
  generated identifier (`NamesApart`)

The invariant `DocInv` says that the list has no entry twice and that the expected
template stands for the believed configuration (`StandsFor`): its bindings are
distinct in the four fields that count and are those of the configuration, and
the rest of its payload is `Known`, the leaves that name files outside the list.
That every rendering has this rest is `DocumentRest`, that it decodes to the list
is `DecodedList`; a prediction keeps it because a binding that is already there is
not added (`WithBindingStandsFor`) and removing by name removes alike from the
sequence and from the set (`WithoutKeeps`, an induction over the loop). Distinct
bindings make the bag a set (`DistinctBag`), and the rest tells what is named
where (`KnownUses`), so equal revisions mean equal configurations. Without
`NamesApart` the scan is not exact: it looks at every text of a response, and
`sync.go:906-909` accepts that an unrelated equal value prevents a deletion.

### Material and lookups

`ManagedMaterialProofs` proves for any bundles, prefixes and bounds
`TypeCorrect`, `CompletedCallHolds` (`CompletedHolds`) and
`NamesIdentifyBundles` (`NamesIdentify`). The invariant `MInv` says that every
place has at most one file (`Unique`), that what a call has listed or uploaded is
still there (`Sighted`, `Own`), and which files it has by the label it stands at
(`Progress`). That a rollback cannot touch another call's files follows from
`Own`: what a call uploaded was absent before it, and the files of completed
calls were not. That names identify is a lemma about names (`Identity`): the
last word of a managed name is the digest, which no truncation reaches, and no
imported name ends in one.

`StagedMaterialVerifies` (`StagedVerifies`) combines the two with what is accepted
as a bundle. `ChainReached` says that a chain each certificate of which signs the
one before it, the leaf first, is within the closure of its leaf under issuers.
The induction is over positions, as the least position that is not reached
(`FirstOf`), because the well-foundedness of the numbers is a first-order fact.
The same argument shows what the loop of `sanitizeName` leaves (`SanitizedTyped`).

`DiscoveryProofs` proves for any servers, ports, templates and spellings of
addresses `TypeCorrect` and `VIPAnswersServed` (`VIPFindsServed`), from two facts
about one port: an address is compared by what it denotes, whichever field it
stands in (`AddressServed`), and a port has at most one of the two references
(`ReferenceServed`). `DomainAnswersCovered` (`DomainsCovered`) shows that the code's
test, a suffix and an equal number of dots, accepts a wildcard for exactly one
label: a common suffix leaves the dots in front of it to be compared, and these
are counted by a bijection onto positions (`SameDepthAfter`), so that a wildcard
has one label there and the domain too.

### Assumptions and limits

Assumptions are the named `ASSUME`s on the constants: the holder of a free lock
is nobody's name, requests, scripts and configurations are well-typed, limits
are numbers, a pinned revision is a template's (`PinAssumption`). In
`CommandLine` the name of a chain is not that of its certificate (it ends in
`-chain`, `main.go:253`). In `Discovery` a name is not empty and a star is not a
dot. In `ManagedMaterial` a chain is a sequence (`ChainAssumption`), a digest is
no word of a prefix (`DigestAssumption`), and the metadata ACOS shows
distinguishes a leaf from its issuer (`MetaAssumption`). TLC evaluates all of
them in the runs.

Only model-checked:

* `RolledBackMeansRestored`, `StagedMaterialStays` and `ImplementsStore` on an
  explicit `Session` and with a second process (run `Separate`), where `Premises`
  does not hold;
* `StagedMaterialStays` after stray requests other than deletes;
* liveness (`Converges`, `CallsReturn`), which the prover does not reach.

## Not modelled

* PEM, X.509 and PKCS#8: the Go library's. A certificate is a record, and a file
  either has its certificates or is not accepted. A key's passphrase decides
  whether a bundle is read; that the appliance keeps a key under an older
  passphrase, or with an older exportable flag, is not followed.
* Validation of characters and lengths of names and selectors, apart from
  sanitising and truncating prefixes.
* URL building, TLS configuration, the decoding of aXAPI errors: pure functions
  whose result is that a request is answered or not. Parsing the ACOS version
  text is one bit, the parsing of a revision's text a value.
* The listings' filters and orders, flag parsing and output of the command line.
* Package documentation has no code.

## Plan

Done: the modules above. What would add most next:

1. Encrypted keys on the appliance, with the passphrase a bind sends, in
   `ManagedMaterial` and in the rollback of `CertSync` (`sync.go:617`).

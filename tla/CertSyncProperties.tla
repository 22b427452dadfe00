---- MODULE CertSyncProperties ----
(***************************************************************************)
(* What a rotation has to guarantee.  A call is judged where it ends, at   *)
(* its logoff, and only while its signature is valid: after a reboot in    *)
(* the middle of a call the appliance is back at an earlier state and the  *)
(* caller gets an error.                                                   *)
(*                                                                         *)
(* A request that is carried out after its call has ended, under a         *)
(* signature nobody ended, hits whatever the next calls have made of the   *)
(* appliance.  The code cannot answer for that (ReconciledServes shows     *)
(* it), so where such a request matters the property says: until then.     *)
(***************************************************************************)
EXTENDS CertSync

(* Every binding anybody may ask for or find. *)
AllBindings ==
    (UNION {{Desired(r) : r \in Requests[c]} : c \in Callers}) \cup OperatorBindings
        \cup UNION {UNION {config.tmpl[t].certs : t \in Templates} : config \in InitialConfigs}

(* Templates that serve a certificate from the beginning. *)
ServingTemplates ==
    {t \in Templates : \A config \in InitialConfigs : config.tmpl[t].certs # {}}

Store == INSTANCE CertificateStore
            WITH live <- running, saved <- startup,
                 Bindings <- AllBindings, InService <- ServingTemplates

----------------------------------------------------------------------------
(* Every variable has its type; the locals of a call are those of the Go   *)
(* function.                                                               *)
TypeOK ==
    /\ running \in Config
    /\ startup \in Config
    /\ sessions \subseteq Callers
    /\ doubt \in [Callers -> SUBSET Message]
    /\ stray \subseteq Message
    /\ landed \subseteq {"upload", "delete", "bind", "unbind", "write"}
    /\ mu \in [Clients -> Callers \cup {NoCaller}]
    /\ pc \in [Callers -> Labels]
    /\ call \in [Callers -> Request]
    /\ loc \in [Callers -> Local]
    /\ used \in [Budget -> Nat]

(* managedMu: of the callers of one Client at most one is between Lock and *)
(* the deferred Unlock, and it is the holder of the mutex.                 *)
ManagedWritesExclusive ==
    \A c \in Callers : Active(c) => mu[ClientOf[c]] = c

(* Until a stray request is carried out, no template refers to material    *)
(* that is not on the appliance, now or after a reboot: the rollbacks and  *)
(* the cleanup delete files without the appliance checking, so they must   *)
(* only meet unreferenced ones ("can never cause referenced material to be *)
(* deleted", sync.go:909).                                                 *)
NoDanglingReference == landed = {} => Store!Closed(running) /\ Store!Closed(startup)

(* Of stray requests only a delete can hurt callers that keep the old      *)
(* files: stray uploads, binds, unbinds and writes come in at any moment,  *)
(* in any order, and still no template refers to material that is gone.    *)
KeptReferencesStay ==
    "delete" \notin landed => Store!Closed(running) /\ Store!Closed(startup)

(* Seen from the appliance every step of every caller, of its rollbacks    *)
(* and of late requests is a step of CertificateStore: bindings come in    *)
(* beside the others or instead of the only one, leave only while another  *)
(* one stays, and files go only when nothing refers to them.  This holds   *)
(* until a stray request is carried out.                                   *)
ImplementsStore == Store!Init /\ [][Store!Next \/ landed' # {}]_(Store!svars)

----------------------------------------------------------------------------
AtEnd(c) == pc[c] = "logoff" /\ c \in sessions

(* The template a completed rotation leaves behind. *)
Rotated(r, l) ==
    LET with == WithBinding(l.base, Desired(r))
    IN  IF Replaces(r, l) THEN WithoutCertificate(with, l.cur.cert) ELSE with

(* A call that ends without an error has exchanged exactly the selected    *)
(* binding for the desired one and touched nothing else of the template;   *)
(* the files are there, and what it wrote to memory is that state.  This   *)
(* is what the stage "complete", "the last fully verified phase", says.    *)
(* A late request of an earlier call may interfere: on an explicit Session *)
(* at any time, otherwise when that call could not log off.                *)
CompletedMeansRotated ==
    landed = {} => \A c \in Callers :
        LET r == call[c]
            l == loc[c]
        IN  AtEnd(c) /\ l.err = "none" /\ ~ OnSession(c) =>
                /\ l.stage = "complete"
                /\ FilesOf(Desired(r)) \subseteq running.files
                /\ l.wrote => FilesOf(Desired(r)) \subseteq startup.files
                /\ ~ r.create => /\ running.tmpl[r.tmpl] = Rotated(r, l)
                                 /\ l.wrote => startup.tmpl[r.tmpl] = Rotated(r, l)

(* RolledBack reports that the template and the files are as before: the   *)
(* template is the baseline, what the call uploaded is gone, and when the  *)
(* write of the new state had been tried, the old one is what a reboot     *)
(* brings back.  Stray requests may undo that.                             *)
RolledBackMeansRestored ==
    landed = {} => \A c \in Callers :
        LET r == call[c]
            l == loc[c]
        IN  AtEnd(c) /\ l.rolled =>
                /\ l.up \cap running.files = {}
                /\ l.mutated \/ l.attempted => l.up \cap startup.files = {}
                /\ ~ r.create => running.tmpl[r.tmpl] = l.base
                /\ l.mutated => startup.tmpl[r.tmpl] = l.base

(* Old files are deleted only after the new binding has been persisted     *)
(* (sync.go:577-579): nothing the startup configuration refers to is about *)
(* to be deleted, unless the caller asked not to write memory.  A stray    *)
(* bind and a stray write could put it back there.                         *)
CleanupSparesStartup ==
    landed = {} => \A c \in Callers :
        LET doomed == IF pc[c] = "deletePair" THEN DoomedPair(call[c], loc[c])
                      ELSE DoomedChain(call[c], loc[c])
        IN  pc[c] \in {"deletePair", "deleteChain"} /\ c \in sessions /\ ~ call[c].noWrite =>
                doomed \cap Store!Refs(startup) = {}

(* A rotation that runs undisturbed leaves nothing behind: when everybody  *)
(* who was asked to clean up has finished, the appliance holds exactly the *)
(* files its templates refer to, also after a reboot.                      *)
Undisturbed == \A b \in {"fault", "edit", "reboot", "crash"} : used[b] = 0

NothingLeftBehind ==
    Undisturbed /\ (\A c \in Callers : pc[c] = "returned" /\ call[c].cleanup /\ ~ call[c].noWrite
                                        /\ ~ call[c].create)
        => running.files = Store!Refs(running) /\ startup = running

(* Material staged ahead stays until somebody retires it, whatever happens *)
(* to the rotations that pick it up: their rollbacks delete only "material *)
(* uploaded by that call" (README.md:123).  Only a stray delete, or a      *)
(* reboot without a write, may take it away.                               *)
StagedMaterialStays ==
    "delete" \notin landed => \A c \in Callers :
        pc[c] = "returned" /\ call[c].create /\ loc[c].err = "none" /\ used["reboot"] = 0 =>
            FilesOf(Desired(call[c])) \subseteq running.files

----------------------------------------------------------------------------
(* Cleanup and persistence stop after a detected conflict: from then on    *)
(* the call changes no template, writes nothing and deletes at most what   *)
(* it has uploaded itself.                                                 *)
ConflictStops ==
    [][\A c \in Callers :
         loc[c].err = "conflict" /\ Active(c) /\ pc'[c] # pc[c] =>
             /\ startup' = startup
             /\ running'.tmpl = running.tmpl
             /\ running.files \ running'.files \subseteq loc[c].up]_vars

(* An expected revision is honoured, request by request: a call that was   *)
(* given one goes on to bind, to unbind the old certificate and to write   *)
(* memory only while the template is what those requests make of exactly   *)
(* the expected state.  An edit at any moment since the caller read the    *)
(* revision, also one between a check and the request that follows it,     *)
(* keeps the call from the next one.                                       *)
PinnedCourse ==
    [][\A c \in Callers :
         LET r == call[c]
             l == loc[c]
             T == running.tmpl[r.tmpl]
             goesTo(label) == pc'[c] = label /\ pc[c] # label
         IN  l.pin # {} =>
               \E P \in l.pin :
                 /\ goesTo("bind") => T = P
                 /\ goesTo("unbind") => T = WithBinding(P, Desired(r))
                 /\ goesTo("persist") => T = Rotated(r, [l EXCEPT !.base = P])]_vars

----------------------------------------------------------------------------
(* A caller that has started, and reconciles after every failure, ends up  *)
(* without an error and with the desired certificate in service, or staged *)
(* when that was all it asked for, once the failures stop.                 *)
Converges ==
    \A c \in Callers :
        pc[c] = "lock" ~>
            /\ pc[c] = "returned"
            /\ loc[c].err = "none"
            /\ FilesOf(Desired(call[c])) \subseteq running.files
            /\ call[c].create \/ Desired(call[c]) \in running.tmpl[call[c].tmpl].certs

----------------------------------------------------------------------------
(* What the documentation says and the code does not keep.                 *)

(* "ReconcileCertificate converges an interrupted synchronization"         *)
(* (sync.go:335), and the zero value of SyncOptions "writes the final      *)
(* running configuration to memory" (sync.go:39): when a call that was not *)
(* told otherwise completes, a reboot keeps the desired binding.           *)
CompletedIsPersisted ==
    \A c \in Callers :
        AtEnd(c) /\ loc[c].err = "none" /\ ~ call[c].noWrite =>
            Desired(call[c]) \in startup.tmpl[call[c].tmpl].certs

(* "ReconcileCertificate converges an interrupted synchronization by       *)
(* reusing immutable checksum-derived material names and re-reading every  *)
(* relevant appliance state" (sync.go:335): the files a completed call has *)
(* bound are there, also when it has found them on the appliance.          *)
ReconciledServes ==
    \A c \in Callers :
        AtEnd(c) /\ loc[c].err = "none" => FilesOf(Desired(call[c])) \subseteq running.files

(* RolledBack reports that "newly uploaded files were restored"            *)
(* (sync.go:129): once no request is in doubt, the appliance holds no file *)
(* of the new bundle that was not there when the call listed the files.    *)
RolledBackLeavesNoUpload ==
    \A c \in Callers :
        AtEnd(c) /\ loc[c].rolled /\ doubt[c] = {} =>
            FilesOf(Desired(call[c])) \cap running.files \subseteq loc[c].seen
====

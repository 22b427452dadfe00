---- MODULE CertSync ----
(***************************************************************************)
(* Client.SyncCertificate of pkg/a10: the rotation of the certificate in   *)
(* a client-SSL template, request by request, with its two rollbacks;      *)
(* Client.CreateManagedCertificate, which stages the material of a         *)
(* rotation to come; the mutex that serialises the calls of one Client;    *)
(* and ReconcileCertificate as the retry of a call that failed.            *)
(*                                                                         *)
(* The appliance is modelled from how the code uses it: a running and a    *)
(* startup configuration, and requests that change them.  A request of a   *)
(* caller may fail in any way: the answer is lost, the appliance refuses   *)
(* it, or the appliance carries it out later.  A mutating request without  *)
(* a good answer stays "in doubt": it may take effect at any moment until  *)
(* the appliance has answered the logoff of the call that sent it.  When   *)
(* the logoff fails, or the process is killed, nobody ends the signature:  *)
(* such a request is "stray" and may take effect during any later call.    *)
(*                                                                         *)
(* A caller works through its Client, where each call opens and closes a   *)
(* session of its own, or on an explicit Session that other goroutines use *)
(* as well: Session.SyncCertificate and Session.CreateManagedCertificate   *)
(* with the mutex of the Session.  Any of them may close it at any time.   *)
(*                                                                         *)
(* Every step of a caller is one request and the code that runs up to the  *)
(* next one.                                                               *)
(***************************************************************************)
EXTENDS SslTemplate

CONSTANTS
    Callers,            \* goroutines that call SyncCertificate
    Clients,            \* a10.Client values, one per process
    Explicit,           \* those that are one Session, shared by their callers
    ClientOf,           \* the Client a caller uses
    NoCaller,           \* the holder of a free mutex
    Templates,          \* client-SSL template names
    Requests,           \* per caller, the arguments it may pass
    InitialConfigs,     \* the configurations the appliance may start with
    OperatorBindings,   \* the bindings a GUI user may set
    Coordinated,        \* GUI users keep away while a call is in progress
    Foreign,            \* certificate files that hold another certificate
    Limit               \* bounds on what the environment does

Request ==
    [tmpl : Templates, current : Names \cup {NoName}, name : Names,
     chain : Names \cup {NoName}, shared : BOOLEAN,
     cleanup : BOOLEAN, noWrite : BOOLEAN, pinned : BOOLEAN,
     create : BOOLEAN]           \* CreateManagedCertificate: tmpl plays no part

(* server: material server-SSL templates refer to. *)
Config == [tmpl : [Templates -> Template], server : SUBSET File, files : SUBSET File]

Budget == {"fault", "edit", "reboot", "crash", "call"}

ASSUME ClientAssumption == ClientOf \in [Callers -> Clients]
ASSUME ExplicitAssumption == Explicit \subseteq Clients
ASSUME NoCallerAssumption == NoCaller \notin Callers
ASSUME RequestAssumption == Requests \in [Callers -> (SUBSET Request) \ {{}}]

(* CreateOptions have no expected revision. *)
ASSUME PinAssumption == \A c \in Callers : \A r \in Requests[c] : r.create => ~ r.pinned

ASSUME ConfigAssumption == InitialConfigs \subseteq Config
ASSUME OperatorAssumption == OperatorBindings \subseteq Binding /\ Coordinated \in BOOLEAN
ASSUME ForeignAssumption == Foreign \subseteq File
ASSUME LimitAssumption == Limit \in [Budget -> Nat]

VARIABLES
    running,    \* the running configuration
    startup,    \* what write memory saved
    sessions,   \* callers with an open session and a valid aXAPI signature
    doubt,      \* per caller, failed requests that may yet take effect
    stray,      \* those whose call has ended without ending its signature
    landed,     \* history: the operations of stray requests that took effect
    mu,         \* per client, who holds managedMu
    pc,         \* per caller, the request it is about to send
    call,       \* per caller, the arguments of its call
    loc,        \* per caller, the local variables of its call
    used        \* how much of Limit is spent

vars == <<running, startup, sessions, doubt, stray, landed, mu, pc, call, loc, used>>
appliance == <<running, startup, sessions, doubt, stray, landed>>

Stages == {"started", "compatibility-verified", "state-inspected", "material-ready",
           "bound", "old-binding-removed", "cleanup-complete", "persisted",
           "rolled-back", "complete"}

(* conflict: ConflictError.  ambiguous: AmbiguousStateError.  rollback:    *)
(* RollbackError.  slot: no binding, or more than one, to replace.         *)
Errors == {"none", "failed", "slot", "conflict", "ambiguous", "rollback", "logoff", "crashed"}

Rest == {"idle", "returned"}

InCall == {"auth", "version", "inspect", "listCerts", "listKeys", "listInfo",
           "upKey", "upCert", "upChain", "preBind", "bind", "readBack", "verifyBound",
           "preUnbind", "unbind", "postUnbind", "prePersist", "persist",
           "scanClient", "scanServer", "deletePair", "deleteChain", "persistCleanup",
           "rbInspect", "rbBind", "rbReread", "rbUnbind", "rbVerify",
           "undoPair", "undoChain", "undoCerts", "undoKeys", "rbPersist", "logoff",
           "createPersist", "undoPersist"}

Labels == Rest \cup {"lock"} \cup InCall

Active(c) == pc[c] \in InCall

OnSession(c) == ClientOf[c] \in Explicit
UsersOf(k) == {c \in Callers : ClientOf[c] = k}

(* The binding a request asks for. *)
Desired(r) == [cert |-> r.name, key |-> r.name, chain |-> r.chain, shared |-> r.shared]

Idle == [certs |-> {}, extra |-> {}]

Local ==
    [pin : SUBSET Template,      \* ExpectedRevision, empty when not given
     base : Template,            \* template
     cur : Binding \cup {NoBinding},
     exp : Template,             \* expectedTemplate
     seen : SUBSET File,         \* certificateFiles and keyFiles
     info : SUBSET File,         \* certificates (read again by a rollback)
     up : SUBSET File,           \* uploaded
     mutated : BOOLEAN,          \* templateMutated
     bindFailed : BOOLEAN,       \* bindErr
     attempted : BOOLEAN,        \* persistenceAttempted
     changed : BOOLEAN,          \* result.Changed
     wrote : BOOLEAN,            \* result.WroteMemory
     full : BOOLEAN,             \* inside rollbackSynchronization
     rolled : BOOLEAN,           \* result.RolledBack
     refs : SUBSET Names,        \* names the reference scan found
     deleted : SUBSET File,      \* result.DeletedOld
     stage : Stages,             \* result.Stage
     err : Errors]

Fresh(pin) ==
    [pin |-> pin, base |-> Idle, cur |-> NoBinding, exp |-> Idle, seen |-> {}, info |-> {},
     up |-> {}, mutated |-> FALSE, bindFailed |-> FALSE, attempted |-> FALSE, changed |-> FALSE,
     wrote |-> FALSE, full |-> FALSE, rolled |-> FALSE, refs |-> {}, deleted |-> {}, stage |-> "started",
     err |-> "none"]

Init ==
    /\ running \in InitialConfigs
    /\ startup = running
    /\ sessions = {c \in Callers : OnSession(c)}
    /\ doubt = [c \in Callers |-> {}]
    /\ stray = {}
    /\ landed = {}
    /\ mu = [k \in Clients |-> NoCaller]
    /\ pc = [c \in Callers |-> "idle"]
    /\ call = [c \in Callers |-> CHOOSE r \in Requests[c] : TRUE]
    /\ loc = [c \in Callers |-> Fresh({})]
    /\ used = [b \in Budget |-> 0]

Spend(b) ==
    /\ used[b] < Limit[b]
    /\ used' = [used EXCEPT ![b] = @ + 1]

----------------------------------------------------------------------------
(* Requests that change the appliance, and what the appliance makes of     *)
(* them: the set of configurations that may result, empty when it refuses. *)

UploadOf(files) == [op |-> "upload", files |-> files]
DeleteOf(files) == [op |-> "delete", files |-> files]
BindOf(t, b) == [op |-> "bind", tmpl |-> t, binding |-> b]
UnbindOf(t, cert) == [op |-> "unbind", tmpl |-> t, cert |-> cert]
WriteMemory == [op |-> "write"]

Message ==
    [op : {"upload", "delete"}, files : SUBSET File]
        \cup [op : {"bind"}, tmpl : Templates, binding : Binding]
        \cup [op : {"unbind"}, tmpl : Templates, cert : Names]
        \cup {WriteMemory}

(* The certificate-list is keyed by certificate name.  Binding adds an     *)
(* entry, or takes the place of the only one.  Deleting does not look at   *)
(* references: keeping them is the caller's business.                      *)
Results(config, m) ==
    CASE m.op = "upload" -> {[config EXCEPT !.files = @ \cup m.files]}
      [] m.op = "delete" -> {[config EXCEPT !.files = @ \ m.files]}
      [] m.op = "write" -> {config}
      [] m.op = "bind" ->
           LET others == {p \in config.tmpl[m.tmpl].certs : p.cert # m.binding.cert}
               With(rest) == [config EXCEPT !.tmpl[m.tmpl].certs = rest \cup {m.binding}]
           IN  IF ~ FilesOf(m.binding) \subseteq config.files THEN {}
               ELSE {With(others)} \cup (IF Cardinality(config.tmpl[m.tmpl].certs) = 1
                                           THEN {With({})} ELSE {})
      [] m.op = "unbind" ->
           IF Bound(config.tmpl[m.tmpl], m.cert)
             THEN {[config EXCEPT !.tmpl[m.tmpl] = WithoutCertificate(@, m.cert)]}
             ELSE {}

(* The appliance may also refuse to import over an existing file, or to    *)
(* delete one that is not there.                                           *)
MayRefuse(config, m) ==
    \/ m.op = "upload" /\ m.files \cap config.files # {}
    \/ m.op = "delete" /\ ~ m.files \subseteq config.files
    \/ m.op \in {"bind", "unbind"} /\ Results(config, m) = {}

Process(m) ==
    /\ running' \in Results(running, m)
    /\ startup' = IF m.op = "write" THEN running ELSE startup

(* A delete of a certificate and a key may be carried out in part. *)
Parts(m) == IF m.op = "delete" THEN {DeleteOf({f}) : f \in m.files} ELSE {m}

----------------------------------------------------------------------------
(* Steps of a caller.  An outcome is the next request and the local        *)
(* variables once the answer has been looked at.                           *)

Go(label, l) == [at |-> label, loc |-> l]

Take(c, outcome) ==
    /\ pc' = [pc EXCEPT ![c] = outcome.at]
    /\ loc' = [loc EXCEPT ![c] = outcome.loc]

(* A request fails because of the network or the appliance, or because the *)
(* signature is no longer valid.                                           *)
Breaks(c) == IF c \in sessions THEN Spend("fault") ELSE UNCHANGED used

(* A request that reads: ok is the outcome of the answer, bad of an error. *)
Query(c, label, ok, bad) ==
    /\ pc[c] = label
    /\ \/ c \in sessions /\ UNCHANGED used /\ Take(c, ok)
       \/ Breaks(c) /\ Take(c, bad)
    /\ UNCHANGED <<appliance, mu, call>>

(* A request that changes the appliance. *)
Send(c, label, m, ok, bad) ==
    /\ pc[c] = label
    /\ \/ /\ c \in sessions
          /\ Process(m)
          /\ Take(c, ok)
          /\ UNCHANGED <<doubt, used>>
       \/ /\ c \in sessions
          /\ MayRefuse(running, m)
          /\ Take(c, bad)
          /\ UNCHANGED <<running, startup, doubt, used>>
       \/ /\ Breaks(c)
          /\ doubt' = [doubt EXCEPT ![c] = IF c \in sessions THEN @ \cup Parts(m) ELSE @]
          /\ Take(c, bad)
          /\ UNCHANGED <<running, startup>>
    /\ UNCHANGED <<sessions, stray, landed, mu, call>>

(* The two calls of DeleteMaterial in rollbackUploadedMaterial, then the   *)
(* listings that verify them.                                              *)
Undo(r, l) ==
    IF l.up \cap PairOf(Desired(r)) # {} THEN Go("undoPair", l)
    ELSE IF l.up # {} THEN Go("undoChain", l)
    ELSE Go("undoCerts", l)

(* Mutant: the deferred rollback ignores templateMutated. *)
FailedAlwaysUndoes(r, l, err) ==
    LET e == [l EXCEPT !.err = err, !.full = FALSE] IN
    IF l.up # {} THEN Undo(r, e) ELSE Go("logoff", e)

(* Mutant: every error after the bind starts the full rollback. *)
FailedRollsBackBlindly(r, l, err) ==
    LET e == [l EXCEPT !.err = err, !.full = l.mutated /\ ~ l.full] IN
    IF e.full THEN Go("rbInspect", e)
    ELSE IF l.up # {} /\ ~ l.mutated THEN Undo(r, e) ELSE Go("logoff", e)

(* An error return: the deferred function removes what was uploaded unless *)
(* the template may refer to it already.                                   *)
Failed(r, l, err) ==
    LET e == [l EXCEPT !.err = err, !.full = FALSE] IN
    IF l.up # {} /\ ~ l.mutated THEN Undo(r, e) ELSE Go("logoff", e)

(* Mutant: looks for the known bindings only, not for other changes. *)
RequireBindings(r, l, ok) ==
    IF l.exp.certs \subseteq running.tmpl[r.tmpl].certs THEN ok ELSE Failed(r, l, "conflict")

(* requireTemplateRevision *)
Require(r, l, ok) ==
    IF running.tmpl[r.tmpl] = l.exp THEN ok ELSE Failed(r, l, "conflict")

(* The rotation has an old binding to retire. *)
Replaces(r, l) == l.cur # NoBinding /\ l.cur.cert # r.name

(* Old files deleteUnreferenced removes, given the names it found in use. *)
DoomedPair(r, l) ==
    {f \in PairOf(l.cur) \ PairOf(Desired(r)) : f[2] \notin l.refs}
DoomedChain(r, l) ==
    {f \in ChainOf(l.cur) \ ChainOf(Desired(r)) : f[2] \notin l.refs}

Complete(l) == Go("logoff", [l EXCEPT !.stage = "complete"])

AfterCleanup(r, l) ==
    LET e == [l EXCEPT !.stage = "cleanup-complete"] IN
    IF l.deleted # {} /\ ~ r.noWrite THEN Go("persistCleanup", e) ELSE Complete(e)

(* Mutant: the chain of the old certificate is forgotten. *)
AfterPairForgetsChain(r, l) == AfterCleanup(r, l)

AfterPair(r, l) ==
    IF DoomedChain(r, l) # {} THEN Go("deleteChain", l) ELSE AfterCleanup(r, l)

AfterScan(r, l) ==
    IF DoomedPair(r, l) # {} THEN Go("deletePair", l) ELSE AfterPair(r, l)

Cleanup(r, l) ==
    IF Replaces(r, l) /\ r.cleanup THEN Go("scanClient", l) ELSE Complete(l)

(* Mutant: the cleanup does not wait for the write. *)
AfterOldBindingUnsaved(r, l) == Cleanup(r, l)

AfterOldBinding(r, l) ==
    IF l.changed /\ ~ r.noWrite THEN Go("prePersist", l) ELSE Cleanup(r, l)

OldBindingRemoved(r, l) ==
    AfterOldBinding(r, [l EXCEPT !.changed = TRUE, !.stage = "old-binding-removed"])

(* Mutant: without the check that there is an old binding. *)
AfterBindingUnchecked(r, l, implicit) ==
    IF l.cur.cert = r.name THEN AfterOldBinding(r, l)
    ELSE IF implicit THEN OldBindingRemoved(r, l)
    ELSE Go("preUnbind", l)

(* Mutant: takes every bind for an exchange. *)
AfterBindingTrusting(r, l, implicit) ==
    IF ~ Replaces(r, l) THEN AfterOldBinding(r, l) ELSE OldBindingRemoved(r, l)

(* The desired binding has been read back; implicit says that the          *)
(* appliance put it in the place of the old one.                           *)
AfterBinding(r, l, implicit) ==
    IF ~ Replaces(r, l) THEN AfterOldBinding(r, l)
    ELSE IF l.cur \in l.exp.certs THEN Go("preUnbind", l)
    ELSE IF implicit /\ ~ Bound(l.exp, l.cur.cert) THEN OldBindingRemoved(r, l)
    ELSE Failed(r, l, "conflict")

(* The material is on the appliance; a pre-staging call only saves it. *)
Ready(r, l) ==
    LET e == [l EXCEPT !.stage = "material-ready"] IN
    IF ~ r.create THEN Go("preBind", e)
    ELSE IF l.changed /\ ~ r.noWrite THEN Go("createPersist", e)
    ELSE Complete(e)

(* verifyManagedCertificateCollision: the file has metadata, and it is     *)
(* that of the certificate.                                                *)
Collides(f, l) == f \notin l.info \/ f \in Foreign

AfterCert(r, l) ==
    LET chain == <<"cert", r.chain>> IN
    IF r.chain = NoName THEN Ready(r, l)
    ELSE IF chain \notin l.seen THEN Go("upChain", l)
    ELSE IF Collides(chain, l) THEN Failed(r, l, "failed")
    ELSE Ready(r, l)

AfterKey(r, l) ==
    LET cert == <<"cert", r.name>> IN
    IF cert \notin l.seen THEN Go("upCert", l)
    ELSE IF Collides(cert, l) THEN Failed(r, l, "failed")
    ELSE AfterCert(r, l)

(* Mutant: the key is recorded as uploaded even when it was there. *)
AfterListingClaimsKey(r, l) ==
    LET key == <<"key", r.name>> IN
    IF key \notin l.seen THEN Go("upKey", l) ELSE AfterKey(r, [l EXCEPT !.up = @ \cup {key}])

AfterListing(r, l) ==
    IF <<"key", r.name>> \notin l.seen THEN Go("upKey", l) ELSE AfterKey(r, l)

----------------------------------------------------------------------------
(* Calls. *)

(* A caller may have read the revision it expects beforehand. *)
Invoke(c) ==
    \E r \in Requests[c] :
        /\ pc[c] \in Rest
        /\ Spend("call")
        /\ call' = [call EXCEPT ![c] = r]
        /\ Take(c, Go("lock", Fresh(IF r.pinned THEN {running.tmpl[r.tmpl]} ELSE {})))
        /\ UNCHANGED <<appliance, mu>>

(* ReconcileCertificate after a failure, without an expected revision. *)
Retry(c) ==
    /\ pc[c] = "returned"
    /\ loc[c].err # "none"
    /\ Take(c, Go("lock", Fresh({})))
    /\ UNCHANGED <<appliance, mu, call, used>>

(* Mutant: managedMu is not waited for. *)
LockUnguarded(c) ==
    /\ pc[c] = "lock"
    /\ mu' = [mu EXCEPT ![ClientOf[c]] = c]
    /\ Take(c, Go(IF OnSession(c) THEN "version" ELSE "auth", loc[c]))
    /\ UNCHANGED <<appliance, call, used>>

(* Mutant: the mutex of a Session is free before the call has ended. *)
LockEarlyRelease(c) ==
    /\ pc[c] = "lock"
    /\ mu[ClientOf[c]] = NoCaller
    /\ mu' = [mu EXCEPT ![ClientOf[c]] = IF OnSession(c) THEN NoCaller ELSE c]
    /\ Take(c, Go(IF OnSession(c) THEN "version" ELSE "auth", loc[c]))
    /\ UNCHANGED <<appliance, call, used>>

Lock(c) ==
    /\ pc[c] = "lock"
    /\ mu[ClientOf[c]] = NoCaller
    /\ mu' = [mu EXCEPT ![ClientOf[c]] = c]
    /\ Take(c, Go(IF OnSession(c) THEN "version" ELSE "auth", loc[c]))
    /\ UNCHANGED <<appliance, call, used>>

(* StartSession; on failure the deferred Unlock runs and nothing else. *)
Auth(c) ==
    /\ pc[c] = "auth"
    /\ \/ /\ sessions' = sessions \cup {c}
          /\ Take(c, Go("version", loc[c]))
          /\ UNCHANGED <<mu, used>>
       \/ /\ Spend("fault")
          /\ mu' = [mu EXCEPT ![ClientOf[c]] = NoCaller]
          /\ Take(c, Go("returned", [loc[c] EXCEPT !.err = "failed"]))
          /\ UNCHANGED sessions
    /\ UNCHANGED <<running, startup, doubt, stray, landed, call>>

(* Session.Close and the deferred Unlock; the locals are gone with the     *)
(* call.  An answered logoff ends the signature.  When the logoff fails    *)
(* the Session is closed as well, but on the appliance its signature stays *)
(* valid, and with it what is in doubt.                                    *)
Logoff(c) ==
    /\ pc[c] = "logoff"
    /\ ~ OnSession(c)
    /\ sessions' = sessions \ {c}
    /\ doubt' = [doubt EXCEPT ![c] = {}]
    /\ mu' = [mu EXCEPT ![ClientOf[c]] = NoCaller]
    /\ \E e \in {"none", "logoff"} :
          /\ IF e = "none" THEN c \in sessions /\ UNCHANGED <<stray, used>>
                           ELSE Breaks(c) /\ stray' = stray \cup doubt[c]
          /\ Take(c, Go("returned",
                        [Fresh({}) EXCEPT !.stage = loc[c].stage,
                                          !.err = IF loc[c].err = "none" THEN e ELSE loc[c].err]))
    /\ UNCHANGED <<running, startup, landed, call>>

(* The deferred Unlock of a call on an explicit Session, which goes on:    *)
(* what is in doubt stays so.                                              *)
Unlock(c) ==
    /\ pc[c] = "logoff"
    /\ OnSession(c)
    /\ mu' = [mu EXCEPT ![ClientOf[c]] = NoCaller]
    /\ Take(c, Go("returned", [Fresh({}) EXCEPT !.stage = loc[c].stage, !.err = loc[c].err]))
    /\ UNCHANGED <<appliance, call, used>>

(* What the callers of a client have in doubt. *)
DoubtOf(k) == UNION {doubt[c] : c \in UsersOf(k)}
Settle(k) == doubt' = [c \in Callers |-> IF ClientOf[c] = k THEN {} ELSE doubt[c]]

(* A goroutine closes an explicit Session, with an answered logoff or a    *)
(* failed one.  Close waits for a request that is under way, not for the   *)
(* managed write it belongs to.                                            *)
CloseSession(k) ==
    /\ k \in Explicit
    /\ UsersOf(k) \cap sessions # {}
    /\ sessions' = sessions \ UsersOf(k)
    /\ Settle(k)
    /\ \/ UNCHANGED <<stray, used>>
       \/ Spend("fault") /\ stray' = stray \cup DoubtOf(k)
    /\ UNCHANGED <<running, startup, landed, mu, pc, call, loc>>

----------------------------------------------------------------------------
(* Session.SyncCertificate up to the first change of the template. *)

Version(c) ==
    LET r == call[c]
        l == loc[c]
    IN  Query(c, "version",
              Go(IF r.create THEN "listCerts" ELSE "inspect",
                 [l EXCEPT !.stage = "compatibility-verified"]),
              Failed(r, l, "failed"))

(* Mutant: ExpectedRevision is not compared. *)
UnexpectedNever(l, T) == FALSE

(* ExpectedRevision was given and the template is in another state. *)
Unexpected(l, T) == l.pin # {} /\ T \notin l.pin

Inspect(c) ==
    LET r == call[c]
        l == loc[c]
        T == running.tmpl[r.tmpl]
        choice == SelectCurrent(T, r.current, Desired(r))
        read == [l EXCEPT !.base = T, !.exp = T, !.stage = "state-inspected"]
    IN  Query(c, "inspect",
              IF Unexpected(l, T) THEN Failed(r, read, "conflict")
              ELSE IF choice = {} THEN Failed(r, read, "slot")
              ELSE Go("listCerts", [read EXCEPT !.cur = CHOOSE b \in choice : TRUE]),
              Failed(r, l, "failed"))

StoreFiles(store) == {f \in running.files : f[1] = store}

ListCerts(c) ==
    Query(c, "listCerts",
          Go("listKeys", [loc[c] EXCEPT !.seen = StoreFiles("cert")]),
          Failed(call[c], loc[c], "failed"))

ListKeys(c) ==
    Query(c, "listKeys",
          Go("listInfo", [loc[c] EXCEPT !.seen = @ \cup StoreFiles("key")]),
          Failed(call[c], loc[c], "failed"))

ListInfo(c) ==
    Query(c, "listInfo",
          AfterListing(call[c], [loc[c] EXCEPT !.info = StoreFiles("cert")]),
          Failed(call[c], loc[c], "failed"))

(* Only an acknowledged upload is remembered for the rollback. *)
Uploaded(l, f) == [l EXCEPT !.up = @ \cup {f}, !.changed = TRUE]

UpKey(c) ==
    LET r == call[c]
        f == <<"key", r.name>>
    IN  Send(c, "upKey", UploadOf({f}),
             AfterKey(r, Uploaded(loc[c], f)), Failed(r, loc[c], "failed"))

UpCert(c) ==
    LET r == call[c]
        f == <<"cert", r.name>>
    IN  Send(c, "upCert", UploadOf({f}),
             AfterCert(r, Uploaded(loc[c], f)), Failed(r, loc[c], "failed"))

UpChain(c) ==
    LET r == call[c]
        f == <<"cert", r.chain>>
    IN  Send(c, "upChain", UploadOf({f}),
             Ready(r, Uploaded(loc[c], f)), Failed(r, loc[c], "failed"))

PreBind(c) ==
    LET r == call[c]
        l == loc[c]
    IN  Query(c, "preBind",
              Require(r, l, Go(IF Desired(r) \in l.base.certs THEN "verifyBound" ELSE "bind", l)),
              Failed(r, l, "failed"))

----------------------------------------------------------------------------
(* The change of the template, the write and the cleanup. *)

(* From here on the deferred rollback keeps its hands off the files. *)
Bind(c) ==
    LET r == call[c]
        l == [loc[c] EXCEPT !.mutated = TRUE]
    IN  Send(c, "bind", BindOf(r.tmpl, Desired(r)),
             Go("readBack", l),
             Go("readBack", [l EXCEPT !.bindFailed = TRUE]))

ReadBack(c) ==
    LET r == call[c]
        l == loc[c]
        T == running.tmpl[r.tmpl]
        appended == WithBinding(l.base, Desired(r))
        replaced == WithoutCertificate(appended, l.cur.cert)
        bound == [l EXCEPT !.exp = T, !.changed = TRUE, !.stage = "bound"]
    IN  Query(c, "readBack",
              IF T = appended THEN AfterBinding(r, bound, FALSE)
              ELSE IF Replaces(r, l) /\ T = replaced THEN AfterBinding(r, bound, TRUE)
              ELSE IF ~ l.bindFailed THEN Failed(r, l, "conflict")
              ELSE Failed(r, l, IF T = l.base THEN "failed" ELSE "ambiguous"),
              Failed(r, l, IF l.bindFailed THEN "ambiguous" ELSE "failed"))

VerifyBound(c) ==
    LET r == call[c]
        l == loc[c]
    IN  Query(c, "verifyBound", Require(r, l, AfterBinding(r, l, FALSE)), Failed(r, l, "failed"))

PreUnbind(c) ==
    LET r == call[c]
        l == loc[c]
    IN  Query(c, "preUnbind", Require(r, l, Go("unbind", l)), Failed(r, l, "failed"))

Unbind(c) ==
    LET r == call[c]
        l == loc[c]
    IN  Send(c, "unbind", UnbindOf(r.tmpl, l.cur.cert),
             Go("postUnbind", [l EXCEPT !.exp = WithoutCertificate(@, l.cur.cert)]),
             Failed(r, l, "failed"))

PostUnbind(c) ==
    LET r == call[c]
        l == loc[c]
    IN  Query(c, "postUnbind", Require(r, l, OldBindingRemoved(r, l)), Failed(r, l, "failed"))

PrePersist(c) ==
    LET r == call[c]
        l == loc[c]
    IN  Query(c, "prePersist", Require(r, l, Go("persist", l)), Failed(r, l, "failed"))

(* An error of this write starts rollbackSynchronization. *)
Persist(c) ==
    LET r == call[c]
        l == loc[c]
    IN  Send(c, "persist", WriteMemory,
             Cleanup(r, [l EXCEPT !.wrote = TRUE, !.stage = "persisted"]),
             Go("rbInspect", [l EXCEPT !.full = TRUE]))

(* Mutant: only the rotated template is scanned. *)
ClientNamesOwn(c) == NamesIn(TemplateFiles(running.tmpl[call[c].tmpl]))

(* clientTemplateReferences over all client-SSL templates. *)
ClientNames(c) == UNION {NamesIn(TemplateFiles(running.tmpl[t])) : t \in Templates}

ScanClient(c) ==
    Query(c, "scanClient",
          Go("scanServer", [loc[c] EXCEPT !.refs = ClientNames(c)]),
          Failed(call[c], loc[c], "failed"))

ScanServer(c) ==
    Query(c, "scanServer",
          AfterScan(call[c], [loc[c] EXCEPT !.refs = @ \cup NamesIn(running.server)]),
          Failed(call[c], loc[c], "failed"))

DeletePair(c) ==
    LET r == call[c]
        l == loc[c]
        doomed == DoomedPair(r, l)
    IN  Send(c, "deletePair", DeleteOf(doomed),
             AfterPair(r, [l EXCEPT !.deleted = doomed]),
             Failed(r, l, "failed"))

DeleteChain(c) ==
    LET r == call[c]
        l == loc[c]
        doomed == DoomedChain(r, l)
    IN  Send(c, "deleteChain", DeleteOf(doomed),
             AfterCleanup(r, [l EXCEPT !.deleted = @ \cup doomed]),
             Failed(r, l, "failed"))

PersistCleanup(c) ==
    Send(c, "persistCleanup", WriteMemory,
         Complete(loc[c]),
         Failed(call[c], loc[c], "failed"))

----------------------------------------------------------------------------
(* rollbackSynchronization *)

RemoveDesired(r, l) ==
    IF Bound(running.tmpl[r.tmpl], r.name) THEN Go("rbUnbind", l) ELSE Go("rbVerify", l)

RbInspect(c) ==
    LET r == call[c]
        l == loc[c]
        T == running.tmpl[r.tmpl]
    IN  Query(c, "rbInspect",
              IF T # l.exp THEN Failed(r, l, "rollback")
              ELSE IF ~ Bound(l.base, r.name)
                THEN IF PreviousBinding(l.base, r.current) \subseteq T.certs
                       THEN RemoveDesired(r, l)
                       ELSE Go("rbBind", l)
              ELSE IF Desired(r) \in l.base.certs THEN Go("rbVerify", l)
              ELSE Failed(r, l, "rollback"),
              Failed(r, l, "rollback"))

RbBind(c) ==
    LET r == call[c]
        l == loc[c]
        previous == CHOOSE b \in PreviousBinding(l.base, r.current) : TRUE
    IN  Send(c, "rbBind", BindOf(r.tmpl, previous),
             Go("rbReread", l),
             Failed(r, l, "rollback"))

RbReread(c) ==
    Query(c, "rbReread", RemoveDesired(call[c], loc[c]), Failed(call[c], loc[c], "rollback"))

RbUnbind(c) ==
    LET r == call[c]
        l == loc[c]
    IN  Send(c, "rbUnbind", UnbindOf(r.tmpl, r.name), Go("rbVerify", l), Failed(r, l, "rollback"))

RbVerify(c) ==
    LET r == call[c]
        l == loc[c]
    IN  Query(c, "rbVerify",
              IF running.tmpl[r.tmpl] = l.base THEN Undo(r, l) ELSE Failed(r, l, "rollback"),
              Failed(r, l, "rollback"))

RbPersist(c) ==
    LET r == call[c]
        l == loc[c]
    IN  Send(c, "rbPersist", WriteMemory,
             Failed(r, [l EXCEPT !.rolled = TRUE, !.stage = "rolled-back"], "failed"),
             Failed(r, l, "rollback"))

(* rollbackUploadedMaterial, called from the deferred function or from     *)
(* rollbackSynchronization.                                                *)

UndoFailed(r, l) ==
    IF l.full THEN Failed(r, l, "rollback") ELSE Go("logoff", [l EXCEPT !.err = "rollback"])

(* Mutant: the restored baseline is not written to memory. *)
UndoneUnsaved(l) == Go("logoff", [l EXCEPT !.rolled = TRUE, !.stage = "rolled-back"])

Undone(l) ==
    IF l.full THEN Go("rbPersist", l)
    ELSE IF l.attempted THEN Go("undoPersist", l)
    ELSE Go("logoff", [l EXCEPT !.rolled = TRUE, !.stage = "rolled-back"])

UndoPair(c) ==
    LET r == call[c]
        l == loc[c]
        pair == PairOf(Desired(r))
    IN  Send(c, "undoPair", DeleteOf(l.up \cap pair),
             Go(IF l.up \subseteq pair THEN "undoCerts" ELSE "undoChain", l),
             UndoFailed(r, l))

UndoChain(c) ==
    LET r == call[c]
        l == loc[c]
    IN  Send(c, "undoChain", DeleteOf(l.up \ PairOf(Desired(r))),
             Go("undoCerts", l),
             UndoFailed(r, l))

UndoCerts(c) ==
    Query(c, "undoCerts",
          Go("undoKeys", [loc[c] EXCEPT !.info = StoreFiles("cert")]),
          UndoFailed(call[c], loc[c]))

UndoKeys(c) ==
    LET r == call[c]
        l == loc[c]
    IN  Query(c, "undoKeys",
              IF l.up \cap (l.info \cup StoreFiles("key")) = {} THEN Undone(l) ELSE UndoFailed(r, l),
              UndoFailed(r, l))

----------------------------------------------------------------------------
(* The end of Session.CreateManagedCertificate, and of its rollback when   *)
(* that write had been tried.                                              *)

CreatePersist(c) ==
    LET r == call[c]
        l == loc[c]
    IN  Send(c, "createPersist", WriteMemory,
             Complete([l EXCEPT !.wrote = TRUE]),
             Failed(r, [l EXCEPT !.attempted = TRUE], "failed"))

UndoPersist(c) ==
    LET l == loc[c]
    IN  Send(c, "undoPersist", WriteMemory,
             Go("logoff", [l EXCEPT !.rolled = TRUE, !.stage = "rolled-back"]),
             Go("logoff", [l EXCEPT !.err = "rollback"]))

----------------------------------------------------------------------------
(* What happens around the callers. *)

(* A request without a good answer is carried out after all. *)
Deliver(c) ==
    /\ c \in sessions
    /\ \E m \in doubt[c] :
          /\ Process(m)
          /\ doubt' = [doubt EXCEPT ![c] = @ \ {m}]
    /\ UNCHANGED <<sessions, stray, landed, mu, pc, call, loc, used>>

(* So is a request of a call that is over, under the signature it left     *)
(* behind: at any moment, whoever is at work by then.                      *)
Land ==
    /\ \E m \in stray :
          /\ Process(m)
          /\ stray' = stray \ {m}
          /\ landed' = landed \cup {m.op}
    /\ UNCHANGED <<sessions, doubt, mu, pc, call, loc, used>>

(* The process of a client dies: all its calls end where they are, and     *)
(* nobody logs off.                                                        *)
Crash(k) ==
    LET dead == {c \in UsersOf(k) : pc[c] \notin Rest}
    IN  /\ dead # {}
        /\ Spend("crash")
        /\ mu' = [mu EXCEPT ![k] = NoCaller]
        /\ sessions' = sessions \ UsersOf(k)
        /\ Settle(k)
        /\ stray' = stray \cup DoubtOf(k)
        /\ pc' = [c \in Callers |-> IF c \in dead THEN "returned" ELSE pc[c]]
        /\ loc' = [c \in Callers |->
                     IF c \in dead THEN [Fresh({}) EXCEPT !.err = "crashed"] ELSE loc[c]]
        /\ UNCHANGED <<running, startup, landed, call>>

(* The appliance restarts from its startup configuration; it knows no      *)
(* signature any more.                                                     *)
Reboot ==
    /\ Spend("reboot")
    /\ running' = startup
    /\ sessions' = {}
    /\ doubt' = [c \in Callers |-> {}]
    /\ stray' = {}
    /\ UNCHANGED <<startup, landed, mu, pc, call, loc>>

(* A GUI user edits a template, makes something else refer to a file, or   *)
(* saves.  Users work with the material of their own bindings, the GUI     *)
(* offers only files that are there, and nobody leaves a template without  *)
(* a certificate.                                                          *)
OperatorFiles == UNION {FilesOf(b) : b \in OperatorBindings}

OperatorEdit ==
    /\ Coordinated => \A c \in Callers : pc[c] \in Rest
    /\ Spend("edit")
    /\ \/ \E t \in Templates, b \in OperatorBindings :
             /\ running' \in Results(running, BindOf(t, b))
             /\ UNCHANGED startup
       \/ \E t \in Templates, n \in Names :
             /\ \E b \in running.tmpl[t].certs : b.cert # n
             /\ running' \in Results(running, UnbindOf(t, n))
             /\ UNCHANGED startup
       \/ \E f \in OperatorFiles \cap running.files :
             /\ \/ running' = [running EXCEPT !.server = @ \cup {f}]
                \/ \E t \in Templates : running' = [running EXCEPT !.tmpl[t].extra = @ \cup {f}]
             /\ UNCHANGED startup
       \/ startup' = running /\ UNCHANGED running
    /\ UNCHANGED <<sessions, doubt, stray, landed, mu, pc, call, loc>>

Environment ==
    \/ OperatorEdit
    \/ Reboot
    \/ \E k \in Clients : Crash(k) \/ CloseSession(k)
    \/ Land
    \/ \E c \in Callers : Deliver(c)

(* Everybody has gone home. *)
Finished == (\A c \in Callers : pc[c] \in Rest) /\ UNCHANGED vars

Rotate(c) ==
    \/ Version(c) \/ Inspect(c) \/ ListCerts(c) \/ ListKeys(c) \/ ListInfo(c)
    \/ UpKey(c) \/ UpCert(c) \/ UpChain(c)
    \/ PreBind(c) \/ Bind(c) \/ ReadBack(c) \/ VerifyBound(c)
    \/ PreUnbind(c) \/ Unbind(c) \/ PostUnbind(c)
    \/ PrePersist(c) \/ Persist(c)
    \/ ScanClient(c) \/ ScanServer(c) \/ DeletePair(c) \/ DeleteChain(c) \/ PersistCleanup(c)
    \/ CreatePersist(c)

Rollback(c) ==
    \/ RbInspect(c) \/ RbBind(c) \/ RbReread(c) \/ RbUnbind(c) \/ RbVerify(c) \/ RbPersist(c)
    \/ UndoPair(c) \/ UndoChain(c) \/ UndoCerts(c) \/ UndoKeys(c) \/ UndoPersist(c)

Step(c) == Auth(c) \/ Rotate(c) \/ Rollback(c) \/ Logoff(c) \/ Unlock(c)

Next ==
    \/ \E c \in Callers : Invoke(c) \/ Retry(c) \/ Lock(c) \/ Step(c)
    \/ Environment
    \/ Finished

Spec == Init /\ [][Next]_vars

(* Every request is answered or times out, so a call keeps going; a        *)
(* sync.Mutex does not starve a waiter; a failed call is reconciled.       *)
Fairness ==
    \A c \in Callers :
        WF_vars(Step(c)) /\ SF_vars(Lock(c)) /\ WF_vars(Retry(c))

FairSpec == Spec /\ Fairness
====

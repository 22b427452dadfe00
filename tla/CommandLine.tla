---- MODULE CommandLine ----
(***************************************************************************)
(* The commands of a10-certctl (cmd/a10-certctl/main.go): import, bind,    *)
(* unbind, delete and write-memory, status, and the ones that only show.   *)
(* Each invocation is a process with a session of its own; a shell runs a  *)
(* script of them and goes on only after an exit code of zero, but it may  *)
(* run a failed command again.                                             *)
(*                                                                         *)
(* A changing command is a straight line of requests that stops at the     *)
(* first error: Program lists them.  A step is one request with the code   *)
(* up to the next one.  Files have contents here, because import may       *)
(* replace them and keeps a certificate and its key together only by the   *)
(* order of its requests.                                                  *)
(***************************************************************************)
EXTENDS SslTemplate, Sequences

CONSTANTS
    Shells,             \* whoever runs commands, one at a time
    Templates,          \* client-SSL template names
    Bundles,            \* certificate bundles, each with a key of its own
    ChainName,          \* the name of a chain: name + "-chain"
    Absent,             \* the content of a file that is not there
    Scripts,            \* per shell, the commands it runs
    InitialConfigs,     \* the configurations the appliance may start with
    Releases,           \* whether ACOS is 6.x.y, for each image it may boot
    Limit               \* bounds on what the environment does

(* Certificates (chains among them), keys and the CA trust store. *)
Stored == File \cup ({"ca"} \X Names)

Content == [of : Bundles, part : {"certificate", "key", "chain"}]

(* The options of each command; empty names stand for those not given. *)
ImportCommand ==
    [do : {"import"}, name : DOMAIN ChainName, bundle : Bundles, chain : BOOLEAN,
     replace : BOOLEAN, write : BOOLEAN]
BindCommand == [do : {"bind"}, tmpl : Templates, binding : Binding, write : BOOLEAN]
UnbindCommand == [do : {"unbind"}, tmpl : Templates, cert : Names, write : BOOLEAN]
DeleteCommand ==
    [do : {"delete"}, cert : Names \cup {NoName}, key : Names \cup {NoName},
     chain : Names \cup {NoName}, ca : Names \cup {NoName}, write : BOOLEAN]
StatusCommand ==
    [do : {"status"}, tmpl : Templates, current : Names \cup {NoName}, write : {FALSE}]

Command ==
    ImportCommand \cup BindCommand \cup UnbindCommand \cup DeleteCommand \cup StatusCommand
        \cup [do : {"write-memory"}, write : {TRUE}]
        \cup [do : {"preflight", "show"}, write : {FALSE}]

Config == [tmpl : [Templates -> Template], files : [Stored -> Content \cup {Absent}]]

Budget == {"fault", "kill", "reboot"}

ASSUME NamingAssumption ==
    /\ DOMAIN ChainName \subseteq Names /\ ChainName \in [DOMAIN ChainName -> Names]
    /\ \A n \in DOMAIN ChainName : ChainName[n] # n
ASSUME AbsentAssumption == Absent \notin Content
ASSUME ScriptAssumption == Scripts \in [Shells -> Seq(Command)]
ASSUME ConfigAssumption == InitialConfigs \subseteq Config
ASSUME ReleaseAssumption == Releases \subseteq BOOLEAN
ASSUME LimitAssumption == Limit \in [Budget -> Nat]

VARIABLES
    running,    \* the running configuration
    startup,    \* what write memory saved
    supported,  \* whether the image that runs is ACOS 6.x.y
    sessions,   \* shells whose command has a valid signature
    late,       \* per shell, a request without an answer that may yet take effect
    stray,      \* such requests of commands that ended without a logoff
    pc,         \* per shell, the request its command is about to send
    line,       \* per shell, its place in the script
    step,       \* per shell, the place in the command's program
    seen,       \* per shell, the template and the binding status has read
    failed,     \* per shell, the command has met an error
    exit,       \* per shell, the exit code of its last command
    used        \* how much of Limit is spent

appliance == <<running, startup, supported, sessions, late, stray>>
vars == <<appliance, pc, line, step, seen, failed, exit, used>>

Labels == {"idle", "auth", "version", "work", "template", "certificate", "key", "close"}

----------------------------------------------------------------------------
(* The requests of a command, in order. *)

Upload(file, content, replace) ==
    [op |-> "upload", file |-> file, content |-> content, replace |-> replace]
Bind(t, b) == [op |-> "bind", tmpl |-> t, binding |-> b]
Unbind(t, cert) == [op |-> "unbind", tmpl |-> t, cert |-> cert]
Delete(files) == [op |-> "delete", files |-> files]
WriteMemory == [op |-> "write"]
ReadOnly == [op |-> "read"]
Usage == [op |-> "usage"]           \* the error delete returns without any name

Message ==
    [op : {"upload"}, file : Stored, content : Content, replace : BOOLEAN]
        \cup [op : {"bind"}, tmpl : Templates, binding : Binding]
        \cup [op : {"unbind"}, tmpl : Templates, cert : Names]
        \cup [op : {"delete"}, files : SUBSET Stored]
        \cup {WriteMemory, ReadOnly, Usage}

Only(condition, request) == IF condition THEN <<request>> ELSE <<>>

Piece(bundle, part) == [of |-> bundle, part |-> part]

(* Mutant: the certificate goes first. *)
UploadsKeyLast(cmd) ==
    <<Upload(<<"cert", cmd.name>>, Piece(cmd.bundle, "certificate"), cmd.replace),
      Upload(<<"key", cmd.name>>, Piece(cmd.bundle, "key"), cmd.replace)>>
        \o Only(cmd.chain, Upload(<<"cert", ChainName[cmd.name]>>, Piece(cmd.bundle, "chain"), cmd.replace))

Uploads(cmd) ==
    <<Upload(<<"key", cmd.name>>, Piece(cmd.bundle, "key"), cmd.replace),
      Upload(<<"cert", cmd.name>>, Piece(cmd.bundle, "certificate"), cmd.replace)>>
        \o Only(cmd.chain, Upload(<<"cert", ChainName[cmd.name]>>, Piece(cmd.bundle, "chain"), cmd.replace))

(* One request for certificate, key and CA file, another for the chain. *)
Material(cmd) ==
    {f \in {<<"cert", cmd.cert>>, <<"key", cmd.key>>, <<"ca", cmd.ca>>} : f[2] # NoName}

Deletions(cmd) ==
    Only(Material(cmd) # {}, Delete(Material(cmd)))
        \o Only(cmd.chain # NoName, Delete({<<"cert", cmd.chain>>}))
        \o Only(Material(cmd) = {} /\ cmd.chain = NoName, Usage)

Changes(cmd) ==
    CASE cmd.do = "import" -> Uploads(cmd)
      [] cmd.do = "bind" -> <<Bind(cmd.tmpl, cmd.binding)>>
      [] cmd.do = "unbind" -> <<Unbind(cmd.tmpl, cmd.cert)>>
      [] cmd.do = "delete" -> Deletions(cmd)
      [] cmd.do = "show" -> <<ReadOnly>>
      [] OTHER -> <<>>

(* Mutant: write memory comes first. *)
ProgramSavesFirst(cmd) == Only(cmd.write, WriteMemory) \o Changes(cmd)

Program(cmd) == Changes(cmd) \o Only(cmd.write, WriteMemory)

(* Mutant: import does not ask for the version. *)
CompatibleUnlessImport(cmd) == cmd.do \notin {"show", "status", "import"}

(* withCompatibleSession, or withSession alone. *)
Compatible(cmd) == cmd.do \notin {"show", "status"}

----------------------------------------------------------------------------
(* The appliance, as in CertSync: a bind needs its files, gives way to an  *)
(* entry of the same certificate or takes the place of the only entry;     *)
(* deletes do not look at references.  An import never overwrites.         *)

Present(config) == {f \in Stored : config.files[f] # Absent}

Results(config, r) ==
    CASE r.op = "upload" ->
           IF r.replace \/ config.files[r.file] = Absent
             THEN {[config EXCEPT !.files[r.file] = r.content]} ELSE {}
      [] r.op = "bind" ->
           LET others == {b \in config.tmpl[r.tmpl].certs : b.cert # r.binding.cert}
               With(rest) == [config EXCEPT !.tmpl[r.tmpl].certs = rest \cup {r.binding}]
           IN  IF ~ FilesOf(r.binding) \subseteq Present(config) THEN {}
               ELSE {With(others)} \cup (IF Cardinality(config.tmpl[r.tmpl].certs) = 1
                                           THEN {With({})} ELSE {})
      [] r.op = "unbind" ->
           IF Bound(config.tmpl[r.tmpl], r.cert)
             THEN {[config EXCEPT !.tmpl[r.tmpl] = WithoutCertificate(@, r.cert)]} ELSE {}
      [] r.op = "delete" ->
           {[config EXCEPT !.files = [f \in Stored |-> IF f \in r.files THEN Absent ELSE @[f]]]}
      [] r.op = "usage" -> {}
      [] OTHER -> {config}

MayRefuse(config, r) ==
    \/ Results(config, r) = {}
    \/ r.op = "delete" /\ ~ r.files \subseteq Present(config)

Process(r) ==
    /\ running' \in Results(running, r)
    /\ startup' = IF r.op = "write" THEN running ELSE startup

(* What may come of a request without an answer; a delete of several files *)
(* may be carried out in part.                                             *)
Parts(r) ==
    CASE r.op = "delete" -> {Delete({f}) : f \in r.files}
      [] r.op \in {"read", "usage"} -> {}
      [] OTHER -> {r}

----------------------------------------------------------------------------
NothingSeen == [tmpl |-> [certs |-> {}, extra |-> {}], binding |-> NoBinding, missing |-> FALSE]

Init ==
    /\ running \in InitialConfigs
    /\ startup = running
    /\ supported \in Releases
    /\ sessions = {}
    /\ late = [s \in Shells |-> {}]
    /\ stray = {}
    /\ pc = [s \in Shells |-> "idle"]
    /\ line = [s \in Shells |-> 1]
    /\ step = [s \in Shells |-> 1]
    /\ seen = [s \in Shells |-> NothingSeen]
    /\ failed = [s \in Shells |-> FALSE]
    /\ exit = [s \in Shells |-> "none"]
    /\ used = [b \in Budget |-> 0]

Cmd(s) == Scripts[s][line[s]]

Spend(b) ==
    /\ used[b] < Limit[b]
    /\ used' = [used EXCEPT ![b] = @ + 1]

(* A request gets no good answer: the network or the appliance fails, or   *)
(* the signature is no longer valid.                                       *)
Breaks(s) == IF s \in sessions THEN Spend("fault") ELSE UNCHANGED used

Goto(s, label) == pc' = [pc EXCEPT ![s] = label]

Fail(s) == failed' = [failed EXCEPT ![s] = TRUE] /\ Goto(s, "close")

Exit(s, code) ==
    /\ Goto(s, "idle")
    /\ exit' = [exit EXCEPT ![s] = code]
    /\ line' = [line EXCEPT ![s] = IF code = "zero" THEN @ + 1 ELSE @]

(* A shell starts its next command, or a failed one again: main reads the  *)
(* options and the bundle.  What is still in doubt of a command that could *)
(* not log off may take effect at any time: its signature stays valid.     *)
Begin(s) ==
    /\ pc[s] = "idle"
    /\ line[s] <= Len(Scripts[s])
    /\ Goto(s, "auth")
    /\ step' = [step EXCEPT ![s] = 1]
    /\ seen' = [seen EXCEPT ![s] = NothingSeen]
    /\ failed' = [failed EXCEPT ![s] = FALSE]
    /\ stray' = stray \cup late[s]
    /\ late' = [late EXCEPT ![s] = {}]
    /\ exit' = [exit EXCEPT ![s] = "none"]
    /\ UNCHANGED <<running, startup, supported, sessions, line, used>>

(* Mutant: a program of no requests is not over. *)
StartWorking(s) == "work"

(* Where the closure given to withSession begins. *)
Start(s) == IF Program(Cmd(s)) = <<>> THEN "close" ELSE "work"

StartSession(s) ==
    /\ pc[s] = "auth"
    /\ \/ /\ sessions' = sessions \cup {s}
          /\ Goto(s, IF Compatible(Cmd(s)) THEN "version"
                     ELSE IF Cmd(s).do = "status" THEN "template" ELSE Start(s))
          /\ UNCHANGED <<line, exit, used>>
       \/ Spend("fault") /\ Exit(s, "failed") /\ UNCHANGED sessions
    /\ UNCHANGED <<running, startup, supported, late, stray, step, seen, failed>>

VerifyCompatibility(s) ==
    /\ pc[s] = "version"
    /\ \/ /\ s \in sessions
          /\ supported
          /\ Goto(s, Start(s))
          /\ UNCHANGED <<failed, used>>
       \/ s \in sessions /\ ~ supported /\ Fail(s) /\ UNCHANGED used
       \/ Breaks(s) /\ Fail(s)
    /\ UNCHANGED <<appliance, line, step, seen, exit>>

(* The next request of the program. *)
Request(s) ==
    LET r == Program(Cmd(s))[step[s]] IN
    /\ pc[s] = "work"
    /\ \/ /\ s \in sessions
          /\ Process(r)
          /\ Goto(s, IF step[s] = Len(Program(Cmd(s))) THEN "close" ELSE "work")
          /\ step' = [step EXCEPT ![s] = @ + 1]
          /\ UNCHANGED <<late, failed, used>>
       \/ /\ s \in sessions
          /\ MayRefuse(running, r)
          /\ Fail(s)
          /\ UNCHANGED <<running, startup, late, step, used>>
       \/ /\ Breaks(s)
          /\ Fail(s)
          /\ late' = [late EXCEPT ![s] = IF s \in sessions THEN Parts(r) ELSE @]
          /\ UNCHANGED <<running, startup, step>>
    /\ UNCHANGED <<supported, sessions, stray, line, seen, exit>>

(* Mutant: the error of the deferred Close is dropped. *)
CloseQuietly(s) ==
    /\ pc[s] = "close"
    /\ \/ /\ s \in sessions
          /\ sessions' = sessions \ {s}
          /\ late' = [late EXCEPT ![s] = {}]
          /\ UNCHANGED used
       \/ Breaks(s) /\ UNCHANGED <<sessions, late>>
    /\ Exit(s, IF failed[s] THEN "failed" ELSE "zero")
    /\ UNCHANGED <<running, startup, supported, stray, step, seen, failed>>

(* Close, deferred by withSession; its error is joined to the command's.   *)
Close(s) ==
    /\ pc[s] = "close"
    /\ \/ /\ s \in sessions
          /\ sessions' = sessions \ {s}
          /\ late' = [late EXCEPT ![s] = {}]
          /\ Exit(s, IF failed[s] THEN "failed" ELSE "zero")
          /\ UNCHANGED used
       \/ Breaks(s) /\ Exit(s, "failed") /\ UNCHANGED <<sessions, late>>
    /\ UNCHANGED <<running, startup, supported, stray, step, seen, failed>>

----------------------------------------------------------------------------
(* status: GetManagedCertificateState reads the template, then the         *)
(* certificates, then the keys.                                            *)

(* Mutant: a slot of several gives any of its bindings. *)
SelectTargetAny(t, current) ==
    IF current # NoName THEN {b \in t.certs : b.cert = current}
    ELSE IF t.certs = {} THEN {NoBinding}
    ELSE t.certs

SelectTarget(t, current) ==
    IF current # NoName THEN {b \in t.certs : b.cert = current}
    ELSE IF t.certs = {} THEN {NoBinding}
    ELSE IF Cardinality(t.certs) = 1 THEN t.certs
    ELSE {}

Look(s) ==
    /\ s \in sessions
    /\ UNCHANGED <<appliance, line, step, exit, used>>

Blind(s, label) ==
    /\ pc[s] = label
    /\ Breaks(s)
    /\ Fail(s)
    /\ UNCHANGED <<appliance, line, step, seen, exit>>

ReadTemplate(s) ==
    LET t == running.tmpl[Cmd(s).tmpl]
        choice == SelectTarget(t, Cmd(s).current)
    IN  \/ /\ pc[s] = "template"
           /\ Look(s)
           /\ \E b \in choice :
                 /\ seen' = [seen EXCEPT ![s].tmpl = t, ![s].binding = b]
                 /\ Goto(s, IF b = NoBinding THEN "close" ELSE "certificate")
           /\ UNCHANGED failed
        \/ /\ pc[s] = "template"
           /\ Look(s)
           /\ choice = {}
           /\ Fail(s)
           /\ UNCHANGED seen
        \/ Blind(s, "template")

(* GetCertificate, GetKey: search the listing for an exact name. *)
Find(s, file, next) ==
    /\ Look(s)
    /\ \/ /\ running.files[file] # Absent
          /\ Goto(s, next)
          /\ UNCHANGED <<seen, failed>>
       \/ /\ running.files[file] = Absent
          /\ seen' = [seen EXCEPT ![s].missing = TRUE]
          /\ Fail(s)

FindCertificate(s) ==
    \/ pc[s] = "certificate" /\ Find(s, <<"cert", seen[s].binding.cert>>, "key")
    \/ Blind(s, "certificate")

(* Mutant: the key is looked for under the name of the certificate. *)
FindKeyOfCertificate(s) ==
    \/ pc[s] = "key" /\ Find(s, <<"key", seen[s].binding.cert>>, "close")
    \/ Blind(s, "key")

FindKey(s) ==
    \/ pc[s] = "key" /\ Find(s, <<"key", seen[s].binding.key>>, "close")
    \/ Blind(s, "key")

----------------------------------------------------------------------------
(* The process is killed; a request it was waiting for stays in doubt. *)
Kill(s) ==
    /\ pc[s] # "idle"
    /\ Spend("kill")
    /\ late' = [late EXCEPT ![s] =
                  IF pc[s] = "work" /\ s \in sessions THEN Parts(Program(Cmd(s))[step[s]]) ELSE @]
    /\ Exit(s, "failed")
    /\ UNCHANGED <<running, startup, supported, sessions, stray, step, seen, failed>>

Land(s) ==
    /\ s \in sessions
    /\ \E r \in late[s] :
          /\ Process(r)
          /\ late' = [late EXCEPT ![s] = @ \ {r}]
    /\ UNCHANGED <<supported, sessions, stray, pc, line, step, seen, failed, exit, used>>

(* A request of an earlier attempt or an earlier command takes effect.     *)
LandStray ==
    /\ \E r \in stray : Process(r) /\ stray' = stray \ {r}
    /\ UNCHANGED <<supported, sessions, late, pc, line, step, seen, failed, exit, used>>

(* The appliance restarts, perhaps with another image. *)
Reboot ==
    /\ Spend("reboot")
    /\ running' = startup
    /\ supported' \in Releases
    /\ sessions' = {}
    /\ late' = [s \in Shells |-> {}]
    /\ stray' = {}
    /\ UNCHANGED <<startup, pc, line, step, seen, failed, exit>>

Finished ==
    /\ \A s \in Shells : pc[s] = "idle" /\ line[s] > Len(Scripts[s])
    /\ UNCHANGED vars

Run(s) ==
    \/ Begin(s) \/ StartSession(s) \/ VerifyCompatibility(s) \/ Request(s) \/ Close(s)
    \/ ReadTemplate(s) \/ FindCertificate(s) \/ FindKey(s)

Next ==
    \/ \E s \in Shells : Run(s) \/ Kill(s) \/ Land(s)
    \/ LandStray
    \/ Reboot
    \/ Finished

Spec == Init /\ [][Next]_vars

----------------------------------------------------------------------------
(* Every variable has its type. *)
TypeOK ==
    /\ running \in Config /\ startup \in Config
    /\ supported \in BOOLEAN
    /\ sessions \subseteq Shells
    /\ late \in [Shells -> SUBSET Message]
    /\ stray \subseteq Message
    /\ pc \in [Shells -> Labels]
    /\ line \in [Shells -> Nat \ {0}]
    /\ step \in [Shells -> Nat \ {0}]
    /\ seen \in [Shells -> [tmpl : Template, binding : Binding \cup {NoBinding}, missing : BOOLEAN]]
    /\ failed \in [Shells -> BOOLEAN]
    /\ exit \in [Shells -> {"none", "zero", "failed"}]
    /\ used \in [Budget -> Nat]
    /\ \A s \in Shells :
          /\ pc[s] # "idle" => line[s] \in DOMAIN Scripts[s]
          /\ pc[s] = "work" => step[s] \in DOMAIN Program(Cmd(s))

Issued == UNION {{Scripts[s][i] : i \in DOMAIN Scripts[s]} : s \in Shells}

Paired(config, n) ==
    config.files[<<"cert", n>>] # Absent =>
        \E b \in Bundles :
            /\ config.files[<<"cert", n>>] = Piece(b, "certificate")
            /\ config.files[<<"key", n>>] = Piece(b, "key")

(* Names that hold pairs, and of which nobody replaces a part, deletes the *)
(* key or makes a chain.                                                   *)
Immutable(n) ==
    /\ \A config \in InitialConfigs : Paired(config, n)
    /\ \A cmd \in Issued :
          /\ cmd.do = "import" =>
                ~ (cmd.name = n /\ cmd.replace) /\ ~ (cmd.chain /\ ChainName[cmd.name] = n)
          /\ cmd.do = "delete" => cmd.key # n

(* import uploads two files in two requests, and several shells may import *)
(* different bundles under one name at once, fail between the requests and *)
(* try again: still no certificate ever stands beside the key of another   *)
(* bundle, or alone, now or after a reboot.                                *)
KeyComesFirst ==
    \A n \in Names : Immutable(n) => Paired(running, n) /\ Paired(startup, n)

(* What a command promises, in a configuration. *)
Fulfilled(cmd, config) ==
    CASE cmd.do = "import" ->
           \A i \in DOMAIN Uploads(cmd) :
              config.files[Uploads(cmd)[i].file] = Uploads(cmd)[i].content
      [] cmd.do = "bind" -> cmd.binding \in config.tmpl[cmd.tmpl].certs
      [] cmd.do = "unbind" -> ~ Bound(config.tmpl[cmd.tmpl], cmd.cert)
      [] cmd.do = "delete" ->
           (Material(cmd) \cup {<<"cert", n>> : n \in {cmd.chain} \ {NoName}})
               \cap Present(config) = {}
      [] OTHER -> TRUE

(* Whether request m undoes what r has done.  An upload that does not      *)
(* replace is refused where a file is.                                     *)
Undoes(m, r) ==
    \/ r.op = "upload" /\ m.op = "upload" /\ m.file = r.file /\ m.replace /\ m.content # r.content
    \/ r.op = "upload" /\ m.op = "delete" /\ r.file \in m.files
    \/ r.op = "delete" /\ m.op = "upload" /\ m.file \in r.files
    \/ r.op = "bind" /\ m.op = "bind" /\ m.tmpl = r.tmpl /\ m.binding # r.binding
    \/ r.op = "bind" /\ m.op = "unbind" /\ m.tmpl = r.tmpl /\ m.cert = r.binding.cert
    \/ r.op = "unbind" /\ m.op = "bind" /\ m.tmpl = r.tmpl /\ m.binding.cert = r.cert

Disturbs(other, cmd) ==
    \E i \in DOMAIN Program(other), j \in DOMAIN Program(cmd) :
        Undoes(Program(other)[i], Program(cmd)[j])

(* Nobody else, and nothing earlier in the script, works against the       *)
(* command.                                                                *)
Uncontested(s) ==
    \A q \in Shells : \A i \in DOMAIN Scripts[q] :
        (q = s => i < line[s]) => ~ Disturbs(Scripts[q][i], Cmd(s))

(* Exit code zero: whatever failed, landed late or rebooted before, and    *)
(* however many requests of earlier attempts come in meanwhile, the        *)
(* command's work is on the appliance, and saved unless that was declined, *)
(* as long as no other command has done the opposite.                      *)
ExitZeroIsDone ==
    [][\A s \in Shells :
          exit[s] # "zero" /\ exit'[s] = "zero" /\ Uncontested(s) =>
              /\ Fulfilled(Cmd(s), running)
              /\ Cmd(s).write => Fulfilled(Cmd(s), startup)]_vars

(* "MutatingCommandRejectsUnsupportedMajorBeforeMutation" (main_test.go),  *)
(* also when the appliance comes up with another image in the middle of a  *)
(* command: only a reboot changes an appliance that is not ACOS 6.         *)
UnsupportedUntouched ==
    [][supported \/ (startup' = startup /\ running' \in {running, startup})]_vars

(* status reports a missing file only of a slot that has changed since it  *)
(* was read, on an appliance where nothing refers to missing files.        *)
MissingMeansChanged ==
    [][\A s \in Shells :
          ~ seen[s].missing /\ seen'[s].missing =>
              seen[s].binding \notin running.tmpl[Cmd(s).tmpl].certs]_vars

(* A rotation by hand, import, bind, unbind and delete in a row and each   *)
(* only after the success of the last, does to the appliance only what     *)
(* CertificateStore allows, like the rotation in one call.                 *)
AllBindings ==
    {cmd.binding : cmd \in {c \in Issued : c.do = "bind"}}
        \cup UNION {UNION {config.tmpl[t].certs : t \in Templates} : config \in InitialConfigs}

InStore(config) ==
    [tmpl |-> config.tmpl, server |-> {}, files |-> Present(config) \cap File]

Store == INSTANCE CertificateStore
            WITH live <- InStore(running), saved <- InStore(startup),
                 Bindings <- AllBindings, InService <- Templates

ImplementsStore == Store!Spec
====

---- MODULE CertSyncStoreProofs ----
(***************************************************************************)
(* Theorems about what the calls of one Client do to the appliance: seen   *)
(* from there they are steps of CertificateStore, no template ever refers  *)
(* to a file that is gone, and a call that reports success or a rollback   *)
(* tells the truth; and about calls of several Clients that keep the old   *)
(* files, among GUI users.                                                 *)
(***************************************************************************)
EXTENDS CertSyncProofs

(* One process works on the templates with one Client, whose calls open    *)
(* sessions of their own, and GUI users keep away while one is in progress *)
(* ("coordinate these changes externally").                                *)
Premises ==
    /\ \A c, d \in Callers : ClientOf[c] = ClientOf[d]
    /\ Explicit = {}
    /\ Coordinated
    /\ \A config \in InitialConfigs : Store!Closed(config)

----------------------------------------------------------------------------
(* The appliance.                                                          *)

Refs(R) == Store!Refs(R)

Sound(R) ==
    /\ Refs(R) \subseteq R.files
    /\ \A t \in Templates : /\ R.tmpl[t].certs \subseteq AllBindings
                            /\ t \in ServingTemplates => R.tmpl[t].certs # {}

(* Another certificate than n is bound where one must be. *)
Kept(R, t, n) == t \in ServingTemplates => \E p \in R.tmpl[t].certs : p.cert # n

(* A request that does no harm, whenever the appliance carries it out. *)
Allowed(R, m) ==
    /\ m.op = "delete" => m.files \cap Refs(R) = {}
    /\ m.op = "bind" => m.binding \in AllBindings
    /\ m.op = "unbind" => Kept(R, m.tmpl, m.cert)

Changing == {"bind", "unbind"}

(* Nor do several of them: a change of the template is in doubt only when  *)
(* nothing but a write is in doubt with it.                                *)
Pending(R, q) ==
    /\ \A m \in q : Allowed(R, m)
    /\ \A m, n \in q : m.op \in Changing /\ n # m => n.op = "write"

----------------------------------------------------------------------------
(* What a call with a valid signature can rely on, as long as nobody else  *)
(* changes the appliance: r, at and l are its arguments, its label and its *)
(* locals, R and S the running and the startup configuration, and q the    *)
(* requests in doubt.                                                      *)

(* The template is as the call knows it. *)
Following == (Forward \ (Opening \cup {"readBack"} \cup Restoring \cup Staging)) \cup {"rbInspect"}

(* The template is the baseline, and what was uploaded may go. *)
Reverted == Undoing \cup {"rbPersist"}

RolledBack(at, l) == at = "logoff" /\ l.rolled
Completed(at, l) == at = "logoff" /\ l.err = "none"

(* Late uploads bring back nothing the call takes back; a chain of the     *)
(* same name as the certificate would.                                     *)
Harmless(r, l, q) ==
    \A m \in q : /\ m.op \in {"write", "upload"}
                 /\ m.op = "upload" /\ r.chain # r.name => m.files \cap l.up = {}

InDoubt(r, at, l, R, q) ==
    /\ Pending(R, q)
    /\ at \in Forward \ (Restoring \cup {"readBack"}) => q = {}
    /\ at = "readBack" => q \subseteq {BindOf(r.tmpl, Desired(r))}
    /\ at = "readBack" /\ q # {} => R.tmpl[r.tmpl] = l.base
    /\ at \in Restoring \ {"rbPersist"} => q \subseteq {WriteMemory}
    /\ at \in Reverted \cup {"undoPersist"} \/ RolledBack(at, l) => Harmless(r, l, q)
    /\ Completed(at, l) => q = {}

Matching(r, at, l, R) ==
    ~ r.create =>
        /\ at \in Following \/ Completed(at, l) => R.tmpl[r.tmpl] = l.exp
        /\ at \in Reverted \/ RolledBack(at, l) => R.tmpl[r.tmpl] = l.base

(* The configuration the call would restore. *)
Restored(r, l, R) == IF r.create THEN R ELSE [R EXCEPT !.tmpl[r.tmpl] = l.base]

(* What that refers to was there when the call listed the files. *)
Listed(r, at, l, R) ==
    /\ at = "listKeys" => {f \in Refs(Restored(r, l, R)) : f[1] = "cert"} \subseteq l.seen
    /\ at \in (Forward \ (Opening \cup {"listCerts", "listKeys"})) \cup Undoing \cup {"undoPersist"} =>
          Refs(Restored(r, l, R)) \subseteq l.seen
    /\ at \in {"listKeys", "listInfo", "createPersist"} \cup Uploading =>
          l.seen \cup l.up \subseteq R.files
    /\ Completed(at, l) /\ r.create => FilesOf(Desired(r)) \subseteq R.files

Baseline(r, at, l, R) ==
    ~ r.create =>
        /\ at \in Forward \ (Opening \cup {"rbPersist"}) =>
              /\ l.base.certs \subseteq AllBindings
              /\ r.tmpl \in ServingTemplates => l.base.certs # {}
        /\ at \in {"rbReread", "rbUnbind"} => Kept(R, r.tmpl, r.name)

Saved(r, at, l, R, S) ==
    l.wrote /\ (at \in Cleaning \/ Completed(at, l)) =>
        IF r.create THEN FilesOf(Desired(r)) \subseteq S.files
                    ELSE S.tmpl = R.tmpl /\ S.server = R.server

Scanned(at, l, R) ==
    /\ at = "scanServer" => \A t \in Templates : NamesIn(TemplateFiles(R.tmpl[t])) \subseteq l.refs
    /\ at \in {"deletePair", "deleteChain"} => NamesIn(Refs(R)) \subseteq l.refs

TakenBack(r, at, l, R, S) ==
    /\ at \in Undoing \cup {"undoPersist"} => ~ l.rolled
    /\ r.chain # r.name =>
        /\ at = "undoKeys" => {f \in l.up \cap R.files : f[1] = "cert"} \subseteq l.info
        /\ at \in {"rbPersist", "undoPersist"} \/ RolledBack(at, l) => l.up \cap R.files = {}
        /\ RolledBack(at, l) /\ (l.mutated \/ l.attempted) => l.up \cap S.files = {}
    /\ RolledBack(at, l) /\ l.mutated => S.tmpl[r.tmpl] = l.base

Phase(r, at, l, R, S, q) ==
    /\ InDoubt(r, at, l, R, q) /\ Matching(r, at, l, R)
    /\ Listed(r, at, l, R) /\ Baseline(r, at, l, R)
    /\ Saved(r, at, l, R, S) /\ Scanned(at, l, R) /\ TakenBack(r, at, l, R, S)

(* The inductive invariant. *)
StoreInv ==
    /\ Premises
    /\ Sound(running) /\ Sound(startup)
    /\ \A c \in Callers :
          /\ c \in sessions => Active(c) /\ pc[c] # "auth"
          /\ doubt[c] # {} => c \in sessions
          /\ c \in sessions => Phase(call[c], pc[c], loc[c], running, startup, doubt[c])

USE DEF Undoing, Restoring, Opening, Listing, Uploading, Cleaning, Settled, Forward, Rotating,
        Staging, InCall, Rest, Go, Changing, Following, Reverted, RolledBack, Completed

----------------------------------------------------------------------------
(* What the requests do.                                                   *)

(* R2 and S2 are the configurations after the appliance has carried out m. *)
Effect(R, S, m, R2, S2) ==
    /\ R2 \in Results(R, m)
    /\ S2 = IF m.op = "write" THEN R ELSE S

LEMMA InRefs ==
    ASSUME NEW R
    PROVE  \A f : f \in Refs(R) <=> f \in R.server \/ \E t \in Templates : f \in TemplateFiles(R.tmpl[t])
  BY DEF Refs, Store!Refs, Store!TemplateFiles, TemplateFiles, Store!FilesOf, FilesOf,
         Store!PairOf, PairOf, Store!ChainOf, ChainOf

LEMMA EffectTyped ==
    ASSUME NEW R \in Config, NEW S \in Config, NEW m \in Message, NEW R2, NEW S2,
           Effect(R, S, m, R2, S2)
    PROVE  R2 \in Config /\ S2 \in Config
  BY ResultsTyped DEF Effect

LEMMA UploadEffect ==
    ASSUME NEW R \in Config, NEW S, NEW m \in Message, m.op = "upload", NEW R2, NEW S2,
           Effect(R, S, m, R2, S2)
    PROVE  /\ R2.tmpl = R.tmpl /\ R2.server = R.server /\ R2.files = R.files \cup m.files
           /\ S2 = S
  BY DEF Effect, Results, Config

LEMMA DeleteEffect ==
    ASSUME NEW R \in Config, NEW S, NEW m \in Message, m.op = "delete", NEW R2, NEW S2,
           Effect(R, S, m, R2, S2)
    PROVE  /\ R2.tmpl = R.tmpl /\ R2.server = R.server /\ R2.files = R.files \ m.files
           /\ S2 = S
  BY DEF Effect, Results, Config

LEMMA WriteEffect ==
    ASSUME NEW R \in Config, NEW S, NEW m \in Message, m.op = "write", NEW R2, NEW S2,
           Effect(R, S, m, R2, S2)
    PROVE  R2 = R /\ S2 = R
  BY DEF Effect, Results, Config

(* One template is changed, and only its bindings. *)
OneTemplate(R, t, R2) ==
    /\ t \in Templates
    /\ R2.server = R.server /\ R2.files = R.files
    /\ \A u \in Templates \ {t} : R2.tmpl[u] = R.tmpl[u]
    /\ R2.tmpl[t].extra = R.tmpl[t].extra

LEMMA BindEffect ==
    ASSUME NEW R \in Config, NEW S, NEW m \in Message, m.op = "bind", NEW R2, NEW S2,
           Effect(R, S, m, R2, S2)
    PROVE  /\ S2 = S /\ OneTemplate(R, m.tmpl, R2)
           /\ m.binding \in Binding /\ FilesOf(m.binding) \subseteq R.files
           /\ m.binding \in R2.tmpl[m.tmpl].certs
           /\ R2.tmpl[m.tmpl].certs \subseteq R.tmpl[m.tmpl].certs \cup {m.binding}
  <1> DEFINE T == R.tmpl[m.tmpl]
             others == {p \in T.certs : p.cert # m.binding.cert}
             With(rest) == [R EXCEPT !.tmpl[m.tmpl].certs = rest \cup {m.binding}]
  <1>1. m.tmpl \in Templates /\ m.binding \in Binding
    BY DEF Message, WriteMemory
  <1>2. T \in Template /\ R.tmpl \in [Templates -> Template]
    BY <1>1 DEF Config
  <1>3. /\ FilesOf(m.binding) \subseteq R.files
        /\ R2 = With(others) \/ (Cardinality(T.certs) = 1 /\ R2 = With({}))
    BY DEF Effect, Results
  <1>4. S2 = S
    BY DEF Effect
  <1>5. \A rest : rest \subseteq T.certs =>
            /\ With(rest).server = R.server /\ With(rest).files = R.files
            /\ \A u \in Templates \ {m.tmpl} : With(rest).tmpl[u] = R.tmpl[u]
            /\ With(rest).tmpl[m.tmpl].extra = T.extra
            /\ With(rest).tmpl[m.tmpl].certs = rest \cup {m.binding}
    BY <1>1, <1>2 DEF Config, Template
  <1>6. others \subseteq T.certs /\ {} \subseteq T.certs
    OBVIOUS
  <1>7. PICK rest \in SUBSET T.certs : R2 = With(rest)
    BY <1>3, <1>6
  <1> HIDE DEF With
  <1> QED
    BY <1>1, <1>3, <1>4, <1>5, <1>7 DEF OneTemplate

LEMMA UnbindEffect ==
    ASSUME NEW R \in Config, NEW S, NEW m \in Message, m.op = "unbind", NEW R2, NEW S2,
           Effect(R, S, m, R2, S2)
    PROVE  /\ S2 = S /\ OneTemplate(R, m.tmpl, R2)
           /\ Bound(R.tmpl[m.tmpl], m.cert)
           /\ R2.tmpl[m.tmpl] = WithoutCertificate(R.tmpl[m.tmpl], m.cert)
  <1>1. m.tmpl \in Templates
    BY DEF Message, WriteMemory
  <1>2. /\ Bound(R.tmpl[m.tmpl], m.cert) /\ S2 = S
        /\ R2 = [R EXCEPT !.tmpl[m.tmpl] = WithoutCertificate(R.tmpl[m.tmpl], m.cert)]
    BY DEF Effect, Results
  <1>3. R.tmpl[m.tmpl] \in Template
    BY <1>1 DEF Config
  <1> QED
    BY <1>1, <1>2, <1>3, WithoutOf DEF Config, OneTemplate

LEMMA Operations ==
    ASSUME NEW m \in Message
    PROVE  /\ m.op \in {"upload", "delete", "write", "bind", "unbind"}
           /\ m.op = "write" => m = WriteMemory
  BY DEF Message, WriteMemory

(* What a change of one template refers to. *)
LEMMA RefsGrow ==
    ASSUME NEW R, NEW R2, NEW t, NEW F, OneTemplate(R, t, R2),
           TemplateFiles(R2.tmpl[t]) \subseteq TemplateFiles(R.tmpl[t]) \cup F
    PROVE  Refs(R2) \subseteq Refs(R) \cup F
  BY InRefs DEF OneTemplate

LEMMA SameRefs ==
    ASSUME NEW R, NEW R2, R2.server = R.server, R2.tmpl = R.tmpl
    PROVE  Refs(R2) = Refs(R)
  BY DEF Refs, Store!Refs

LEMMA AllowedSound ==
    ASSUME NEW R \in Config, NEW S \in Config, NEW m \in Message, NEW R2, NEW S2,
           Sound(R), Sound(S), Allowed(R, m), Effect(R, S, m, R2, S2)
    PROVE  Sound(R2) /\ Sound(S2)
  <1>1. CASE m.op = "upload"
    <2>1. /\ R2.tmpl = R.tmpl /\ R2.server = R.server /\ R2.files = R.files \cup m.files /\ S2 = S
      BY <1>1, UploadEffect
    <2> QED
      BY <2>1, SameRefs DEF Sound
  <1>2. CASE m.op = "delete"
    <2>1. /\ R2.tmpl = R.tmpl /\ R2.server = R.server /\ R2.files = R.files \ m.files /\ S2 = S
      BY <1>2, DeleteEffect
    <2> QED
      BY <1>2, <2>1, SameRefs DEF Sound, Allowed
  <1>3. CASE m.op = "write"
    BY <1>3, WriteEffect
  <1>4. CASE m.op = "bind"
    <2> DEFINE t == m.tmpl
               b == m.binding
    <2>1. /\ S2 = S /\ OneTemplate(R, t, R2) /\ FilesOf(b) \subseteq R.files
          /\ b \in R2.tmpl[t].certs /\ R2.tmpl[t].certs \subseteq R.tmpl[t].certs \cup {b}
      BY <1>4, BindEffect
    <2>2. TemplateFiles(R2.tmpl[t]) \subseteq TemplateFiles(R.tmpl[t]) \cup FilesOf(b)
      BY <2>1 DEF TemplateFiles, OneTemplate
    <2>3. Refs(R2) \subseteq Refs(R) \cup FilesOf(b)
      BY <2>1, <2>2, RefsGrow
    <2>4. b \in AllBindings
      BY <1>4 DEF Allowed
    <2>5. \A u \in Templates : R2.tmpl[u].certs \subseteq AllBindings
      BY <2>1, <2>4 DEF Sound, OneTemplate
    <2>6. \A u \in Templates : u \in ServingTemplates => R2.tmpl[u].certs # {}
      BY <2>1 DEF Sound, OneTemplate
    <2> QED
      BY <2>1, <2>3, <2>5, <2>6 DEF Sound, OneTemplate
  <1>5. CASE m.op = "unbind"
    <2> DEFINE t == m.tmpl
    <2>1. /\ S2 = S /\ OneTemplate(R, t, R2)
          /\ R2.tmpl[t] = WithoutCertificate(R.tmpl[t], m.cert)
      BY <1>5, UnbindEffect
    <2>2. R.tmpl[t] \in Template
      BY <2>1 DEF Config, OneTemplate
    <2>3. /\ R2.tmpl[t].certs = {p \in R.tmpl[t].certs : p.cert # m.cert}
          /\ R2.tmpl[t].extra = R.tmpl[t].extra
      BY <2>1, <2>2, WithoutOf
    <2>4. TemplateFiles(R2.tmpl[t]) \subseteq TemplateFiles(R.tmpl[t]) \cup {}
      BY <2>3 DEF TemplateFiles
    <2>5. Refs(R2) \subseteq Refs(R)
      BY <2>1, <2>4, RefsGrow
    <2>6. t \in ServingTemplates => R2.tmpl[t].certs # {}
      BY <1>5, <2>3 DEF Allowed, Kept
    <2> QED
      BY <2>1, <2>3, <2>5, <2>6 DEF Sound, OneTemplate
  <1> QED
    BY <1>1, <1>2, <1>3, <1>4, <1>5, Operations

(* Such a request is a step of the store. *)
LEMMA AllowedStep ==
    ASSUME running \in Config, startup \in Config, NEW m \in Message,
           Sound(running), Allowed(running, m), Process(m)
    PROVE  [Store!Next]_(Store!svars)
  <1>0. Effect(running, startup, m, running', startup')
    BY DEF Process, Effect
  <1>1. CASE m.op = "upload"
    <2>1. /\ running' = [running EXCEPT !.files = running.files \cup m.files] /\ startup' = startup
      BY <1>1 DEF Process, Results
    <2> DEFINE F == m.files \ running.files
    <2>2. running' = [running EXCEPT !.files = running.files \cup F]
      BY <2>1
    <2>3. F \in SUBSET (Store!File \ running.files)
      BY <1>1 DEF Message, WriteMemory, Store!File, File
    <2>4. CASE F = {}
      <3>1. running' = running
        BY <2>2, <2>4 DEF Config
      <3> QED
        BY <2>1, <3>1 DEF Store!svars
    <2>5. CASE F # {}
      <3>1. Store!Stage
        BY <2>1, <2>2, <2>3, <2>5 DEF Store!Stage
      <3> QED
        BY <3>1 DEF Store!Next
    <2> QED
      BY <2>4, <2>5
  <1>2. CASE m.op = "delete"
    <2>1. /\ running' = [running EXCEPT !.files = running.files \ m.files] /\ startup' = startup
      BY <1>2 DEF Process, Results
    <2> DEFINE F == m.files \cap running.files
    <2>2. running.files \ m.files = running.files \ F
      OBVIOUS
    <2>3. F \in SUBSET (running.files \ Store!Refs(running))
      BY <1>2 DEF Allowed, Refs
    <2>4. CASE F = {}
      <3>1. running' = running
        BY <2>1, <2>2, <2>4 DEF Config
      <3> QED
        BY <2>1, <3>1 DEF Store!svars
    <2>5. CASE F # {}
      <3>1. Store!Discard
        BY <2>1, <2>2, <2>3, <2>5 DEF Store!Discard
      <3> QED
        BY <3>1 DEF Store!Next
    <2> QED
      BY <2>4, <2>5
  <1>3. CASE m.op = "write"
    <2>1. running' = running /\ startup' = running
      BY <1>0, <1>3, WriteEffect
    <2> QED
      BY <2>1 DEF Store!Next, Store!Save
  <1>4. CASE m.op = "bind"
    <2> DEFINE t == m.tmpl
               b == m.binding
    <2>1. /\ t \in Templates /\ FilesOf(b) \subseteq running.files /\ startup' = startup
      BY <1>0, <1>4, BindEffect DEF OneTemplate
    <2>5. running' \in Results(running, m)
      BY DEF Process
    <2>6. \/ running' = [running EXCEPT !.tmpl[t].certs =
                               {p \in running.tmpl[t].certs : p.cert # b.cert} \cup {b}]
          \/ /\ Cardinality(running.tmpl[t].certs) = 1
             /\ running' = [running EXCEPT !.tmpl[t].certs = {} \cup {b}]
      BY <1>4, <2>1, <2>5 DEF Results
    <2>7. {} \cup {b} = {b}
      OBVIOUS
    <2>2. b \in AllBindings
      BY <1>4 DEF Allowed
    <2>3. Store!FilesOf(b) = FilesOf(b)
      BY DEF Store!FilesOf, FilesOf, Store!PairOf, PairOf, Store!ChainOf, ChainOf
    <2>4. Store!Serve(t) \/ Store!Swap(t)
      <3>1. FilesOf(b) \subseteq running.files /\ startup' = startup /\ Store!FilesOf(b) = FilesOf(b)
        BY <2>1, <2>3
      <3>2. CASE running' = [running EXCEPT !.tmpl[t].certs =
                               {p \in running.tmpl[t].certs : p.cert # b.cert} \cup {b}]
        <4>1. Store!Serve(t)
          BY <2>2, <3>1, <3>2 DEF Store!Serve
        <4> QED BY <4>1
      <3>3. CASE Cardinality(running.tmpl[t].certs) = 1 /\ running' = [running EXCEPT !.tmpl[t].certs = {b}]
        <4>1. Store!Cardinality(running.tmpl[t].certs) = Cardinality(running.tmpl[t].certs)
          BY DEF Store!Cardinality, Cardinality
        <4>2. Store!Swap(t)
          BY <2>2, <3>1, <3>3, <4>1 DEF Store!Swap
        <4> QED BY <4>2
      <3> QED
        BY <2>6, <2>7, <3>2, <3>3
    <2> QED
      BY <2>1, <2>4 DEF Store!Next
  <1>5. CASE m.op = "unbind"
    <2> DEFINE t == m.tmpl
    <2>1. /\ t \in Templates /\ startup' = startup /\ Bound(running.tmpl[t], m.cert)
      BY <1>0, <1>5, UnbindEffect DEF OneTemplate
    <2>6. running' = [running EXCEPT !.tmpl[t] = WithoutCertificate(running.tmpl[t], m.cert)]
      BY <1>5, <2>1 DEF Process, Results
    <2>2. t \notin ServingTemplates \/ \E p \in running.tmpl[t].certs : p.cert # m.cert
      BY <1>5 DEF Allowed, Kept
    <2>3. PICK b \in running.tmpl[t].certs : b.cert = m.cert
      BY <2>1 DEF Bound
    <2>4. \A T, n : Store!WithoutCertificate(T, n) = WithoutCertificate(T, n)
      BY DEF Store!WithoutCertificate, WithoutCertificate
    <2>5. Store!Withdraw(t)
      BY <2>1, <2>2, <2>3, <2>4, <2>6 DEF Store!Withdraw
    <2> QED
      BY <2>1, <2>5 DEF Store!Next
  <1> QED
    BY <1>1, <1>2, <1>3, <1>4, <1>5, Operations

----------------------------------------------------------------------------
(* The continuations of a call, while the appliance stays as it is.        *)

(* An outcome that keeps a call in step with the appliance. *)
Good(r, o, R, S, q) == o.at \in InCall \ {"auth"} /\ Phase(r, o.at, o.loc, R, S, q)

LEMMA FewerInDoubt ==
    ASSUME NEW r, NEW at, NEW l, NEW R, NEW S, NEW q, NEW p \in SUBSET q, Phase(r, at, l, R, S, q)
    PROVE  Phase(r, at, l, R, S, p)
  <1>1. Pending(R, p)
    BY DEF Phase, InDoubt, Pending
  <1>2. InDoubt(r, at, l, R, p)
    BY <1>1 DEF Phase, InDoubt, Harmless
  <1> QED
    BY <1>2 DEF Phase

LEMMA RestoredIs ==
    ASSUME NEW r \in Request, NEW l \in Local, NEW R \in Config
    PROVE  /\ r.create \/ R.tmpl[r.tmpl] = l.base => Restored(r, l, R) = R
           /\ ~ r.create => TemplateFiles(l.base) \subseteq Refs(Restored(r, l, R))
  <1>1. r.tmpl \in Templates /\ R.tmpl \in [Templates -> Template]
    BY DEF Request, Config
  <1>2. R.tmpl[r.tmpl] = l.base => [R EXCEPT !.tmpl[r.tmpl] = l.base] = R
    BY <1>1 DEF Config
  <1>3. ~ r.create => Restored(r, l, R).tmpl[r.tmpl] = l.base
    BY <1>1 DEF Restored, Config
  <1> QED
    BY <1>1, <1>2, <1>3, InRefs DEF Restored

(* Nothing is uploaded for a binding that is there. *)
LEMMA PresentNotUploaded ==
    ASSUME NEW r \in Request, NEW l \in Local, NEW R \in Config, ~ r.create, Common(r, l),
           Refs(Restored(r, l, R)) \subseteq l.seen, Desired(r) \in l.base.certs
    PROVE  l.up = {}
  <1>1. FilesOf(Desired(r)) \subseteq TemplateFiles(l.base)
    BY DEF TemplateFiles
  <1>2. FilesOf(Desired(r)) \subseteq l.seen
    BY <1>1, RestoredIs
  <1> QED
    BY <1>2 DEF Common

(* The files that were uploaded may go. *)
Retractable(r, l, R, q) ==
    /\ ~ r.create => R.tmpl[r.tmpl] = l.base
    /\ Refs(Restored(r, l, R)) \subseteq l.seen
    /\ Harmless(r, l, q)

LEMMA UndoGood ==
    ASSUME NEW r \in Request, NEW l \in Local, NEW R, NEW S, NEW q,
           Pending(R, q), Retractable(r, l, R, q), ~ l.rolled
    PROVE  /\ Good(r, Undo(r, l), R, S, q)
           /\ \A at \in Undoing \ {"undoKeys"} : Phase(r, at, l, R, S, q)
  <1>1. \A at \in Undoing \ {"undoKeys"} : Phase(r, at, l, R, S, q)
    BY DEF Retractable, Phase, InDoubt, Matching, Listed, Baseline, Saved, Scanned, TakenBack
  <1> QED
    BY <1>1 DEF Undo, Good

LEMMA FailedGood ==
    ASSUME NEW r \in Request, NEW l \in Local, NEW R, NEW S, NEW q, NEW err \in Errors \ {"none"},
           Pending(R, q), ~ l.rolled, l.up # {} /\ ~ l.mutated => Retractable(r, l, R, q)
    PROVE  Good(r, Failed(r, l, err), R, S, q)
  <1> DEFINE e == [l EXCEPT !.err = err, !.full = FALSE]
  <1>1. e \in Local
    BY DEF Local
  <1>2. /\ e.err = err /\ e.up = l.up /\ e.mutated = l.mutated /\ e.rolled = l.rolled
        /\ e.base = l.base /\ e.seen = l.seen
    BY DEF Local
  <1>3. Failed(r, l, err) = IF e.up # {} /\ ~ e.mutated THEN Undo(r, e) ELSE Go("logoff", e)
    BY <1>2 DEF Failed
  <1> HIDE DEF e
  <1>4. Restored(r, e, R) = Restored(r, l, R)
    BY <1>2 DEF Restored
  <1>5. Retractable(r, l, R, q) => Retractable(r, e, R, q)
    BY <1>2, <1>4 DEF Retractable, Harmless
  <1>6. e.up # {} /\ ~ e.mutated => Good(r, Undo(r, e), R, S, q)
    BY <1>1, <1>2, <1>5, UndoGood
  <1>7. Phase(r, "logoff", e, R, S, q)
    BY <1>2 DEF Phase, InDoubt, Matching, Listed, Baseline, Saved, Scanned, TakenBack
  <1> QED
    BY <1>3, <1>6, <1>7 DEF Good

(* The error return of a request.  The request itself may be in doubt now. *)
LEMMA ErrorGood ==
    ASSUME NEW r \in Request, NEW l \in Local, NEW R \in Config, NEW S, NEW q, NEW at \in Forward,
           Shape(r, at, l), Phase(r, at, l, R, S, q), NEW err \in Errors \ {"none"},
           NEW p, Pending(R, p), l.up # {} /\ ~ l.mutated => Harmless(r, l, p)
    PROVE  Good(r, Failed(r, l, err), R, S, p)
  <1>1. ~ l.rolled /\ Common(r, l)
    BY DEF Shape, Course, Calm
  <1>2. ASSUME l.up # {}, ~ l.mutated
        PROVE  Retractable(r, l, R, p)
    <2>1. at \notin Opening \cup {"listCerts", "listKeys"}
      BY <1>2 DEF Shape, Course, Untouched
    <2>2. Refs(Restored(r, l, R)) \subseteq l.seen
      BY <2>1 DEF Phase, Listed
    <2>3. ~ r.create => Desired(r) \notin l.base.certs
      BY <1>1, <1>2, <2>2, PresentNotUploaded
    <2>4. ~ r.create => at \in {"listInfo", "preBind", "bind"} \cup Uploading
      BY <1>2, <2>1, <2>3 DEF Shape, Course, Expected
    <2>5. ~ r.create => R.tmpl[r.tmpl] = l.base
      BY <2>4 DEF Shape, Expected, Phase, Matching
    <2> QED
      BY <1>2, <2>2, <2>5 DEF Retractable
  <1> QED
    BY <1>1, <1>2, FailedGood

(* When the request cannot be in doubt, the error return is plain. *)
LEMMA QueryErrorGood ==
    ASSUME NEW r \in Request, NEW l \in Local, NEW R \in Config, NEW S, NEW q, NEW at \in Forward,
           Shape(r, at, l), Phase(r, at, l, R, S, q), NEW err \in Errors \ {"none"}
    PROVE  Good(r, Failed(r, l, err), R, S, q)
  <1>1. Pending(R, q)
    BY DEF Phase, InDoubt
  <1>2. l.up # {} /\ ~ l.mutated => Harmless(r, l, q)
    BY DEF Phase, InDoubt, Harmless, Shape, Expected, WriteMemory, Course
  <1> QED
    BY <1>1, <1>2, ErrorGood

LEMMA CompleteGood ==
    ASSUME NEW r \in Request, NEW l \in Local, NEW R, NEW S, ~ l.rolled,
           IF r.create THEN FilesOf(Desired(r)) \subseteq R.files
                       ELSE R.tmpl[r.tmpl] = l.exp,
           l.wrote => IF r.create THEN FilesOf(Desired(r)) \subseteq S.files
                                  ELSE S.tmpl = R.tmpl /\ S.server = R.server
    PROVE  Good(r, Complete(l), R, S, {})
  <1> DEFINE e == [l EXCEPT !.stage = "complete"]
  <1>1. e.rolled = l.rolled /\ e.exp = l.exp /\ e.wrote = l.wrote
    BY DEF Local
  <1>2. Complete(l) = Go("logoff", e)
    BY DEF Complete
  <1> HIDE DEF e
  <1> QED
    BY <1>1, <1>2 DEF Good, Phase, InDoubt, Pending, Matching, Listed, Baseline, Saved, Scanned, TakenBack

(* The template is as the rotation knows it, and nothing is in doubt. *)
Steady(r, l, R, S, q) ==
    /\ q = {} /\ ~ r.create /\ ~ l.rolled
    /\ R.tmpl[r.tmpl] = l.exp
    /\ Refs(Restored(r, l, R)) \subseteq l.seen
    /\ l.base.certs \subseteq AllBindings
    /\ r.tmpl \in ServingTemplates => l.base.certs # {}
    /\ l.wrote => S.tmpl = R.tmpl /\ S.server = R.server

SteadyLabels ==
    {"preBind", "bind", "verifyBound", "preUnbind", "unbind", "postUnbind", "prePersist", "persist",
     "scanClient", "persistCleanup"}

LEMMA SteadyGood ==
    ASSUME NEW r, NEW l, NEW R, NEW S, NEW q, Steady(r, l, R, S, q), NEW at \in SteadyLabels
    PROVE  Good(r, Go(at, l), R, S, q)
  BY DEF Steady, SteadyLabels, Good, Phase, InDoubt, Pending, Matching, Listed, Baseline, Saved,
         Scanned, TakenBack

LEMMA IsSteady ==
    ASSUME NEW r, NEW l, NEW R, NEW S, NEW q, ~ r.create,
           NEW at \in SteadyLabels \cup {"listInfo", "scanServer", "deletePair", "deleteChain"}
                                   \cup Uploading,
           Shape(r, at, l), Phase(r, at, l, R, S, q)
    PROVE  Steady(r, l, R, S, q)
  <1>1. ~ l.rolled /\ (at \notin Cleaning => ~ l.wrote)
    BY DEF SteadyLabels, Shape, Course, Calm
  <1>2. q = {} /\ R.tmpl[r.tmpl] = l.exp
    BY DEF SteadyLabels, Phase, InDoubt, Matching
  <1>3. /\ Refs(Restored(r, l, R)) \subseteq l.seen
        /\ l.base.certs \subseteq AllBindings
        /\ r.tmpl \in ServingTemplates => l.base.certs # {}
    BY DEF SteadyLabels, Phase, Listed, Baseline
  <1>4. at \in Cleaning /\ l.wrote => S.tmpl = R.tmpl /\ S.server = R.server
    BY DEF Phase, Saved
  <1> QED
    BY <1>1, <1>2, <1>3, <1>4 DEF Steady

LEMMA SteadyCompleteGood ==
    ASSUME NEW r \in Request, NEW l \in Local, NEW R, NEW S, NEW q, Steady(r, l, R, S, q)
    PROVE  Good(r, Complete(l), R, S, q)
  BY CompleteGood DEF Steady

(* The locals that do not matter here. *)
LEMMA StillSteady ==
    ASSUME NEW r, NEW l, NEW e, NEW R, NEW S, NEW q, Steady(r, l, R, S, q),
           e.rolled = l.rolled, e.exp = l.exp, e.base = l.base, e.seen = l.seen, e.wrote = l.wrote
    PROVE  Steady(r, e, R, S, q)
  BY DEF Steady, Restored

LEMMA AfterCleanupGood ==
    ASSUME NEW r \in Request, NEW l \in Local, NEW R, NEW S, NEW q, Steady(r, l, R, S, q)
    PROVE  Good(r, AfterCleanup(r, l), R, S, q)
  <1> DEFINE e == [l EXCEPT !.stage = "cleanup-complete"]
  <1>1. e \in Local
    BY DEF Local, Stages
  <1>2. /\ e.rolled = l.rolled /\ e.exp = l.exp /\ e.base = l.base /\ e.seen = l.seen
        /\ e.wrote = l.wrote
    BY DEF Local
  <1>3. AfterCleanup(r, l) = Go("persistCleanup", e) \/ AfterCleanup(r, l) = Complete(e)
    BY DEF AfterCleanup
  <1> HIDE DEF e
  <1>4. Steady(r, e, R, S, q)
    BY <1>2, StillSteady
  <1>5. Good(r, Go("persistCleanup", e), R, S, q)
    BY <1>4, SteadyGood DEF SteadyLabels
  <1>6. Good(r, Complete(e), R, S, q)
    BY <1>1, <1>4, SteadyCompleteGood
  <1> QED
    BY <1>3, <1>5, <1>6

LEMMA DeleteGood ==
    ASSUME NEW r, NEW l, NEW R, NEW S, NEW q, Steady(r, l, R, S, q),
           NamesIn(Refs(R)) \subseteq l.refs, NEW at \in {"deletePair", "deleteChain"}
    PROVE  Good(r, Go(at, l), R, S, q)
  BY DEF Steady, Good, Phase, InDoubt, Pending, Matching, Listed, Baseline, Saved, Scanned, TakenBack

LEMMA AfterPairGood ==
    ASSUME NEW r \in Request, NEW l \in Local, NEW R, NEW S, NEW q, Steady(r, l, R, S, q),
           NamesIn(Refs(R)) \subseteq l.refs
    PROVE  Good(r, AfterPair(r, l), R, S, q)
  BY DeleteGood, AfterCleanupGood DEF AfterPair

LEMMA AfterScanGood ==
    ASSUME NEW r \in Request, NEW l \in Local, NEW R, NEW S, NEW q, Steady(r, l, R, S, q),
           NamesIn(Refs(R)) \subseteq l.refs
    PROVE  Good(r, AfterScan(r, l), R, S, q)
  BY DeleteGood, AfterPairGood DEF AfterScan

LEMMA CleanupGood ==
    ASSUME NEW r \in Request, NEW l \in Local, NEW R, NEW S, NEW q, Steady(r, l, R, S, q)
    PROVE  Good(r, Cleanup(r, l), R, S, q)
  BY SteadyGood, SteadyCompleteGood DEF Cleanup, SteadyLabels

LEMMA AfterOldBindingGood ==
    ASSUME NEW r \in Request, NEW l \in Local, NEW R, NEW S, NEW q, Steady(r, l, R, S, q)
    PROVE  Good(r, AfterOldBinding(r, l), R, S, q)
  BY SteadyGood, CleanupGood DEF AfterOldBinding, SteadyLabels

LEMMA OldBindingRemovedGood ==
    ASSUME NEW r \in Request, NEW l \in Local, NEW R, NEW S, NEW q, Steady(r, l, R, S, q)
    PROVE  Good(r, OldBindingRemoved(r, l), R, S, q)
  <1> DEFINE e == [l EXCEPT !.changed = TRUE, !.stage = "old-binding-removed"]
  <1>1. e \in Local
    BY DEF Local, Stages
  <1>2. /\ e.rolled = l.rolled /\ e.exp = l.exp /\ e.base = l.base /\ e.seen = l.seen
        /\ e.wrote = l.wrote
    BY DEF Local
  <1>3. OldBindingRemoved(r, l) = AfterOldBinding(r, e)
    BY DEF OldBindingRemoved
  <1> HIDE DEF e
  <1>4. Steady(r, e, R, S, q)
    BY <1>2, StillSteady
  <1> QED
    BY <1>1, <1>3, <1>4, AfterOldBindingGood

LEMMA AfterBindingGood ==
    ASSUME NEW r \in Request, NEW l \in Local, NEW R \in Config, NEW S, NEW q, NEW implicit \in BOOLEAN,
           Steady(r, l, R, S, q), Common(r, l), l.mutated \/ Desired(r) \in l.base.certs
    PROVE  Good(r, AfterBinding(r, l, implicit), R, S, q)
  <1>1. l.mutated \/ l.up = {}
    BY PresentNotUploaded DEF Steady
  <1>2. Good(r, Failed(r, l, "conflict"), R, S, q)
    BY <1>1, FailedGood DEF Steady, Pending, Errors
  <1>3. Good(r, Go("preUnbind", l), R, S, q)
    BY SteadyGood DEF SteadyLabels
  <1> QED
    BY <1>2, <1>3, AfterOldBindingGood, OldBindingRemovedGood DEF AfterBinding

(* Nothing but new files has come to the appliance, and all of it is there. *)
Staged(r, l, R, S, q) ==
    /\ q = {} /\ ~ l.rolled /\ ~ l.wrote
    /\ Refs(Restored(r, l, R)) \subseteq l.seen
    /\ l.seen \cup l.up \subseteq R.files
    /\ ~ r.create => R.tmpl[r.tmpl] = l.base /\ Steady(r, l, R, S, q)

LEMMA StagedGood ==
    ASSUME NEW r, NEW l, NEW R, NEW S, NEW q, Staged(r, l, R, S, q), NEW at \in Uploading
    PROVE  Good(r, Go(at, l), R, S, q)
  BY DEF Staged, Steady, Good, Phase, InDoubt, Pending, Matching, Listed, Baseline, Saved, Scanned,
         TakenBack

LEMMA IsStaged ==
    ASSUME NEW r, NEW l, NEW R, NEW S, NEW q, NEW at \in {"listInfo"} \cup Uploading,
           Shape(r, at, l), Phase(r, at, l, R, S, q)
    PROVE  Staged(r, l, R, S, q)
  <1>1. ~ l.rolled /\ ~ l.wrote
    BY DEF Shape, Course, Calm
  <1>2. ~ r.create => Steady(r, l, R, S, q)
    BY IsSteady
  <1>3. ~ r.create => l.exp = l.base
    BY DEF Shape, Expected
  <1>4. ~ r.create => R.tmpl[r.tmpl] = l.base
    BY <1>2, <1>3 DEF Steady
  <1> QED
    BY <1>1, <1>2, <1>4 DEF Staged, Phase, InDoubt, Listed

LEMMA StagedFailedGood ==
    ASSUME NEW r \in Request, NEW l \in Local, NEW R, NEW S, NEW q, Staged(r, l, R, S, q)
    PROVE  Good(r, Failed(r, l, "failed"), R, S, q)
  BY FailedGood DEF Staged, Steady, Pending, Retractable, Harmless, Errors

LEMMA ReadyGood ==
    ASSUME NEW r \in Request, NEW l \in Local, NEW R, NEW S, NEW q, Staged(r, l, R, S, q),
           FilesOf(Desired(r)) \subseteq l.seen \cup l.up
    PROVE  Good(r, Ready(r, l), R, S, q)
  <1> DEFINE e == [l EXCEPT !.stage = "material-ready"]
  <1>1. e \in Local
    BY DEF Local, Stages
  <1>2. /\ e.rolled = l.rolled /\ e.exp = l.exp /\ e.base = l.base /\ e.seen = l.seen
        /\ e.wrote = l.wrote /\ e.up = l.up
    BY DEF Local
  <1>3. Ready(r, l) = IF ~ r.create THEN Go("preBind", e)
                      ELSE IF e.changed /\ ~ r.noWrite THEN Go("createPersist", e)
                      ELSE Complete(e)
    BY DEF Ready, Local
  <1> HIDE DEF e
  <1>4. Restored(r, e, R) = Restored(r, l, R)
    BY <1>2 DEF Restored
  <1>5. ~ r.create => Good(r, Go("preBind", e), R, S, q)
    BY <1>2, StillSteady, SteadyGood DEF Staged, SteadyLabels
  <1>6. r.create => Good(r, Go("createPersist", e), R, S, q)
    BY <1>2, <1>4 DEF Staged, Good, Phase, InDoubt, Pending, Matching, Listed, Baseline, Saved,
                      Scanned, TakenBack
  <1>7. r.create => Good(r, Complete(e), R, S, q)
    BY <1>1, <1>2, CompleteGood DEF Staged
  <1> QED
    BY <1>3, <1>5, <1>6, <1>7

LEMMA AfterCertGood ==
    ASSUME NEW r \in Request, NEW l \in Local, NEW R, NEW S, NEW q, Staged(r, l, R, S, q),
           PairOf(Desired(r)) \subseteq l.seen \cup l.up
    PROVE  Good(r, AfterCert(r, l), R, S, q)
  <1> DEFINE chain == <<"cert", r.chain>>
  <1>1. FilesOf(Desired(r)) = IF r.chain = NoName THEN PairOf(Desired(r))
                              ELSE PairOf(Desired(r)) \cup {chain}
    BY DEF FilesOf, ChainOf, Desired
  <1>2. r.chain = NoName \/ chain \in l.seen => Good(r, Ready(r, l), R, S, q)
    BY <1>1, ReadyGood
  <1> QED
    BY <1>2, StagedGood, StagedFailedGood DEF AfterCert

LEMMA AfterKeyGood ==
    ASSUME NEW r \in Request, NEW l \in Local, NEW R, NEW S, NEW q, Staged(r, l, R, S, q),
           <<"key", r.name>> \in l.seen \cup l.up
    PROVE  Good(r, AfterKey(r, l), R, S, q)
  <1>1. PairOf(Desired(r)) = {<<"cert", r.name>>, <<"key", r.name>>}
    BY DEF PairOf, Desired
  <1>2. <<"cert", r.name>> \in l.seen => Good(r, AfterCert(r, l), R, S, q)
    BY <1>1, AfterCertGood
  <1> QED
    BY <1>2, StagedGood, StagedFailedGood DEF AfterKey

LEMMA AfterListingGood ==
    ASSUME NEW r \in Request, NEW l \in Local, NEW R, NEW S, NEW q, Staged(r, l, R, S, q)
    PROVE  Good(r, AfterListing(r, l), R, S, q)
  BY AfterKeyGood, StagedGood DEF AfterListing

(* Inside rollbackSynchronization. *)
Reverting(r, l, R, q) ==
    /\ q \subseteq {WriteMemory} /\ ~ r.create /\ ~ l.rolled
    /\ Refs(Restored(r, l, R)) \subseteq l.seen
    /\ l.base.certs \subseteq AllBindings
    /\ r.tmpl \in ServingTemplates => l.base.certs # {}

LEMMA WritePending ==
    ASSUME NEW R, NEW q \in SUBSET {WriteMemory}
    PROVE  Pending(R, q)
  BY DEF Pending, Allowed, WriteMemory

LEMMA IsReverting ==
    ASSUME NEW r, NEW l, NEW R, NEW S, NEW q, NEW at \in Restoring \ {"rbPersist"},
           Shape(r, at, l), Phase(r, at, l, R, S, q)
    PROVE  Reverting(r, l, R, q)
  BY DEF Reverting, Shape, Course, Calm, Phase, InDoubt, Listed, Baseline

LEMMA RevertingGood ==
    ASSUME NEW r, NEW l, NEW R, NEW S, NEW q, Reverting(r, l, R, q)
    PROVE  /\ Good(r, Go("rbBind", l), R, S, q) /\ Good(r, Go("rbVerify", l), R, S, q)
           /\ Kept(R, r.tmpl, r.name) =>
                Good(r, Go("rbReread", l), R, S, q) /\ Good(r, Go("rbUnbind", l), R, S, q)
  <1>1. Pending(R, q)
    BY WritePending DEF Reverting
  <1> QED
    BY <1>1 DEF Reverting, Good, Phase, InDoubt, Matching, Listed, Baseline, Saved, Scanned, TakenBack

LEMMA UndoFailedGood ==
    ASSUME NEW r \in Request, NEW l \in Local, NEW R \in Config, NEW S, NEW q, NEW at \in Undoing,
           Shape(r, at, l), Phase(r, at, l, R, S, q), NEW p, Pending(R, p)
    PROVE  Good(r, UndoFailed(r, l), R, S, p)
  <1> DEFINE e == [l EXCEPT !.err = "rollback"]
  <1>1. ~ l.rolled /\ Common(r, l) /\ Refs(Restored(r, l, R)) \subseteq l.seen
    BY DEF Phase, TakenBack, Listed, Shape
  <1>2. l.full => ~ r.create /\ (l.mutated \/ Desired(r) \in l.base.certs)
    BY DEF Shape, Common, Expected
  <1>3. l.full => l.mutated \/ l.up = {}
    BY <1>1, <1>2, PresentNotUploaded
  <1>4. l.full => Good(r, Failed(r, l, "rollback"), R, S, p)
    BY <1>1, <1>3, FailedGood DEF Errors
  <1>5. e.err = "rollback" /\ e.rolled = l.rolled
    BY DEF Local
  <1>6. UndoFailed(r, l) = IF l.full THEN Failed(r, l, "rollback") ELSE Go("logoff", e)
    BY DEF UndoFailed
  <1> HIDE DEF e
  <1>7. Good(r, Go("logoff", e), R, S, p)
    BY <1>1, <1>5 DEF Good, Phase, InDoubt, Matching, Listed, Baseline, Saved, Scanned, TakenBack
  <1> QED
    BY <1>4, <1>6, <1>7

LEMMA UndoneGood ==
    ASSUME NEW r \in Request, NEW l \in Local, NEW R \in Config, NEW S, NEW q,
           Shape(r, "undoKeys", l), Phase(r, "undoKeys", l, R, S, q),
           r.chain # r.name => l.up \cap R.files = {}
    PROVE  Good(r, Undone(l), R, S, q)
  <1> DEFINE e == [l EXCEPT !.rolled = TRUE, !.stage = "rolled-back"]
  <1>1. /\ Pending(R, q) /\ Harmless(r, l, q) /\ ~ l.rolled
        /\ ~ r.create => R.tmpl[r.tmpl] = l.base
        /\ Refs(Restored(r, l, R)) \subseteq l.seen
    BY DEF Phase, InDoubt, Matching, Listed, TakenBack
  <1>2. /\ l.full => ~ r.create
        /\ ~ l.full => l.err # "none" /\ ~ l.mutated
    BY DEF Shape, Common, Course
  <1>3. l.full => Good(r, Go("rbPersist", l), R, S, q)
    BY <1>1, <1>2 DEF Good, Phase, InDoubt, Matching, Listed, Baseline, Saved, Scanned, TakenBack
  <1>4. Good(r, Go("undoPersist", l), R, S, q)
    BY <1>1 DEF Good, Phase, InDoubt, Matching, Listed, Baseline, Saved, Scanned, TakenBack
  <1>5. /\ e.err = l.err /\ e.up = l.up /\ e.mutated = l.mutated /\ e.attempted = l.attempted
        /\ e.base = l.base /\ e.seen = l.seen
    BY DEF Local
  <1>6. Undone(l) = IF l.full THEN Go("rbPersist", l)
                    ELSE IF l.attempted THEN Go("undoPersist", l) ELSE Go("logoff", e)
    BY DEF Undone
  <1> HIDE DEF e
  <1>7. Harmless(r, e, q)
    BY <1>1, <1>5 DEF Harmless
  <1>8. ~ l.full /\ ~ l.attempted => Good(r, Go("logoff", e), R, S, q)
    BY <1>1, <1>2, <1>5, <1>7 DEF Good, Phase, InDoubt, Matching, Listed, Baseline, Saved, Scanned, TakenBack
  <1> QED
    BY <1>3, <1>4, <1>6, <1>8

----------------------------------------------------------------------------
(* What a request that is carried out, now or later, does to a call.       *)

LEMMA SameRestored ==
    ASSUME NEW r \in Request, NEW l, NEW R \in Config, NEW R2 \in Config,
           \/ R2.server = R.server /\ R2.tmpl = R.tmpl
           \/ ~ r.create /\ OneTemplate(R, r.tmpl, R2)
    PROVE  Refs(Restored(r, l, R2)) = Refs(Restored(r, l, R))
  <1>1. CASE r.create
    BY <1>1, SameRefs DEF Restored
  <1>2. CASE ~ r.create
    <2> DEFINE X == Restored(r, l, R)
               Y == Restored(r, l, R2)
    <2>1. X = [R EXCEPT !.tmpl[r.tmpl] = l.base] /\ Y = [R2 EXCEPT !.tmpl[r.tmpl] = l.base]
      BY <1>2 DEF Restored
    <2>2. /\ r.tmpl \in Templates
          /\ R.tmpl \in [Templates -> Template] /\ R2.tmpl \in [Templates -> Template]
      BY DEF Config, Request
    <2>3. /\ X.server = R.server /\ Y.server = R2.server
          /\ X.tmpl = [R.tmpl EXCEPT ![r.tmpl] = l.base]
          /\ Y.tmpl = [R2.tmpl EXCEPT ![r.tmpl] = l.base]
      BY <2>1 DEF Config
    <2>4. R2.server = R.server /\ \A u \in Templates \ {r.tmpl} : R2.tmpl[u] = R.tmpl[u]
      BY DEF OneTemplate
    <2>5. Y.tmpl = X.tmpl
      BY <2>2, <2>3, <2>4
    <2> HIDE DEF X, Y
    <2> QED
      BY <2>3, <2>4, <2>5, SameRefs DEF X, Y
  <1> QED
    BY <1>1, <1>2

LEMMA PendingAfter ==
    ASSUME NEW R \in Config, NEW S, NEW q \in SUBSET Message, NEW m \in Message, NEW R2, NEW S2,
           Effect(R, S, m, R2, S2), Pending(R, q),
           m.op \in Changing => \A n \in q : n.op = "write"
    PROVE  Pending(R2, q)
  <1>1. CASE m.op \in Changing
    BY <1>1 DEF Pending, Allowed
  <1>2. CASE m.op \notin Changing
    <2>1. R2.tmpl = R.tmpl /\ R2.server = R.server
      <3>1. CASE m.op = "upload"
        BY <3>1, UploadEffect
      <3>2. CASE m.op = "delete"
        BY <3>2, DeleteEffect
      <3>3. CASE m.op = "write"
        BY <3>3, WriteEffect
      <3> QED
        BY <1>2, <3>1, <3>2, <3>3, Operations
    <2>2. Refs(R2) = Refs(R)
      BY <2>1, SameRefs
    <2> QED
      BY <2>1, <2>2 DEF Pending, Allowed, Kept
  <1> QED
    BY <1>1, <1>2

LEMMA DeliveredGood ==
    ASSUME NEW r \in Request, NEW l \in Local, NEW R \in Config, NEW S \in Config,
           NEW q \in SUBSET Message, NEW at \in InCall,
           Shape(r, at, l), Phase(r, at, l, R, S, q), NEW m \in q,
           NEW R2, NEW S2, Effect(R, S, m, R2, S2)
    PROVE  Phase(r, at, l, R2, S2, q \ {m})
  <1>0. R2 \in Config /\ S2 \in Config
    BY EffectTyped
  <1> DEFINE p == q \ {m}
  <1>p. Phase(r, at, l, R, S, p)
    <2>1. p \in SUBSET q
      OBVIOUS
    <2> QED
      BY <2>1, FewerInDoubt
  <1>1. Pending(R2, q \ {m})
    <2>1. Pending(R, q \ {m})
      BY <1>p DEF Phase, InDoubt
    <2>2. m.op \in Changing => \A n \in q \ {m} : n.op = "write"
      BY DEF Phase, InDoubt, Pending
    <2> QED
      BY <2>1, <2>2, PendingAfter
  <1>2. ~ Completed(at, l) /\ at \notin Forward \ (Restoring \cup {"readBack"})
    BY DEF Phase, InDoubt
  <1>3. CASE m.op = "write"
    <2>1. R2 = R /\ S2 = R
      BY <1>3, WriteEffect
    <2>2. at # "readBack"
      BY <1>3 DEF Phase, InDoubt, BindOf
    <2>3. /\ InDoubt(r, at, l, R, q \ {m}) /\ Matching(r, at, l, R)
          /\ Listed(r, at, l, R) /\ Baseline(r, at, l, R) /\ Scanned(at, l, R)
      BY <1>p DEF Phase
    <2>4. Saved(r, at, l, R, R)
      BY <1>2 DEF Saved
    <2>5. r.create => ~ l.mutated
      BY DEF Shape, Common
    <2>6. TakenBack(r, at, l, R, R)
      BY <2>5 DEF Phase, TakenBack, Matching
    <2> QED
      BY <2>1, <2>3, <2>4, <2>6 DEF Phase
  <1>4. CASE m.op = "upload"
    <2>1. R2.tmpl = R.tmpl /\ R2.server = R.server /\ R2.files = R.files \cup m.files /\ S2 = S
      BY <1>4, UploadEffect
    <2>2. at \in Undoing \cup {"rbPersist", "undoPersist", "logoff"}
      BY <1>2, <1>4 DEF Phase, InDoubt, WriteMemory, BindOf
    <2>3. /\ Refs(Restored(r, l, R2)) = Refs(Restored(r, l, R))
      BY <1>0, <2>1, SameRestored
    <2>4. InDoubt(r, at, l, R2, q \ {m})
      BY <1>1, <1>2, <2>2 DEF Phase, InDoubt, Harmless
    <2>5. at # "logoff" \/ RolledBack(at, l) =>
             /\ r.chain # r.name => m.files \cap l.up = {}
      BY <1>4, <2>2 DEF Phase, InDoubt, Harmless
    <2>6. TakenBack(r, at, l, R2, S2)
      BY <2>1, <2>2, <2>5 DEF Phase, TakenBack
    <2>7. Matching(r, at, l, R2) /\ Listed(r, at, l, R2) /\ Baseline(r, at, l, R2)
      BY <1>2, <2>1, <2>2, <2>3 DEF Phase, Matching, Listed, Baseline
    <2> QED
      BY <1>2, <2>2, <2>4, <2>6, <2>7 DEF Phase, Saved, Scanned
  <1>5. CASE m.op = "delete" \/ (m.op \in Changing /\ at # "readBack")
    <2>1. at = "logoff" /\ ~ l.rolled
      BY <1>2, <1>5 DEF Phase, InDoubt, Harmless, WriteMemory, BindOf
    <2> QED
      BY <1>1, <1>2, <2>1 DEF Phase, InDoubt, Matching, Listed, Baseline, Saved, Scanned, TakenBack
  <1>6. CASE at = "readBack"
    <2>1. m = BindOf(r.tmpl, Desired(r)) /\ q \ {m} = {}
      BY <1>6 DEF Phase, InDoubt
    <2>2. m.op = "bind" /\ m.tmpl = r.tmpl
      BY <2>1 DEF BindOf
    <2>3. ~ r.create /\ OneTemplate(R, r.tmpl, R2)
      BY <1>6, <2>2, BindEffect DEF Shape, Course
    <2>4. Refs(Restored(r, l, R2)) = Refs(Restored(r, l, R))
      BY <1>0, <2>3, SameRestored
    <2> QED
      BY <1>1, <1>6, <2>1, <2>4 DEF Phase, InDoubt, Matching, Listed, Baseline, Saved, Scanned, TakenBack
  <1> QED
    BY <1>3, <1>4, <1>5, <1>6, Operations

----------------------------------------------------------------------------
(* One lemma per request of a call.                                        *)

StoreStep == StoreInv' /\ [Store!Next]_(Store!svars)

LEMMA OneSession ==
    ASSUME Inv, StoreInv, NEW c \in sessions, NEW d \in sessions
    PROVE  c = d
  <1>1. c \in Callers /\ d \in Callers
    BY DEF Inv, TypeOK
  <1> QED
    BY <1>1 DEF Inv, ManagedWritesExclusive, StoreInv, Premises

LEMMA SessionFacts ==
    ASSUME Inv, CallShaped, StoreInv, NEW c \in Callers
    PROVE  /\ running \in Config /\ startup \in Config /\ Sound(running) /\ Sound(startup)
           /\ call[c] \in Request /\ loc[c] \in Local /\ doubt[c] \in SUBSET Message
           /\ Shape(call[c], pc[c], loc[c])
           /\ c \in sessions =>
                Phase(call[c], pc[c], loc[c], running, startup, doubt[c]) /\ Pending(running, doubt[c])
  BY CallFacts DEF Inv, TypeOK, StoreInv, Phase, InDoubt

LEMMA TakeOther ==
    ASSUME Inv, NEW c \in Callers, NEW o, Take(c, o)
    PROVE  /\ pc'[c] = o.at /\ loc'[c] = o.loc
           /\ \A d \in Callers \ {c} : pc'[d] = pc[d] /\ loc'[d] = loc[d]
  BY DEF Take, Inv, TypeOK

LEMMA QuietStep ==
    ASSUME UNCHANGED <<running, startup>>
    PROVE  [Store!Next]_(Store!svars)
  BY DEF Store!svars

LEMMA QueryStore ==
    ASSUME Inv, CallShaped, StoreInv, NEW c \in Callers, NEW label, NEW ok, NEW bad,
           Query(c, label, ok, bad),
           c \in sessions => /\ Good(call[c], ok, running, startup, doubt[c])
                             /\ Good(call[c], bad, running, startup, doubt[c])
    PROVE  StoreStep
  <1>1. UNCHANGED <<running, startup, sessions, doubt, call>>
    BY DEF Query, appliance
  <1>2. PICK o \in {ok, bad} : Take(c, o)
    BY DEF Query
  <1>3. /\ pc'[c] = o.at /\ loc'[c] = o.loc
        /\ \A d \in Callers \ {c} : pc'[d] = pc[d] /\ loc'[d] = loc[d]
    BY <1>2, TakeOther
  <1>4. c \in sessions => Good(call[c], o, running, startup, doubt[c])
    BY <1>2
  <1>5. StoreInv'
    BY <1>1, <1>3, <1>4 DEF StoreInv, Good, Active, Sound
  <1> QED
    BY <1>1, <1>5, QuietStep DEF StoreStep

LEMMA SendStore ==
    ASSUME Inv, CallShaped, StoreInv, NEW c \in Callers, NEW label, NEW m \in Message,
           NEW ok, NEW bad, Send(c, label, m, ok, bad),
           c \in sessions =>
             /\ Allowed(running, m)
             /\ \A R2, S2 : Effect(running, startup, m, R2, S2) => Good(call[c], ok, R2, S2, doubt[c])
             /\ Good(call[c], bad, running, startup, doubt[c] \cup Parts(m))
    PROVE  StoreStep
  <1>1. UNCHANGED <<sessions, call>>
    BY DEF Send
  <1>2. running \in Config /\ startup \in Config /\ Sound(running) /\ Sound(startup)
    BY SessionFacts
  <1>3. CASE c \in sessions /\ Process(m) /\ Take(c, ok) /\ UNCHANGED <<doubt, used>>
    <2>1. Effect(running, startup, m, running', startup')
      BY <1>3 DEF Process, Effect
    <2>2. Sound(running') /\ Sound(startup')
      BY <1>2, <1>3, <2>1, AllowedSound
    <2>3. Good(call[c], ok, running', startup', doubt[c])
      BY <1>3, <2>1
    <2>4. \A d \in sessions : d = c
      BY <1>3, OneSession
    <2>5. /\ pc'[c] = ok.at /\ loc'[c] = ok.loc
          /\ \A d \in Callers \ {c} : pc'[d] = pc[d] /\ loc'[d] = loc[d]
      BY <1>3, TakeOther
    <2>6. StoreInv'
      BY <1>1, <1>3, <2>2, <2>3, <2>4, <2>5 DEF StoreInv, Good, Active, Sound
    <2>7. [Store!Next]_(Store!svars)
      BY <1>2, <1>3, AllowedStep
    <2> QED
      BY <2>6, <2>7 DEF StoreStep
  <1>4. CASE /\ UNCHANGED <<running, startup>> /\ Take(c, bad)
             /\ doubt' = [doubt EXCEPT ![c] = IF c \in sessions THEN doubt'[c] ELSE @]
             /\ c \in sessions => doubt'[c] \subseteq doubt[c] \cup Parts(m)
    <2>1. /\ pc'[c] = bad.at /\ loc'[c] = bad.loc
          /\ \A d \in Callers \ {c} : pc'[d] = pc[d] /\ loc'[d] = loc[d]
      BY <1>4, TakeOther
    <2>2. /\ \A d \in Callers \ {c} : doubt'[d] = doubt[d]
          /\ c \notin sessions => doubt'[c] = doubt[c]
      BY <1>4 DEF Inv, TypeOK
    <2>3. c \in sessions => Good(call[c], bad, running, startup, doubt'[c])
      BY <1>4, FewerInDoubt DEF Good
    <2>4. StoreInv'
      BY <1>1, <1>4, <2>1, <2>2, <2>3 DEF StoreInv, Good, Active, Sound
    <2> QED
      BY <1>4, <2>4, QuietStep DEF StoreStep
  <1>5. CASE c \in sessions /\ MayRefuse(running, m) /\ Take(c, bad) /\ UNCHANGED <<running, startup, doubt, used>>
    <2>1. doubt' = [doubt EXCEPT ![c] = IF c \in sessions THEN doubt'[c] ELSE @]
      BY <1>5 DEF Inv, TypeOK
    <2> QED
      BY <1>4, <1>5, <2>1
  <1>6. CASE /\ Breaks(c) /\ Take(c, bad) /\ UNCHANGED <<running, startup>>
             /\ doubt' = [doubt EXCEPT ![c] = IF c \in sessions THEN @ \cup Parts(m) ELSE @]
    <2>1. /\ doubt' = [doubt EXCEPT ![c] = IF c \in sessions THEN doubt'[c] ELSE @]
          /\ c \in sessions => doubt'[c] = doubt[c] \cup Parts(m)
      BY <1>6 DEF Inv, TypeOK
    <2> QED
      BY <1>4, <1>6, <2>1
  <1> QED
    BY <1>3, <1>5, <1>6 DEF Send

LEMMA RequireGood ==
    ASSUME NEW r \in Request, NEW l \in Local, NEW at \in Forward, NEW q, Shape(r, at, l),
           running \in Config, Phase(r, at, l, running, startup, q),
           NEW ok, Good(r, ok, running, startup, q)
    PROVE  Good(r, Require(r, l, ok), running, startup, q)
  BY QueryErrorGood DEF Require, Errors

LEMMA VersionStore ==
    ASSUME Inv, CallShaped, StoreInv, NEW c \in Callers, Version(c)
    PROVE  StoreStep
  <1> DEFINE r == call[c]
             l == loc[c]
             q == doubt[c]
  <1>0. /\ running \in Config /\ startup \in Config /\ Sound(running) /\ Sound(startup)
        /\ r \in Request /\ l \in Local /\ q \in SUBSET Message /\ Shape(r, pc[c], l)
        /\ c \in sessions => Phase(r, pc[c], l, running, startup, q) /\ Pending(running, q)
    BY SessionFacts
  <1>1. pc[c] = "version"
    BY DEF Version, Query
  <1> DEFINE e == [l EXCEPT !.stage = "compatibility-verified"]
             ok == Go(IF r.create THEN "listCerts" ELSE "inspect", e)
  <1>2. e.wrote = l.wrote /\ e.rolled = l.rolled /\ e.up = l.up /\ e.err = l.err
    BY <1>0 DEF Local
  <1>3. ~ l.wrote /\ ~ l.rolled
    BY <1>0, <1>1 DEF Shape, Course, Calm
  <1>9. c \in sessions => Good(r, Failed(r, l, "failed"), running, startup, q)
    BY <1>0, <1>1, QueryErrorGood DEF Errors
  <1>4. Query(c, "version", ok, Failed(r, l, "failed"))
    BY DEF Version
  <1> HIDE DEF e
  <1>5. c \in sessions => Good(r, ok, running, startup, q)
    BY <1>0, <1>1, <1>2, <1>3 DEF Good, Phase, InDoubt, Pending, Matching, Listed, Baseline, Saved, Scanned, TakenBack
  <1> HIDE DEF ok
  <1> QED
    BY <1>4, <1>5, <1>9, QueryStore

LEMMA InspectStore ==
    ASSUME Inv, CallShaped, StoreInv, NEW c \in Callers, Inspect(c)
    PROVE  StoreStep
  <1> DEFINE r == call[c]
             l == loc[c]
             q == doubt[c]
  <1>0. /\ running \in Config /\ startup \in Config /\ Sound(running) /\ Sound(startup)
        /\ r \in Request /\ l \in Local /\ q \in SUBSET Message /\ Shape(r, pc[c], l)
        /\ c \in sessions => Phase(r, pc[c], l, running, startup, q) /\ Pending(running, q)
    BY SessionFacts
  <1>1. pc[c] = "inspect"
    BY DEF Inspect, Query
  <1> DEFINE T == running.tmpl[r.tmpl]
             choice == SelectCurrent(T, r.current, Desired(r))
             read == [l EXCEPT !.base = T, !.exp = T, !.stage = "state-inspected"]
             chosen == [read EXCEPT !.cur = CHOOSE b \in choice : TRUE]
             ok == IF Unexpected(l, T) THEN Failed(r, read, "conflict")
                   ELSE IF choice = {} THEN Failed(r, read, "slot")
                   ELSE Go("listCerts", chosen)
  <1>2. T \in Template /\ r.tmpl \in Templates
    BY <1>0 DEF Config, Request
  <1>3. read \in Local
    BY <1>0, <1>2 DEF Local, Stages
  <1>4. ~ r.create /\ l.up = {} /\ Calm(l) /\ ~ l.wrote
    BY <1>0, <1>1 DEF Shape, Course, Untouched
  <1>5. read.up = {} /\ ~ read.rolled
    BY <1>0, <1>4 DEF Local, Calm
  <1>6. c \in sessions => /\ Good(r, Failed(r, read, "conflict"), running, startup, q)
                          /\ Good(r, Failed(r, read, "slot"), running, startup, q)
    BY <1>0, <1>3, <1>5, FailedGood DEF Errors
  <1>7. /\ chosen.base = T /\ chosen.exp = T /\ chosen.wrote = l.wrote /\ chosen.rolled = l.rolled
    BY <1>0 DEF Local
  <1>8. c \in sessions => Good(r, Go("listCerts", chosen), running, startup, q)
    <2> HIDE DEF chosen
    <2>1. c \in sessions => q = {}
      BY <1>0, <1>1 DEF Phase, InDoubt
    <2>2. T.certs \subseteq AllBindings /\ (r.tmpl \in ServingTemplates => T.certs # {})
      BY <1>0, <1>2 DEF Sound
    <2> QED
      BY <1>4, <1>7, <2>1, <2>2 DEF Calm, Good, Phase, InDoubt, Pending, Matching, Listed, Baseline, Saved, Scanned, TakenBack
  <1>9. c \in sessions => Good(r, Failed(r, l, "failed"), running, startup, q)
    BY <1>0, <1>1, QueryErrorGood DEF Errors
  <1>10. Query(c, "inspect", ok, Failed(r, l, "failed"))
    BY DEF Inspect
  <1>11. c \in sessions => Good(r, ok, running, startup, q)
    BY <1>6, <1>8
  <1> HIDE DEF ok
  <1> QED
    BY <1>9, <1>10, <1>11, QueryStore

(* While the files are listed the configuration to restore is the one in   *)
(* force.                                                                  *)
LEMMA ListingFacts ==
    ASSUME NEW r \in Request, NEW l \in Local, NEW R \in Config, Sound(R), NEW S, NEW q,
           NEW at \in Listing, Shape(r, at, l), Phase(r, at, l, R, S, q)
    PROVE  /\ Refs(Restored(r, l, R)) \subseteq R.files /\ Calm(l) /\ ~ l.wrote /\ l.up = {} /\ q = {}
           /\ ~ r.create => R.tmpl[r.tmpl] = l.exp
  <1>1. Calm(l) /\ ~ l.wrote /\ l.up = {}
    BY DEF Shape, Course, Untouched
  <1>2. q = {} /\ (~ r.create => R.tmpl[r.tmpl] = l.exp)
    BY DEF Phase, InDoubt, Matching
  <1>3. ~ r.create => l.exp = l.base
    BY DEF Shape, Expected
  <1>4. Restored(r, l, R) = R
    BY <1>2, <1>3, RestoredIs
  <1> QED
    BY <1>1, <1>2, <1>4 DEF Sound

LEMMA ListCertsStore ==
    ASSUME Inv, CallShaped, StoreInv, NEW c \in Callers, ListCerts(c)
    PROVE  StoreStep
  <1> DEFINE r == call[c]
             l == loc[c]
             q == doubt[c]
  <1>0. /\ running \in Config /\ startup \in Config /\ Sound(running) /\ Sound(startup)
        /\ r \in Request /\ l \in Local /\ q \in SUBSET Message /\ Shape(r, pc[c], l)
        /\ c \in sessions => Phase(r, pc[c], l, running, startup, q) /\ Pending(running, q)
    BY SessionFacts
  <1>1. pc[c] = "listCerts"
    BY DEF ListCerts, Query
  <1> DEFINE e == [l EXCEPT !.seen = StoreFiles("cert")]
  <1>2. /\ e.seen = StoreFiles("cert") /\ e.up = l.up /\ e.wrote = l.wrote /\ e.rolled = l.rolled
        /\ e.base = l.base /\ e.exp = l.exp
    BY <1>0 DEF Local
  <1>3. Query(c, "listCerts", Go("listKeys", e), Failed(r, l, "failed"))
    BY DEF ListCerts
  <1>9. c \in sessions => Good(r, Failed(r, l, "failed"), running, startup, q)
    BY <1>0, <1>1, QueryErrorGood DEF Errors
  <1> HIDE DEF e
  <1>4. ASSUME c \in sessions
        PROVE  Good(r, Go("listKeys", e), running, startup, q)
    <2>1. /\ Refs(Restored(r, l, running)) \subseteq running.files
          /\ Calm(l) /\ ~ l.wrote /\ l.up = {} /\ q = {}
          /\ ~ r.create => running.tmpl[r.tmpl] = l.exp
      BY <1>0, <1>1, <1>4, ListingFacts
    <2>2. Restored(r, e, running) = Restored(r, l, running)
      BY <1>2 DEF Restored
    <2>3. Listed(r, "listKeys", e, running)
      BY <1>2, <2>1, <2>2 DEF Listed, StoreFiles
    <2>4. Baseline(r, "listKeys", e, running)
      BY <1>0, <1>1, <1>2, <1>4 DEF Phase, Baseline
    <2> QED
      BY <1>2, <2>1, <2>3, <2>4 DEF Calm, Good, Phase, InDoubt, Pending, Matching, Saved, Scanned, TakenBack
  <1> QED
    BY <1>3, <1>4, <1>9, QueryStore

LEMMA ListKeysStore ==
    ASSUME Inv, CallShaped, StoreInv, NEW c \in Callers, ListKeys(c)
    PROVE  StoreStep
  <1> DEFINE r == call[c]
             l == loc[c]
             q == doubt[c]
  <1>0. /\ running \in Config /\ startup \in Config /\ Sound(running) /\ Sound(startup)
        /\ r \in Request /\ l \in Local /\ q \in SUBSET Message /\ Shape(r, pc[c], l)
        /\ c \in sessions => Phase(r, pc[c], l, running, startup, q) /\ Pending(running, q)
    BY SessionFacts
  <1>1. pc[c] = "listKeys"
    BY DEF ListKeys, Query
  <1> DEFINE e == [l EXCEPT !.seen = @ \cup StoreFiles("key")]
  <1>2. /\ e.seen = l.seen \cup StoreFiles("key") /\ e.up = l.up /\ e.wrote = l.wrote
        /\ e.rolled = l.rolled /\ e.base = l.base /\ e.exp = l.exp
    BY <1>0 DEF Local
  <1>3. Query(c, "listKeys", Go("listInfo", e), Failed(r, l, "failed"))
    BY DEF ListKeys
  <1>9. c \in sessions => Good(r, Failed(r, l, "failed"), running, startup, q)
    BY <1>0, <1>1, QueryErrorGood DEF Errors
  <1> HIDE DEF e
  <1>4. ASSUME c \in sessions
        PROVE  Good(r, Go("listInfo", e), running, startup, q)
    <2>1. /\ Refs(Restored(r, l, running)) \subseteq running.files
          /\ Calm(l) /\ ~ l.wrote /\ l.up = {} /\ q = {}
          /\ ~ r.create => running.tmpl[r.tmpl] = l.exp
      BY <1>0, <1>1, <1>4, ListingFacts
    <2>2. Restored(r, e, running) = Restored(r, l, running)
      BY <1>2 DEF Restored
    <2>3. \A f \in running.files : f[1] = "cert" \/ f[1] = "key"
      BY <1>0 DEF Config, File
    <2>4. /\ {f \in Refs(Restored(r, l, running)) : f[1] = "cert"} \subseteq l.seen
          /\ l.seen \subseteq running.files
      BY <1>0, <1>1, <1>4 DEF Phase, Listed
    <2>5. Refs(Restored(r, e, running)) \subseteq e.seen
      BY <1>2, <2>1, <2>2, <2>3, <2>4 DEF StoreFiles
    <2>6. Listed(r, "listInfo", e, running)
      BY <1>2, <2>1, <2>4, <2>5 DEF Listed, StoreFiles
    <2>7. Baseline(r, "listInfo", e, running)
      BY <1>0, <1>1, <1>2, <1>4 DEF Phase, Baseline
    <2> QED
      BY <1>2, <2>1, <2>6, <2>7 DEF Calm, Good, Phase, InDoubt, Pending, Matching, Saved, Scanned, TakenBack
  <1> QED
    BY <1>3, <1>4, <1>9, QueryStore

LEMMA ListInfoStore ==
    ASSUME Inv, CallShaped, StoreInv, NEW c \in Callers, ListInfo(c)
    PROVE  StoreStep
  <1> DEFINE r == call[c]
             l == loc[c]
             q == doubt[c]
  <1>0. /\ running \in Config /\ startup \in Config /\ Sound(running) /\ Sound(startup)
        /\ r \in Request /\ l \in Local /\ q \in SUBSET Message /\ Shape(r, pc[c], l)
        /\ c \in sessions => Phase(r, pc[c], l, running, startup, q) /\ Pending(running, q)
    BY SessionFacts
  <1>1. pc[c] = "listInfo"
    BY DEF ListInfo, Query
  <1> DEFINE e == [l EXCEPT !.info = StoreFiles("cert")]
  <1>2. /\ e.seen = l.seen /\ e.up = l.up /\ e.wrote = l.wrote
        /\ e.rolled = l.rolled /\ e.base = l.base /\ e.exp = l.exp
    BY <1>0 DEF Local
  <1>3. Query(c, "listInfo", AfterListing(r, e), Failed(r, l, "failed"))
    BY DEF ListInfo
  <1>5. e \in Local
    BY <1>0, StoreFilesTyped DEF Local, Inv
  <1>9. c \in sessions => Good(r, Failed(r, l, "failed"), running, startup, q)
    BY <1>0, <1>1, QueryErrorGood DEF Errors
  <1> HIDE DEF e
  <1>4. ASSUME c \in sessions
        PROVE  Good(r, AfterListing(r, e), running, startup, q)
    <2>1. Staged(r, l, running, startup, q)
      BY <1>0, <1>1, <1>4, IsStaged
    <2>2. Restored(r, e, running) = Restored(r, l, running)
      BY <1>2 DEF Restored
    <2>3. Staged(r, e, running, startup, q)
      BY <1>2, <2>1, <2>2, StillSteady DEF Staged
    <2> QED
      BY <1>0, <1>5, <2>3, AfterListingGood
  <1> QED
    BY <1>3, <1>4, <1>9, QueryStore

LEMMA UploadedStaged ==
    ASSUME NEW r \in Request, NEW l \in Local, NEW R \in Config, NEW S \in Config, NEW q,
           Staged(r, l, R, S, q), NEW f \in File,
           NEW R2, NEW S2, Effect(R, S, UploadOf({f}), R2, S2)
    PROVE  /\ Uploaded(l, f) \in Local
           /\ Uploaded(l, f).up = l.up \cup {f} /\ Uploaded(l, f).seen = l.seen
           /\ Staged(r, Uploaded(l, f), R2, S2, q)
  <1> DEFINE e == Uploaded(l, f)
             m == UploadOf({f})
  <1>1. m \in Message /\ m.op = "upload" /\ m.files = {f}
    BY MessagesTyped DEF UploadOf
  <1>0. Effect(R, S, m, R2, S2)
    OBVIOUS
  <1> HIDE DEF m
  <1>6. R2.tmpl = R.tmpl /\ R2.server = R.server /\ R2.files = R.files \cup m.files /\ S2 = S
    BY <1>0, <1>1, UploadEffect
  <1>7. R2 \in Config
    BY <1>0, <1>1, EffectTyped
  <1>2. /\ R2.tmpl = R.tmpl /\ R2.server = R.server /\ R2.files = R.files \cup {f} /\ S2 = S
        /\ R2 \in Config
    BY <1>1, <1>6, <1>7
  <1>3. /\ e \in Local /\ e.up = l.up \cup {f} /\ e.seen = l.seen /\ e.base = l.base
        /\ e.exp = l.exp /\ e.rolled = l.rolled /\ e.wrote = l.wrote
    BY DEF Uploaded, Local
  <1> HIDE DEF e
  <1>4. Refs(Restored(r, e, R2)) = Refs(Restored(r, l, R))
    <2>1. Restored(r, e, R2) = Restored(r, l, R2)
      BY <1>3 DEF Restored
    <2> QED
      BY <1>2, <2>1, SameRestored
  <1>5. Staged(r, e, R2, S2, q)
    BY <1>2, <1>3, <1>4 DEF Staged, Steady
  <1> QED
    BY <1>3, <1>5 DEF e

LEMMA UploadErrorGood ==
    ASSUME NEW r \in Request, NEW l \in Local, NEW R \in Config, NEW S, NEW q, NEW at \in Uploading,
           Shape(r, at, l), Phase(r, at, l, R, S, q),
           NEW f, r.chain # r.name => f \notin l.up
    PROVE  Good(r, Failed(r, l, "failed"), R, S, q \cup Parts(UploadOf({f})))
  <1> DEFINE p == q \cup Parts(UploadOf({f}))
  <1>1. UploadOf({f}).op = "upload" /\ UploadOf({f}).files = {f}
    BY DEF UploadOf
  <1>2. q = {}
    BY DEF Phase, InDoubt
  <1>3. p = {UploadOf({f})}
    BY <1>1, <1>2 DEF Parts
  <1> HIDE DEF p
  <1>4. Pending(R, p) /\ Harmless(r, l, p)
    BY <1>1, <1>3 DEF Pending, Allowed, Harmless
  <1>5. Good(r, Failed(r, l, "failed"), R, S, p)
    BY <1>4, ErrorGood DEF Errors
  <1> QED
    BY <1>5 DEF p

LEMMA UpKeyStore ==
    ASSUME Inv, CallShaped, StoreInv, NEW c \in Callers, UpKey(c)
    PROVE  StoreStep
  <1> DEFINE r == call[c]
             l == loc[c]
             q == doubt[c]
  <1>0. /\ running \in Config /\ startup \in Config /\ Sound(running) /\ Sound(startup)
        /\ r \in Request /\ l \in Local /\ q \in SUBSET Message /\ Shape(r, pc[c], l)
        /\ c \in sessions => Phase(r, pc[c], l, running, startup, q) /\ Pending(running, q)
    BY SessionFacts
  <1>1. pc[c] = "upKey"
    BY DEF UpKey, Send
  <1> DEFINE f == <<"key", r.name>>
             m == UploadOf({f})
  <1>2. f \in File /\ m \in Message /\ Allowed(running, m)
    BY <1>0, MessagesTyped DEF UploadOf, Allowed, File, Request
  <1>3. r.chain # r.name => f \notin l.up
    BY <1>0, <1>1 DEF Shape, Material
  <1>4. ASSUME c \in sessions, NEW R2, NEW S2, Effect(running, startup, m, R2, S2)
        PROVE  Good(r, AfterKey(r, Uploaded(l, f)), R2, S2, q)
    <2>1. Staged(r, l, running, startup, q)
      BY <1>0, <1>1, <1>4, IsStaged
    <2>2. /\ Uploaded(l, f) \in Local
          /\ Uploaded(l, f).up = l.up \cup {f} /\ Uploaded(l, f).seen = l.seen
          /\ Staged(r, Uploaded(l, f), R2, S2, q)
      BY <1>0, <1>2, <1>4, <2>1, UploadedStaged
    <2> QED
      BY <1>0, <2>2, AfterKeyGood
  <1>5. c \in sessions => Good(r, Failed(r, l, "failed"), running, startup, q \cup Parts(m))
    BY <1>0, <1>1, <1>3, UploadErrorGood
  <1>7. Send(c, "upKey", m, AfterKey(r, Uploaded(l, f)), Failed(r, l, "failed"))
    BY DEF UpKey
  <1> HIDE DEF m
  <1> QED
    BY <1>2, <1>4, <1>5, <1>7, SendStore

LEMMA UpCertStore ==
    ASSUME Inv, CallShaped, StoreInv, NEW c \in Callers, UpCert(c)
    PROVE  StoreStep
  <1> DEFINE r == call[c]
             l == loc[c]
             q == doubt[c]
  <1>0. /\ running \in Config /\ startup \in Config /\ Sound(running) /\ Sound(startup)
        /\ r \in Request /\ l \in Local /\ q \in SUBSET Message /\ Shape(r, pc[c], l)
        /\ c \in sessions => Phase(r, pc[c], l, running, startup, q) /\ Pending(running, q)
    BY SessionFacts
  <1>1. pc[c] = "upCert"
    BY DEF UpCert, Send
  <1> DEFINE f == <<"cert", r.name>>
             m == UploadOf({f})
  <1>2. f \in File /\ m \in Message /\ Allowed(running, m)
    BY <1>0, MessagesTyped DEF UploadOf, Allowed, File, Request
  <1>3. r.chain # r.name => f \notin l.up
    BY <1>0, <1>1 DEF Shape, Material
  <1>4. ASSUME c \in sessions, NEW R2, NEW S2, Effect(running, startup, m, R2, S2)
        PROVE  Good(r, AfterCert(r, Uploaded(l, f)), R2, S2, q)
    <2>1. Staged(r, l, running, startup, q)
      BY <1>0, <1>1, <1>4, IsStaged
    <2>2. /\ Uploaded(l, f) \in Local
          /\ Uploaded(l, f).up = l.up \cup {f} /\ Uploaded(l, f).seen = l.seen
          /\ Staged(r, Uploaded(l, f), R2, S2, q)
      BY <1>0, <1>2, <1>4, <2>1, UploadedStaged
    <2>3. PairOf(Desired(r)) = {<<"cert", r.name>>, <<"key", r.name>>}
      BY DEF PairOf, Desired
    <2>4. <<"key", r.name>> \in l.seen \cup l.up
      BY <1>0, <1>1 DEF Shape, Material
    <2>5. PairOf(Desired(r)) \subseteq Uploaded(l, f).seen \cup Uploaded(l, f).up
      BY <2>2, <2>3, <2>4
    <2> QED
      BY <1>0, <2>2, <2>5, AfterCertGood
  <1>5. c \in sessions => Good(r, Failed(r, l, "failed"), running, startup, q \cup Parts(m))
    BY <1>0, <1>1, <1>3, UploadErrorGood
  <1>7. Send(c, "upCert", m, AfterCert(r, Uploaded(l, f)), Failed(r, l, "failed"))
    BY DEF UpCert
  <1> HIDE DEF m
  <1> QED
    BY <1>2, <1>4, <1>5, <1>7, SendStore

LEMMA UpChainStore ==
    ASSUME Inv, CallShaped, StoreInv, NEW c \in Callers, UpChain(c)
    PROVE  StoreStep
  <1> DEFINE r == call[c]
             l == loc[c]
             q == doubt[c]
  <1>0. /\ running \in Config /\ startup \in Config /\ Sound(running) /\ Sound(startup)
        /\ r \in Request /\ l \in Local /\ q \in SUBSET Message /\ Shape(r, pc[c], l)
        /\ c \in sessions => Phase(r, pc[c], l, running, startup, q) /\ Pending(running, q)
    BY SessionFacts
  <1>1. pc[c] = "upChain"
    BY DEF UpChain, Send
  <1> DEFINE f == <<"cert", r.chain>>
             m == UploadOf({f})
  <1>6. r.chain # NoName
    BY <1>1 DEF Inv, LocalsFit, Fits
  <1>2. f \in File /\ m \in Message /\ Allowed(running, m)
    BY <1>0, <1>6, MessagesTyped DEF UploadOf, Allowed, File, Request
  <1>3. r.chain # r.name => f \notin l.up
    BY <1>0, <1>1 DEF Shape, Material
  <1>4. ASSUME c \in sessions, NEW R2, NEW S2, Effect(running, startup, m, R2, S2)
        PROVE  Good(r, Ready(r, Uploaded(l, f)), R2, S2, q)
    <2>1. Staged(r, l, running, startup, q)
      BY <1>0, <1>1, <1>4, IsStaged
    <2>2. /\ Uploaded(l, f) \in Local
          /\ Uploaded(l, f).up = l.up \cup {f} /\ Uploaded(l, f).seen = l.seen
          /\ Staged(r, Uploaded(l, f), R2, S2, q)
      BY <1>0, <1>2, <1>4, <2>1, UploadedStaged
    <2>3. FilesOf(Desired(r)) = {<<"cert", r.name>>, <<"key", r.name>>, f}
      BY <1>6 DEF FilesOf, PairOf, ChainOf, Desired
    <2>4. {<<"cert", r.name>>, <<"key", r.name>>} \subseteq l.seen \cup l.up
      BY <1>0, <1>1 DEF Shape, Material
    <2>5. FilesOf(Desired(r)) \subseteq Uploaded(l, f).seen \cup Uploaded(l, f).up
      BY <2>2, <2>3, <2>4
    <2> QED
      BY <1>0, <2>2, <2>5, ReadyGood
  <1>5. c \in sessions => Good(r, Failed(r, l, "failed"), running, startup, q \cup Parts(m))
    BY <1>0, <1>1, <1>3, UploadErrorGood
  <1>7. Send(c, "upChain", m, Ready(r, Uploaded(l, f)), Failed(r, l, "failed"))
    BY DEF UpChain
  <1> HIDE DEF m
  <1> QED
    BY <1>2, <1>4, <1>5, <1>7, SendStore

LEMMA DesiredKnown ==
    ASSUME CallShaped, NEW c \in Callers
    PROVE  Desired(call[c]) \in AllBindings
  <1> DEFINE W == {Desired(r) : r \in Requests[c]}
  <1>1. Desired(call[c]) \in W
    BY DEF CallShaped
  <1>2. W \in {{Desired(r) : r \in Requests[d]} : d \in Callers}
    OBVIOUS
  <1> QED
    BY <1>1, <1>2 DEF AllBindings

(* The deferred rollback has nothing to delete, or keeps its hands off. *)
LEMMA NothingToUndo ==
    ASSUME NEW r \in Request, NEW l \in Local, NEW R \in Config, NEW S, NEW q,
           Steady(r, l, R, S, q), Common(r, l), l.mutated \/ Desired(r) \in l.base.certs
    PROVE  l.mutated \/ l.up = {}
  BY PresentNotUploaded DEF Steady

LEMMA PreBindStore ==
    ASSUME Inv, CallShaped, StoreInv, NEW c \in Callers, PreBind(c)
    PROVE  StoreStep
  <1> DEFINE r == call[c]
             l == loc[c]
             q == doubt[c]
  <1>0. /\ running \in Config /\ startup \in Config /\ Sound(running) /\ Sound(startup)
        /\ r \in Request /\ l \in Local /\ q \in SUBSET Message /\ Shape(r, pc[c], l)
        /\ c \in sessions => Phase(r, pc[c], l, running, startup, q) /\ Pending(running, q)
    BY SessionFacts
  <1>1. pc[c] = "preBind"
    BY DEF PreBind, Query
  <1> DEFINE ok == Go(IF Desired(r) \in l.base.certs THEN "verifyBound" ELSE "bind", l)
  <1>2. ~ r.create
    BY <1>0, <1>1 DEF Shape, Course
  <1>3. Query(c, "preBind", Require(r, l, ok), Failed(r, l, "failed"))
    BY DEF PreBind
  <1>9. c \in sessions => Good(r, Failed(r, l, "failed"), running, startup, q)
    BY <1>0, <1>1, QueryErrorGood DEF Errors
  <1>4. ASSUME c \in sessions
        PROVE  Good(r, Require(r, l, ok), running, startup, q)
    <2>1. Steady(r, l, running, startup, q)
      BY <1>0, <1>1, <1>2, <1>4, IsSteady DEF SteadyLabels
    <2>2. Good(r, ok, running, startup, q)
      BY <2>1, SteadyGood DEF SteadyLabels
    <2> HIDE DEF ok
    <2> QED
      BY <1>0, <1>1, <1>4, <2>2, RequireGood
  <1> HIDE DEF ok
  <1> QED
    BY <1>3, <1>4, <1>9, QueryStore

LEMMA BindStore ==
    ASSUME Inv, CallShaped, StoreInv, NEW c \in Callers, Bind(c)
    PROVE  StoreStep
  <1> DEFINE r == call[c]
             l == loc[c]
             q == doubt[c]
  <1>0. /\ running \in Config /\ startup \in Config /\ Sound(running) /\ Sound(startup)
        /\ r \in Request /\ l \in Local /\ q \in SUBSET Message /\ Shape(r, pc[c], l)
        /\ c \in sessions => Phase(r, pc[c], l, running, startup, q) /\ Pending(running, q)
    BY SessionFacts
  <1>1. pc[c] = "bind"
    BY DEF Bind, Send
  <1> DEFINE m == BindOf(r.tmpl, Desired(r))
             e == [l EXCEPT !.mutated = TRUE]
             f == [e EXCEPT !.bindFailed = TRUE]
  <1>2. ~ r.create /\ ~ l.wrote /\ ~ l.rolled /\ l.exp = l.base
    BY <1>0, <1>1 DEF Shape, Course, Calm, Expected
  <1>3. /\ m \in Message /\ m.op = "bind" /\ m.tmpl = r.tmpl /\ m.binding = Desired(r)
    BY <1>0, MessagesTyped, DesiredTyped DEF BindOf, Request
  <1>4. Allowed(running, m)
    BY <1>3, DesiredKnown DEF Allowed
  <1>5. /\ e.base = l.base /\ e.seen = l.seen /\ e.wrote = l.wrote /\ e.rolled = l.rolled
        /\ f.base = l.base /\ f.seen = l.seen /\ f.wrote = l.wrote /\ f.rolled = l.rolled
    BY <1>0 DEF Local
  <1>6. Send(c, "bind", m, Go("readBack", e), Go("readBack", f))
    BY DEF Bind
  <1> HIDE DEF e, f
  <1>7. ASSUME c \in sessions
        PROVE  Steady(r, l, running, startup, q)
    BY <1>0, <1>1, <1>2, <1>7, IsSteady DEF SteadyLabels
  <1>8. ASSUME c \in sessions, NEW R2, NEW S2, Effect(running, startup, m, R2, S2)
        PROVE  Good(r, Go("readBack", e), R2, S2, q)
    <2> HIDE DEF m
    <2>1. R2 \in Config /\ OneTemplate(running, r.tmpl, R2)
      BY <1>0, <1>3, <1>8, BindEffect, EffectTyped
    <2>2. Refs(Restored(r, e, R2)) = Refs(Restored(r, l, running))
      <3>1. Restored(r, e, R2) = Restored(r, l, R2)
        BY <1>5 DEF Restored
      <3> QED
        BY <1>0, <1>2, <2>1, <3>1, SameRestored
    <2> QED
      BY <1>2, <1>5, <1>7, <1>8, <2>2 DEF Steady, Good, Phase, InDoubt, Pending, Matching, Listed, Baseline, Saved, Scanned, TakenBack
  <1>9. ASSUME c \in sessions
        PROVE  Good(r, Go("readBack", f), running, startup, q \cup Parts(m))
    <2>1. q \cup Parts(m) = {m}
      BY <1>3, <1>7, <1>9 DEF Steady, Parts
    <2>2. Pending(running, {m})
      BY <1>4 DEF Pending
    <2>3. Restored(r, f, running) = Restored(r, l, running)
      BY <1>5 DEF Restored
    <2>4. Good(r, Go("readBack", f), running, startup, {m})
      BY <1>2, <1>5, <1>7, <1>9, <2>2, <2>3
         DEF Steady, Good, Phase, InDoubt, Matching, Listed, Baseline, Saved, Scanned, TakenBack
    <2> QED
      BY <2>1, <2>4
  <1> HIDE DEF m
  <1> QED
    BY <1>3, <1>4, <1>6, <1>8, <1>9, SendStore

LEMMA ReadBackStore ==
    ASSUME Inv, CallShaped, StoreInv, NEW c \in Callers, ReadBack(c)
    PROVE  StoreStep
  <1> DEFINE r == call[c]
             l == loc[c]
             q == doubt[c]
  <1>0. /\ running \in Config /\ startup \in Config /\ Sound(running) /\ Sound(startup)
        /\ r \in Request /\ l \in Local /\ q \in SUBSET Message /\ Shape(r, pc[c], l)
        /\ c \in sessions => Phase(r, pc[c], l, running, startup, q) /\ Pending(running, q)
    BY SessionFacts
  <1>1. pc[c] = "readBack"
    BY DEF ReadBack, Query
  <1> DEFINE T == running.tmpl[r.tmpl]
             D == Desired(r)
             appended == WithBinding(l.base, D)
             replaced == WithoutCertificate(appended, l.cur.cert)
             bound == [l EXCEPT !.exp = T, !.changed = TRUE, !.stage = "bound"]
             ok == IF T = appended THEN AfterBinding(r, bound, FALSE)
                   ELSE IF Replaces(r, l) /\ T = replaced THEN AfterBinding(r, bound, TRUE)
                   ELSE IF ~ l.bindFailed THEN Failed(r, l, "conflict")
                   ELSE Failed(r, l, IF T = l.base THEN "failed" ELSE "ambiguous")
             bad == Failed(r, l, IF l.bindFailed THEN "ambiguous" ELSE "failed")
  <1>2. ~ r.create /\ ~ l.wrote /\ ~ l.rolled /\ D \notin l.base.certs /\ l.mutated /\ Common(r, l)
    BY <1>0, <1>1 DEF Shape, Course, Calm, Expected
  <1>3. Query(c, "readBack", ok, bad)
    BY DEF ReadBack
  <1>5. T \in Template
    BY <1>0 DEF Config, Request
  <1>6. bound \in Local
    BY <1>0, <1>5 DEF Local, Stages
  <1>7. /\ bound.exp = T /\ bound.base = l.base /\ bound.seen = l.seen /\ bound.wrote = l.wrote
        /\ bound.rolled = l.rolled /\ bound.mutated /\ bound.up = l.up /\ bound.attempted = l.attempted
        /\ bound.err = l.err /\ bound.full = l.full /\ bound.pin = l.pin
    BY <1>0, <1>2 DEF Local
  <1> HIDE DEF bound
  <1>8. Common(r, bound)
    BY <1>2, <1>7 DEF Common, Calm, Untouched, Pinned
  <1>10. T = appended \/ (Replaces(r, l) /\ T = replaced) => T # l.base
    <2>1. appended \in Template /\ D \in appended.certs
      BY <1>0, WithOf, DesiredTyped DEF Local
    <2>2. Replaces(r, l) => D \in replaced.certs
      BY <2>1, WithoutOf DEF Replaces, Desired
    <2> QED
      BY <1>2, <2>1, <2>2
  <1>11. ASSUME c \in sessions, T # l.base
         PROVE  Steady(r, bound, running, startup, q)
    <2>1. q = {}
      BY <1>0, <1>1, <1>11 DEF Phase, InDoubt
    <2>2. Restored(r, bound, running) = Restored(r, l, running)
      BY <1>7 DEF Restored
    <2>3. /\ Refs(Restored(r, l, running)) \subseteq l.seen
          /\ l.base.certs \subseteq AllBindings
          /\ r.tmpl \in ServingTemplates => l.base.certs # {}
      BY <1>0, <1>1, <1>2, <1>11 DEF Phase, Listed, Baseline
    <2> QED
      BY <1>2, <1>7, <2>1, <2>2, <2>3 DEF Steady
  <1>12. ASSUME c \in sessions, T # l.base, NEW implicit \in BOOLEAN
         PROVE  Good(r, AfterBinding(r, bound, implicit), running, startup, q)
    BY <1>0, <1>6, <1>7, <1>8, <1>11, <1>12, AfterBindingGood
  <1>13. c \in sessions => \A e \in {"failed", "conflict", "ambiguous"} :
                             Good(r, Failed(r, l, e), running, startup, q)
    BY <1>0, <1>1, QueryErrorGood DEF Errors
  <1>4. c \in sessions => Good(r, ok, running, startup, q)
    BY <1>10, <1>12, <1>13
  <1>9. c \in sessions => Good(r, bad, running, startup, q)
    BY <1>13
  <1> HIDE DEF ok, bad
  <1> QED
    BY <1>3, <1>4, <1>9, QueryStore

LEMMA VerifyBoundStore ==
    ASSUME Inv, CallShaped, StoreInv, NEW c \in Callers, VerifyBound(c)
    PROVE  StoreStep
  <1> DEFINE r == call[c]
             l == loc[c]
             q == doubt[c]
  <1>0. /\ running \in Config /\ startup \in Config /\ Sound(running) /\ Sound(startup)
        /\ r \in Request /\ l \in Local /\ q \in SUBSET Message /\ Shape(r, pc[c], l)
        /\ c \in sessions => Phase(r, pc[c], l, running, startup, q) /\ Pending(running, q)
    BY SessionFacts
  <1>1. pc[c] = "verifyBound"
    BY DEF VerifyBound, Query
  <1>2. ~ r.create /\ Common(r, l) /\ Desired(r) \in l.base.certs
    BY <1>0, <1>1 DEF Shape, Course, Expected
  <1>3. Query(c, "verifyBound", Require(r, l, AfterBinding(r, l, FALSE)), Failed(r, l, "failed"))
    BY DEF VerifyBound
  <1>9. c \in sessions => Good(r, Failed(r, l, "failed"), running, startup, q)
    BY <1>0, <1>1, QueryErrorGood DEF Errors
  <1>4. ASSUME c \in sessions
        PROVE  Good(r, Require(r, l, AfterBinding(r, l, FALSE)), running, startup, q)
    <2>1. Steady(r, l, running, startup, q)
      BY <1>0, <1>1, <1>2, <1>4, IsSteady DEF SteadyLabels
    <2>2. Good(r, AfterBinding(r, l, FALSE), running, startup, q)
      BY <1>0, <1>2, <2>1, AfterBindingGood
    <2> QED
      BY <1>0, <1>1, <1>4, <2>2, RequireGood
  <1> QED
    BY <1>3, <1>4, <1>9, QueryStore

LEMMA PreUnbindStore ==
    ASSUME Inv, CallShaped, StoreInv, NEW c \in Callers, PreUnbind(c)
    PROVE  StoreStep
  <1> DEFINE r == call[c]
             l == loc[c]
             q == doubt[c]
  <1>0. /\ running \in Config /\ startup \in Config /\ Sound(running) /\ Sound(startup)
        /\ r \in Request /\ l \in Local /\ q \in SUBSET Message /\ Shape(r, pc[c], l)
        /\ c \in sessions => Phase(r, pc[c], l, running, startup, q) /\ Pending(running, q)
    BY SessionFacts
  <1>1. pc[c] = "preUnbind"
    BY DEF PreUnbind, Query
  <1>2. ~ r.create
    BY <1>0, <1>1 DEF Shape, Course
  <1>3. Query(c, "preUnbind", Require(r, l, Go("unbind", l)), Failed(r, l, "failed"))
    BY DEF PreUnbind
  <1>9. c \in sessions => Good(r, Failed(r, l, "failed"), running, startup, q)
    BY <1>0, <1>1, QueryErrorGood DEF Errors
  <1>4. ASSUME c \in sessions
        PROVE  Good(r, Require(r, l, Go("unbind", l)), running, startup, q)
    <2>1. Steady(r, l, running, startup, q)
      BY <1>0, <1>1, <1>2, <1>4, IsSteady DEF SteadyLabels
    <2>2. Good(r, Go("unbind", l), running, startup, q)
      BY <2>1, SteadyGood DEF SteadyLabels
    <2> QED
      BY <1>0, <1>1, <1>4, <2>2, RequireGood
  <1> QED
    BY <1>3, <1>4, <1>9, QueryStore

LEMMA UnbindStore ==
    ASSUME Inv, CallShaped, StoreInv, NEW c \in Callers, Unbind(c)
    PROVE  StoreStep
  <1> DEFINE r == call[c]
             l == loc[c]
             q == doubt[c]
  <1>0. /\ running \in Config /\ startup \in Config /\ Sound(running) /\ Sound(startup)
        /\ r \in Request /\ l \in Local /\ q \in SUBSET Message /\ Shape(r, pc[c], l)
        /\ c \in sessions => Phase(r, pc[c], l, running, startup, q) /\ Pending(running, q)
    BY SessionFacts
  <1>1. pc[c] = "unbind"
    BY DEF Unbind, Send
  <1> DEFINE m == UnbindOf(r.tmpl, l.cur.cert)
             e == [l EXCEPT !.exp = WithoutCertificate(@, l.cur.cert)]
  <1>2. /\ ~ r.create /\ Common(r, l) /\ Replaces(r, l) /\ ~ l.wrote
        /\ l.exp = WithBinding(l.base, Desired(r)) /\ (l.mutated \/ Desired(r) \in l.base.certs)
    BY <1>0, <1>1 DEF Shape, Course, Expected
  <1>3. m \in Message /\ m.op = "unbind" /\ m.tmpl = r.tmpl /\ m.cert = l.cur.cert
    <2>1. l.cur.cert \in Names
      BY <1>0, <1>2 DEF Local, Binding, Replaces
    <2> QED
      BY <1>0, <2>1, MessagesTyped DEF UnbindOf, Request
  <1>4. e.exp = WithoutCertificate(l.exp, l.cur.cert) /\ e.base = l.base /\ e.seen = l.seen
        /\ e.wrote = l.wrote /\ e.rolled = l.rolled
    BY <1>0 DEF Local
  <1>5. ASSUME c \in sessions
        PROVE  Steady(r, l, running, startup, q)
    BY <1>0, <1>1, <1>2, <1>5, IsSteady DEF SteadyLabels
  <1>6. c \in sessions => Allowed(running, m)
    <2>1. Desired(r) \in l.exp.certs /\ Desired(r).cert # l.cur.cert
      BY <1>0, <1>2, WithOf, DesiredTyped DEF Replaces, Desired, Local
    <2> QED
      BY <1>3, <1>5, <2>1 DEF Steady, Allowed, Kept
  <1>7. Send(c, "unbind", m, Go("postUnbind", e), Failed(r, l, "failed"))
    BY DEF Unbind
  <1> HIDE DEF e, m
  <1>8. ASSUME c \in sessions, NEW R2, NEW S2, Effect(running, startup, m, R2, S2)
        PROVE  Good(r, Go("postUnbind", e), R2, S2, q)
    <2>1. /\ R2 \in Config /\ OneTemplate(running, r.tmpl, R2)
          /\ R2.tmpl[r.tmpl] = WithoutCertificate(running.tmpl[r.tmpl], l.cur.cert)
      BY <1>0, <1>3, <1>8, UnbindEffect, EffectTyped
    <2>2. Refs(Restored(r, e, R2)) = Refs(Restored(r, l, running))
      <3>1. Restored(r, e, R2) = Restored(r, l, R2)
        BY <1>4 DEF Restored
      <3> QED
        BY <1>0, <1>2, <2>1, <3>1, SameRestored
    <2>3. Steady(r, e, R2, S2, q)
      BY <1>2, <1>4, <1>5, <1>8, <2>1, <2>2 DEF Steady
    <2> QED
      BY <2>3, SteadyGood DEF SteadyLabels
  <1>9. ASSUME c \in sessions
        PROVE  Good(r, Failed(r, l, "failed"), running, startup, q \cup Parts(m))
    <2>1. q \cup Parts(m) = {m}
      BY <1>3, <1>5, <1>9 DEF Steady, Parts
    <2>2. Pending(running, {m})
      BY <1>6, <1>9 DEF Pending
    <2>3. l.mutated \/ l.up = {}
      BY <1>0, <1>2, <1>5, <1>9, NothingToUndo
    <2>4. Good(r, Failed(r, l, "failed"), running, startup, {m})
      BY <1>0, <1>1, <1>9, <2>2, <2>3, ErrorGood DEF Errors
    <2> QED
      BY <2>1, <2>4
  <1> QED
    BY <1>3, <1>6, <1>7, <1>8, <1>9, SendStore

LEMMA PostUnbindStore ==
    ASSUME Inv, CallShaped, StoreInv, NEW c \in Callers, PostUnbind(c)
    PROVE  StoreStep
  <1> DEFINE r == call[c]
             l == loc[c]
             q == doubt[c]
  <1>0. /\ running \in Config /\ startup \in Config /\ Sound(running) /\ Sound(startup)
        /\ r \in Request /\ l \in Local /\ q \in SUBSET Message /\ Shape(r, pc[c], l)
        /\ c \in sessions => Phase(r, pc[c], l, running, startup, q) /\ Pending(running, q)
    BY SessionFacts
  <1>1. pc[c] = "postUnbind"
    BY DEF PostUnbind, Query
  <1>2. ~ r.create
    BY <1>0, <1>1 DEF Shape, Course
  <1>3. Query(c, "postUnbind", Require(r, l, OldBindingRemoved(r, l)), Failed(r, l, "failed"))
    BY DEF PostUnbind
  <1>9. c \in sessions => Good(r, Failed(r, l, "failed"), running, startup, q)
    BY <1>0, <1>1, QueryErrorGood DEF Errors
  <1>4. ASSUME c \in sessions
        PROVE  Good(r, Require(r, l, OldBindingRemoved(r, l)), running, startup, q)
    <2>1. Steady(r, l, running, startup, q)
      BY <1>0, <1>1, <1>2, <1>4, IsSteady DEF SteadyLabels
    <2>2. Good(r, OldBindingRemoved(r, l), running, startup, q)
      BY <1>0, <2>1, OldBindingRemovedGood
    <2> QED
      BY <1>0, <1>1, <1>4, <2>2, RequireGood
  <1> QED
    BY <1>3, <1>4, <1>9, QueryStore

LEMMA PrePersistStore ==
    ASSUME Inv, CallShaped, StoreInv, NEW c \in Callers, PrePersist(c)
    PROVE  StoreStep
  <1> DEFINE r == call[c]
             l == loc[c]
             q == doubt[c]
  <1>0. /\ running \in Config /\ startup \in Config /\ Sound(running) /\ Sound(startup)
        /\ r \in Request /\ l \in Local /\ q \in SUBSET Message /\ Shape(r, pc[c], l)
        /\ c \in sessions => Phase(r, pc[c], l, running, startup, q) /\ Pending(running, q)
    BY SessionFacts
  <1>1. pc[c] = "prePersist"
    BY DEF PrePersist, Query
  <1>2. ~ r.create
    BY <1>0, <1>1 DEF Shape, Course
  <1>3. Query(c, "prePersist", Require(r, l, Go("persist", l)), Failed(r, l, "failed"))
    BY DEF PrePersist
  <1>9. c \in sessions => Good(r, Failed(r, l, "failed"), running, startup, q)
    BY <1>0, <1>1, QueryErrorGood DEF Errors
  <1>4. ASSUME c \in sessions
        PROVE  Good(r, Require(r, l, Go("persist", l)), running, startup, q)
    <2>1. Steady(r, l, running, startup, q)
      BY <1>0, <1>1, <1>2, <1>4, IsSteady DEF SteadyLabels
    <2>2. Good(r, Go("persist", l), running, startup, q)
      BY <2>1, SteadyGood DEF SteadyLabels
    <2> QED
      BY <1>0, <1>1, <1>4, <2>2, RequireGood
  <1> QED
    BY <1>3, <1>4, <1>9, QueryStore

LEMMA WriteMessage == WriteMemory \in Message /\ WriteMemory.op = "write" /\ Parts(WriteMemory) = {WriteMemory}
  BY MessagesTyped DEF WriteMemory, Parts

LEMMA PersistStore ==
    ASSUME Inv, CallShaped, StoreInv, NEW c \in Callers, Persist(c)
    PROVE  StoreStep
  <1> DEFINE r == call[c]
             l == loc[c]
             q == doubt[c]
  <1>0. /\ running \in Config /\ startup \in Config /\ Sound(running) /\ Sound(startup)
        /\ r \in Request /\ l \in Local /\ q \in SUBSET Message /\ Shape(r, pc[c], l)
        /\ c \in sessions => Phase(r, pc[c], l, running, startup, q) /\ Pending(running, q)
    BY SessionFacts
  <1>1. pc[c] = "persist"
    BY DEF Persist, Send
  <1> DEFINE e == [l EXCEPT !.wrote = TRUE, !.stage = "persisted"]
             f == [l EXCEPT !.full = TRUE]
  <1>2. ~ r.create /\ ~ l.wrote /\ ~ l.rolled
    BY <1>0, <1>1 DEF Shape, Course, Calm
  <1>3. e \in Local
    BY <1>0 DEF Local, Stages
  <1>4. /\ e.exp = l.exp /\ e.base = l.base /\ e.seen = l.seen /\ e.rolled = l.rolled
        /\ f.exp = l.exp /\ f.base = l.base /\ f.seen = l.seen /\ f.rolled = l.rolled
        /\ f.wrote = l.wrote
    BY <1>0 DEF Local
  <1>5. ASSUME c \in sessions
        PROVE  Steady(r, l, running, startup, q)
    BY <1>0, <1>1, <1>2, <1>5, IsSteady DEF SteadyLabels
  <1>6. Allowed(running, WriteMemory)
    BY DEF Allowed, WriteMemory
  <1>7. Send(c, "persist", WriteMemory, Cleanup(r, e), Go("rbInspect", f))
    BY DEF Persist
  <1> HIDE DEF e, f
  <1>8. ASSUME c \in sessions, NEW R2, NEW S2, Effect(running, startup, WriteMemory, R2, S2)
        PROVE  Good(r, Cleanup(r, e), R2, S2, q)
    <2>1. R2 = running /\ S2 = running
      BY <1>0, <1>8, WriteMessage, WriteEffect
    <2>2. Restored(r, e, running) = Restored(r, l, running)
      BY <1>4 DEF Restored
    <2>3. Steady(r, e, R2, S2, q)
      BY <1>4, <1>5, <1>8, <2>1, <2>2 DEF Steady
    <2> QED
      BY <1>0, <1>3, <2>3, CleanupGood
  <1>9. ASSUME c \in sessions
        PROVE  Good(r, Go("rbInspect", f), running, startup, q \cup Parts(WriteMemory))
    <2>1. q \cup Parts(WriteMemory) = {WriteMemory}
      BY <1>5, <1>9, WriteMessage DEF Steady
    <2>2. Pending(running, {WriteMemory})
      BY WritePending
    <2>3. Restored(r, f, running) = Restored(r, l, running)
      BY <1>4 DEF Restored
    <2>4. Good(r, Go("rbInspect", f), running, startup, {WriteMemory})
      BY <1>2, <1>4, <1>5, <1>9, <2>2, <2>3
         DEF Steady, Good, Phase, InDoubt, Matching, Listed, Baseline, Saved, Scanned, TakenBack
    <2> QED
      BY <2>1, <2>4
  <1> QED
    BY <1>6, <1>7, <1>8, <1>9, WriteMessage, SendStore

LEMMA ScanClientStore ==
    ASSUME Inv, CallShaped, StoreInv, NEW c \in Callers, ScanClient(c)
    PROVE  StoreStep
  <1> DEFINE r == call[c]
             l == loc[c]
             q == doubt[c]
  <1>0. /\ running \in Config /\ startup \in Config /\ Sound(running) /\ Sound(startup)
        /\ r \in Request /\ l \in Local /\ q \in SUBSET Message /\ Shape(r, pc[c], l)
        /\ c \in sessions => Phase(r, pc[c], l, running, startup, q) /\ Pending(running, q)
    BY SessionFacts
  <1>1. pc[c] = "scanClient"
    BY DEF ScanClient, Query
  <1> DEFINE e == [l EXCEPT !.refs = ClientNames(c)]
  <1>2. ~ r.create
    BY <1>0, <1>1 DEF Shape, Course
  <1>3. Query(c, "scanClient", Go("scanServer", e), Failed(r, l, "failed"))
    BY DEF ScanClient
  <1>9. c \in sessions => Good(r, Failed(r, l, "failed"), running, startup, q)
    BY <1>0, <1>1, QueryErrorGood DEF Errors
  <1>5. /\ e.exp = l.exp /\ e.base = l.base /\ e.seen = l.seen /\ e.rolled = l.rolled
        /\ e.wrote = l.wrote /\ e.refs = ClientNames(c)
    BY <1>0 DEF Local
  <1> HIDE DEF e
  <1>4. ASSUME c \in sessions
        PROVE  Good(r, Go("scanServer", e), running, startup, q)
    <2>1. Steady(r, l, running, startup, q)
      BY <1>0, <1>1, <1>2, <1>4, IsSteady DEF SteadyLabels
    <2>2. Steady(r, e, running, startup, q)
      BY <1>5, <2>1, StillSteady
    <2>3. Scanned("scanServer", e, running)
      BY <1>5 DEF Scanned, ClientNames
    <2> QED
      BY <2>2, <2>3 DEF Steady, Good, Phase, InDoubt, Pending, Matching, Listed, Baseline, Saved, TakenBack
  <1> QED
    BY <1>3, <1>4, <1>9, QueryStore

LEMMA ScanServerStore ==
    ASSUME Inv, CallShaped, StoreInv, NEW c \in Callers, ScanServer(c)
    PROVE  StoreStep
  <1> DEFINE r == call[c]
             l == loc[c]
             q == doubt[c]
  <1>0. /\ running \in Config /\ startup \in Config /\ Sound(running) /\ Sound(startup)
        /\ r \in Request /\ l \in Local /\ q \in SUBSET Message /\ Shape(r, pc[c], l)
        /\ c \in sessions => Phase(r, pc[c], l, running, startup, q) /\ Pending(running, q)
    BY SessionFacts
  <1>1. pc[c] = "scanServer"
    BY DEF ScanServer, Query
  <1> DEFINE e == [l EXCEPT !.refs = @ \cup NamesIn(running.server)]
  <1>2. ~ r.create
    BY <1>0, <1>1 DEF Shape, Course
  <1>3. Query(c, "scanServer", AfterScan(r, e), Failed(r, l, "failed"))
    BY DEF ScanServer
  <1>9. c \in sessions => Good(r, Failed(r, l, "failed"), running, startup, q)
    BY <1>0, <1>1, QueryErrorGood DEF Errors
  <1>5. /\ e.exp = l.exp /\ e.base = l.base /\ e.seen = l.seen /\ e.rolled = l.rolled
        /\ e.wrote = l.wrote /\ e.refs = l.refs \cup NamesIn(running.server)
    BY <1>0 DEF Local
  <1>6. e \in Local
    <2>1. NamesIn(running.server) \subseteq Names
      BY <1>0 DEF Config, File, NamesIn
    <2> QED
      BY <1>0, <2>1 DEF Local
  <1> HIDE DEF e
  <1>4. ASSUME c \in sessions
        PROVE  Good(r, AfterScan(r, e), running, startup, q)
    <2>1. Steady(r, l, running, startup, q)
      BY <1>0, <1>1, <1>2, <1>4, IsSteady
    <2>2. Steady(r, e, running, startup, q)
      BY <1>5, <2>1, StillSteady
    <2>3. \A t \in Templates : NamesIn(TemplateFiles(running.tmpl[t])) \subseteq l.refs
      BY <1>0, <1>1, <1>4 DEF Phase, Scanned
    <2>4. NamesIn(Refs(running)) \subseteq e.refs
      BY <1>5, <2>3, InRefs DEF NamesIn
    <2> QED
      BY <1>0, <1>6, <2>2, <2>4, AfterScanGood
  <1> QED
    BY <1>3, <1>4, <1>9, QueryStore

(* Files that the reference scan has spared no reference to. *)
LEMMA DoomedUnreferenced ==
    ASSUME NEW r, NEW l, NEW R, NamesIn(Refs(R)) \subseteq l.refs
    PROVE  DoomedPair(r, l) \cap Refs(R) = {} /\ DoomedChain(r, l) \cap Refs(R) = {}
  BY DEF DoomedPair, DoomedChain, NamesIn

LEMMA DeleteMessage ==
    ASSUME NEW F \in SUBSET File, NEW R, F \cap Refs(R) = {}
    PROVE  /\ DeleteOf(F) \in Message /\ DeleteOf(F).op = "delete" /\ DeleteOf(F).files = F
           /\ Allowed(R, DeleteOf(F))
           /\ \A m \in Parts(DeleteOf(F)) :
                 /\ m.op = "delete" /\ m.files \subseteq F /\ Allowed(R, m)
  <1>1. /\ DeleteOf(F) \in Message /\ DeleteOf(F).op = "delete" /\ DeleteOf(F).files = F
    BY MessagesTyped DEF DeleteOf
  <1>2. Parts(DeleteOf(F)) = {DeleteOf({f}) : f \in F}
    BY <1>1 DEF Parts
  <1>3. \A f \in F : DeleteOf({f}).op = "delete" /\ DeleteOf({f}).files = {f}
    BY DEF DeleteOf
  <1>4. ASSUME NEW m \in Parts(DeleteOf(F))
        PROVE  m.op = "delete" /\ m.files \subseteq F /\ Allowed(R, m)
    <2>1. PICK f \in F : m = DeleteOf({f})
      BY <1>2
    <2>2. m.op = "delete" /\ m.files = {f}
      BY <1>3, <2>1
    <2> QED
      BY <2>2 DEF Allowed
  <1>5. Allowed(R, DeleteOf(F))
    BY <1>1 DEF Allowed
  <1> QED
    BY <1>1, <1>4, <1>5

LEMMA DeletePairStore ==
    ASSUME Inv, CallShaped, StoreInv, NEW c \in Callers, DeletePair(c)
    PROVE  StoreStep
  <1> DEFINE r == call[c]
             l == loc[c]
             q == doubt[c]
  <1>0. /\ running \in Config /\ startup \in Config /\ Sound(running) /\ Sound(startup)
        /\ r \in Request /\ l \in Local /\ q \in SUBSET Message /\ Shape(r, pc[c], l)
        /\ c \in sessions => Phase(r, pc[c], l, running, startup, q) /\ Pending(running, q)
    BY SessionFacts
  <1>1. pc[c] = "deletePair"
    BY DEF DeletePair, Send
  <1> DEFINE doomed == DoomedPair(r, l)
             m == DeleteOf(doomed)
             e == [l EXCEPT !.deleted = doomed]
  <1>2. /\ ~ r.create /\ Common(r, l) /\ l.cur # NoBinding
        /\ l.mutated \/ Desired(r) \in l.base.certs
    BY <1>0, <1>1 DEF Shape, Course, Expected, Replaces
  <1>3. doomed \in SUBSET File
    BY <1>0, <1>2, DoomedTyped
  <1>4. /\ e \in Local /\ e.exp = l.exp /\ e.base = l.base /\ e.seen = l.seen
        /\ e.rolled = l.rolled /\ e.wrote = l.wrote /\ e.refs = l.refs
    BY <1>0, <1>3 DEF Local
  <1>5. Send(c, "deletePair", m, AfterPair(r, e), Failed(r, l, "failed"))
    BY DEF DeletePair
  <1> HIDE DEF e, doomed
  <1>6. ASSUME c \in sessions
        PROVE  /\ Steady(r, l, running, startup, q) /\ NamesIn(Refs(running)) \subseteq l.refs
               /\ doomed \cap Refs(running) = {}
    <2>1. Steady(r, l, running, startup, q)
      BY <1>0, <1>1, <1>2, <1>6, IsSteady
    <2>2. NamesIn(Refs(running)) \subseteq l.refs
      BY <1>0, <1>1, <1>6 DEF Phase, Scanned
    <2> QED
      BY <2>1, <2>2, DoomedUnreferenced DEF doomed
  <1>7. m \in Message /\ m.op = "delete" /\ m.files = doomed
    BY <1>3, MessagesTyped DEF DeleteOf
  <1>10. c \in sessions => Allowed(running, m) /\ \A n \in Parts(m) : n.op = "delete" /\ Allowed(running, n)
    BY <1>3, <1>6, DeleteMessage
  <1> HIDE DEF m
  <1>8. ASSUME c \in sessions, NEW R2, NEW S2, Effect(running, startup, m, R2, S2)
        PROVE  Good(r, AfterPair(r, e), R2, S2, q)
    <2>0. running \in Config /\ m \in Message /\ m.op = "delete" /\ Effect(running, startup, m, R2, S2)
      BY <1>0, <1>7, <1>8
    <2>1. /\ R2.tmpl = running.tmpl /\ R2.server = running.server
          /\ R2.files = running.files \ m.files /\ S2 = startup
      BY <2>0, DeleteEffect
    <2>2. R2 \in Config
      BY <1>0, <1>7, <1>8, EffectTyped
    <2>3. Refs(Restored(r, e, R2)) = Refs(Restored(r, l, running))
      <3>1. Restored(r, e, R2) = Restored(r, l, R2)
        BY <1>4 DEF Restored
      <3> QED
        BY <1>0, <2>1, <2>2, <3>1, SameRestored
    <2>4. Steady(r, e, R2, S2, q)
      BY <1>4, <1>6, <1>8, <2>1, <2>3 DEF Steady
    <2>5. NamesIn(Refs(R2)) \subseteq e.refs
      <3>1. Refs(R2) = Refs(running)
        BY <2>1, SameRefs
      <3> QED
        BY <1>4, <1>6, <1>8, <3>1
    <2> QED
      BY <1>0, <1>4, <2>4, <2>5, AfterPairGood
  <1>9. ASSUME c \in sessions
        PROVE  Good(r, Failed(r, l, "failed"), running, startup, q \cup Parts(m))
    <2>1. Pending(running, q \cup Parts(m))
      BY <1>6, <1>9, <1>10 DEF Steady, Pending
    <2>2. l.mutated \/ l.up = {}
      BY <1>0, <1>2, <1>6, <1>9, NothingToUndo
    <2> QED
      BY <1>0, <1>1, <1>9, <2>1, <2>2, ErrorGood DEF Errors
  <1> QED
    BY <1>5, <1>7, <1>8, <1>9, <1>10, SendStore

LEMMA DeleteChainStore ==
    ASSUME Inv, CallShaped, StoreInv, NEW c \in Callers, DeleteChain(c)
    PROVE  StoreStep
  <1> DEFINE r == call[c]
             l == loc[c]
             q == doubt[c]
  <1>0. /\ running \in Config /\ startup \in Config /\ Sound(running) /\ Sound(startup)
        /\ r \in Request /\ l \in Local /\ q \in SUBSET Message /\ Shape(r, pc[c], l)
        /\ c \in sessions => Phase(r, pc[c], l, running, startup, q) /\ Pending(running, q)
    BY SessionFacts
  <1>1. pc[c] = "deleteChain"
    BY DEF DeleteChain, Send
  <1> DEFINE doomed == DoomedChain(r, l)
             m == DeleteOf(doomed)
             e == [l EXCEPT !.deleted = @ \cup doomed]
  <1>2. /\ ~ r.create /\ Common(r, l) /\ l.cur # NoBinding
        /\ l.mutated \/ Desired(r) \in l.base.certs
    BY <1>0, <1>1 DEF Shape, Course, Expected, Replaces
  <1>3. doomed \in SUBSET File
    BY <1>0, <1>2, DoomedTyped
  <1>4. /\ e \in Local /\ e.exp = l.exp /\ e.base = l.base /\ e.seen = l.seen
        /\ e.rolled = l.rolled /\ e.wrote = l.wrote /\ e.refs = l.refs
    BY <1>0, <1>3 DEF Local
  <1>5. Send(c, "deleteChain", m, AfterCleanup(r, e), Failed(r, l, "failed"))
    BY DEF DeleteChain
  <1> HIDE DEF e, doomed
  <1>6. ASSUME c \in sessions
        PROVE  /\ Steady(r, l, running, startup, q) /\ NamesIn(Refs(running)) \subseteq l.refs
               /\ doomed \cap Refs(running) = {}
    <2>1. Steady(r, l, running, startup, q)
      BY <1>0, <1>1, <1>2, <1>6, IsSteady
    <2>2. NamesIn(Refs(running)) \subseteq l.refs
      BY <1>0, <1>1, <1>6 DEF Phase, Scanned
    <2> QED
      BY <2>1, <2>2, DoomedUnreferenced DEF doomed
  <1>7. m \in Message /\ m.op = "delete" /\ m.files = doomed
    BY <1>3, MessagesTyped DEF DeleteOf
  <1>10. c \in sessions => Allowed(running, m) /\ \A n \in Parts(m) : n.op = "delete" /\ Allowed(running, n)
    BY <1>3, <1>6, DeleteMessage
  <1> HIDE DEF m
  <1>8. ASSUME c \in sessions, NEW R2, NEW S2, Effect(running, startup, m, R2, S2)
        PROVE  Good(r, AfterCleanup(r, e), R2, S2, q)
    <2>0. running \in Config /\ m \in Message /\ m.op = "delete" /\ Effect(running, startup, m, R2, S2)
      BY <1>0, <1>7, <1>8
    <2>1. /\ R2.tmpl = running.tmpl /\ R2.server = running.server
          /\ R2.files = running.files \ m.files /\ S2 = startup
      BY <2>0, DeleteEffect
    <2>2. R2 \in Config
      BY <1>0, <1>7, <1>8, EffectTyped
    <2>3. Refs(Restored(r, e, R2)) = Refs(Restored(r, l, running))
      <3>1. Restored(r, e, R2) = Restored(r, l, R2)
        BY <1>4 DEF Restored
      <3> QED
        BY <1>0, <2>1, <2>2, <3>1, SameRestored
    <2>4. Steady(r, e, R2, S2, q)
      BY <1>4, <1>6, <1>8, <2>1, <2>3 DEF Steady
    <2>5. NamesIn(Refs(R2)) \subseteq e.refs
      <3>1. Refs(R2) = Refs(running)
        BY <2>1, SameRefs
      <3> QED
        BY <1>4, <1>6, <1>8, <3>1
    <2> QED
      BY <1>0, <1>4, <2>4, <2>5, AfterCleanupGood
  <1>9. ASSUME c \in sessions
        PROVE  Good(r, Failed(r, l, "failed"), running, startup, q \cup Parts(m))
    <2>1. Pending(running, q \cup Parts(m))
      BY <1>6, <1>9, <1>10 DEF Steady, Pending
    <2>2. l.mutated \/ l.up = {}
      BY <1>0, <1>2, <1>6, <1>9, NothingToUndo
    <2> QED
      BY <1>0, <1>1, <1>9, <2>1, <2>2, ErrorGood DEF Errors
  <1> QED
    BY <1>5, <1>7, <1>8, <1>9, <1>10, SendStore

LEMMA PersistCleanupStore ==
    ASSUME Inv, CallShaped, StoreInv, NEW c \in Callers, PersistCleanup(c)
    PROVE  StoreStep
  <1> DEFINE r == call[c]
             l == loc[c]
             q == doubt[c]
  <1>0. /\ running \in Config /\ startup \in Config /\ Sound(running) /\ Sound(startup)
        /\ r \in Request /\ l \in Local /\ q \in SUBSET Message /\ Shape(r, pc[c], l)
        /\ c \in sessions => Phase(r, pc[c], l, running, startup, q) /\ Pending(running, q)
    BY SessionFacts
  <1>1. pc[c] = "persistCleanup"
    BY DEF PersistCleanup, Send
  <1>2. /\ ~ r.create /\ Common(r, l) /\ (l.mutated \/ Desired(r) \in l.base.certs)
    BY <1>0, <1>1 DEF Shape, Course, Expected
  <1>3. ASSUME c \in sessions
        PROVE  Steady(r, l, running, startup, q)
    BY <1>0, <1>1, <1>2, <1>3, IsSteady DEF SteadyLabels
  <1>4. Allowed(running, WriteMemory)
    BY DEF Allowed, WriteMemory
  <1>5. Send(c, "persistCleanup", WriteMemory, Complete(l), Failed(r, l, "failed"))
    BY DEF PersistCleanup
  <1>6. ASSUME c \in sessions, NEW R2, NEW S2, Effect(running, startup, WriteMemory, R2, S2)
        PROVE  Good(r, Complete(l), R2, S2, q)
    <2>1. R2 = running /\ S2 = running
      BY <1>0, <1>6, WriteMessage, WriteEffect
    <2>2. Steady(r, l, R2, S2, q)
      BY <1>3, <1>6, <2>1 DEF Steady
    <2> QED
      BY <1>0, <2>2, SteadyCompleteGood
  <1>7. ASSUME c \in sessions
        PROVE  Good(r, Failed(r, l, "failed"), running, startup, q \cup Parts(WriteMemory))
    <2>1. q \cup Parts(WriteMemory) = {WriteMemory}
      BY <1>3, <1>7, WriteMessage DEF Steady
    <2>2. Pending(running, {WriteMemory})
      BY WritePending
    <2>3. l.mutated \/ l.up = {}
      BY <1>0, <1>2, <1>3, <1>7, NothingToUndo
    <2>4. Good(r, Failed(r, l, "failed"), running, startup, {WriteMemory})
      BY <1>0, <1>1, <1>7, <2>2, <2>3, ErrorGood DEF Errors
    <2> QED
      BY <2>1, <2>4
  <1> QED
    BY <1>4, <1>5, <1>6, <1>7, WriteMessage, SendStore

LEMMA CreatePersistStore ==
    ASSUME Inv, CallShaped, StoreInv, NEW c \in Callers, CreatePersist(c)
    PROVE  StoreStep
  <1> DEFINE r == call[c]
             l == loc[c]
             q == doubt[c]
  <1>0. /\ running \in Config /\ startup \in Config /\ Sound(running) /\ Sound(startup)
        /\ r \in Request /\ l \in Local /\ q \in SUBSET Message /\ Shape(r, pc[c], l)
        /\ c \in sessions => Phase(r, pc[c], l, running, startup, q) /\ Pending(running, q)
    BY SessionFacts
  <1>1. pc[c] = "createPersist"
    BY DEF CreatePersist, Send
  <1> DEFINE e == [l EXCEPT !.wrote = TRUE]
             f == [l EXCEPT !.attempted = TRUE]
  <1>2. r.create /\ ~ l.rolled /\ FilesOf(Desired(r)) \subseteq l.seen \cup l.up
    BY <1>0, <1>1 DEF Shape, Course, Calm, Material
  <1>3. e \in Local /\ f \in Local
    BY <1>0 DEF Local
  <1>4. /\ e.rolled = l.rolled /\ f.rolled = l.rolled /\ f.up = l.up /\ f.base = l.base
        /\ f.seen = l.seen
    BY <1>0 DEF Local
  <1>5. Allowed(running, WriteMemory)
    BY DEF Allowed, WriteMemory
  <1>6. Send(c, "createPersist", WriteMemory, Complete(e), Failed(r, f, "failed"))
    BY DEF CreatePersist
  <1> HIDE DEF e, f
  <1>7. c \in sessions =>
          /\ q = {} /\ Refs(Restored(r, l, running)) \subseteq l.seen
          /\ FilesOf(Desired(r)) \subseteq running.files
    BY <1>0, <1>1, <1>2 DEF Phase, InDoubt, Listed
  <1>8. ASSUME c \in sessions, NEW R2, NEW S2, Effect(running, startup, WriteMemory, R2, S2)
        PROVE  Good(r, Complete(e), R2, S2, q)
    <2>1. R2 = running /\ S2 = running
      BY <1>0, <1>8, WriteMessage, WriteEffect
    <2>2. Good(r, Complete(e), R2, S2, {})
      BY <1>0, <1>2, <1>3, <1>4, <1>7, <1>8, <2>1, CompleteGood
    <2> QED
      BY <1>7, <1>8, <2>2
  <1>9. ASSUME c \in sessions
        PROVE  Good(r, Failed(r, f, "failed"), running, startup, q \cup Parts(WriteMemory))
    <2>1. q \cup Parts(WriteMemory) = {WriteMemory}
      BY <1>7, <1>9, WriteMessage
    <2>2. Pending(running, {WriteMemory})
      BY WritePending
    <2>3. Restored(r, f, running) = Restored(r, l, running)
      BY <1>4 DEF Restored
    <2>4. Retractable(r, f, running, {WriteMemory})
      BY <1>2, <1>4, <1>7, <1>9, <2>3, WriteMessage DEF Retractable, Harmless
    <2>5. Good(r, Failed(r, f, "failed"), running, startup, {WriteMemory})
      BY <1>0, <1>2, <1>3, <1>4, <2>2, <2>4, FailedGood DEF Errors
    <2> QED
      BY <2>1, <2>5
  <1> QED
    BY <1>5, <1>6, <1>8, <1>9, WriteMessage, SendStore

(* The previous binding stays while the new one is taken away. *)
LEMMA PreviousKept ==
    ASSUME NEW r \in Request, NEW l \in Local, NEW R,
           ~ Bound(l.base, r.name), l.cur \in SelectCurrent(l.base, r.current, Desired(r)),
           r.tmpl \in ServingTemplates => l.base.certs # {},
           PreviousBinding(l.base, r.current) \subseteq R.tmpl[r.tmpl].certs
    PROVE  Kept(R, r.tmpl, r.name)
  <1>1. Desired(r) \notin l.base.certs
    BY DEF Bound, Desired
  <1>2. \A b \in PreviousBinding(l.base, r.current) : b.cert # r.name
    BY DEF PreviousBinding, Bound
  <1>3. r.tmpl \in ServingTemplates => PreviousBinding(l.base, r.current) # {}
    BY <1>1 DEF PreviousBinding, SelectCurrent
  <1> QED
    BY <1>2, <1>3 DEF Kept

(* What is deleted again is referred to by nothing. *)
LEMMA UploadedUnreferenced ==
    ASSUME NEW r \in Request, NEW l \in Local, NEW R \in Config, Common(r, l),
           ~ r.create => R.tmpl[r.tmpl] = l.base, Refs(Restored(r, l, R)) \subseteq l.seen
    PROVE  l.up \cap Refs(R) = {}
  BY RestoredIs DEF Common

LEMMA RemoveDesiredGood ==
    ASSUME NEW r, NEW l, NEW q, Reverting(r, l, running, q), Kept(running, r.tmpl, r.name)
    PROVE  Good(r, RemoveDesired(r, l), running, startup, q)
  BY RevertingGood DEF RemoveDesired

LEMMA RevertingKeepsFiles ==
    ASSUME NEW r \in Request, NEW l \in Local, NEW R \in Config, NEW q, Reverting(r, l, R, q),
           Common(r, l), l.mutated \/ Desired(r) \in l.base.certs
    PROVE  l.mutated \/ l.up = {}
  BY PresentNotUploaded DEF Reverting

LEMMA RbInspectStore ==
    ASSUME Inv, CallShaped, StoreInv, NEW c \in Callers, RbInspect(c)
    PROVE  StoreStep
  <1> DEFINE r == call[c]
             l == loc[c]
             q == doubt[c]
  <1>0. /\ running \in Config /\ startup \in Config /\ Sound(running) /\ Sound(startup)
        /\ r \in Request /\ l \in Local /\ q \in SUBSET Message /\ Shape(r, pc[c], l)
        /\ c \in sessions => Phase(r, pc[c], l, running, startup, q) /\ Pending(running, q)
    BY SessionFacts
  <1>1. pc[c] = "rbInspect"
    BY DEF RbInspect, Query
  <1> DEFINE T == running.tmpl[r.tmpl]
             ok == IF T # l.exp THEN Failed(r, l, "rollback")
                   ELSE IF ~ Bound(l.base, r.name)
                     THEN IF PreviousBinding(l.base, r.current) \subseteq T.certs
                            THEN RemoveDesired(r, l)
                            ELSE Go("rbBind", l)
                   ELSE IF Desired(r) \in l.base.certs THEN Go("rbVerify", l)
                   ELSE Failed(r, l, "rollback")
  <1>2. ~ r.create /\ l.cur \in SelectCurrent(l.base, r.current, Desired(r))
    BY <1>0, <1>1 DEF Shape, Course, Expected
  <1>3. Query(c, "rbInspect", ok, Failed(r, l, "rollback"))
    BY DEF RbInspect
  <1>9. c \in sessions => Good(r, Failed(r, l, "rollback"), running, startup, q)
    BY <1>0, <1>1, QueryErrorGood DEF Errors
  <1>4. ASSUME c \in sessions
        PROVE  Good(r, ok, running, startup, q)
    <2>1. Reverting(r, l, running, q)
      BY <1>0, <1>1, <1>4, IsReverting
    <2>2. Good(r, Go("rbBind", l), running, startup, q) /\ Good(r, Go("rbVerify", l), running, startup, q)
      BY <2>1, RevertingGood
    <2>3. ASSUME ~ Bound(l.base, r.name), PreviousBinding(l.base, r.current) \subseteq T.certs
          PROVE  Good(r, RemoveDesired(r, l), running, startup, q)
      <3>1. Kept(running, r.tmpl, r.name)
        BY <1>0, <1>2, <2>1, <2>3, PreviousKept DEF Reverting
      <3> QED
        BY <2>1, <3>1, RemoveDesiredGood
    <2> QED
      BY <1>4, <1>9, <2>2, <2>3
  <1> HIDE DEF ok
  <1> QED
    BY <1>3, <1>4, <1>9, QueryStore

LEMMA RbBindStore ==
    ASSUME Inv, CallShaped, StoreInv, NEW c \in Callers, RbBind(c)
    PROVE  StoreStep
  <1> DEFINE r == call[c]
             l == loc[c]
             q == doubt[c]
  <1>0. /\ running \in Config /\ startup \in Config /\ Sound(running) /\ Sound(startup)
        /\ r \in Request /\ l \in Local /\ q \in SUBSET Message /\ Shape(r, pc[c], l)
        /\ c \in sessions => Phase(r, pc[c], l, running, startup, q) /\ Pending(running, q)
    BY SessionFacts
  <1>1. pc[c] = "rbBind"
    BY DEF RbBind, Send
  <1> DEFINE previous == CHOOSE b \in PreviousBinding(l.base, r.current) : TRUE
             m == BindOf(r.tmpl, previous)
  <1>2. /\ ~ r.create /\ Common(r, l) /\ ~ Bound(l.base, r.name)
        /\ l.mutated \/ Desired(r) \in l.base.certs
    BY <1>0, <1>1 DEF Shape, Course, Expected
  <1>3. previous \in l.base.certs
    <2>1. PreviousBinding(l.base, r.current) # {}
      BY <1>1 DEF Inv, LocalsFit, Fits
    <2>2. previous \in PreviousBinding(l.base, r.current)
      BY <2>1
    <2> QED
      BY <2>2 DEF PreviousBinding
  <1>4. Send(c, "rbBind", m, Go("rbReread", l), Failed(r, l, "rollback"))
    BY DEF RbBind
  <1> HIDE DEF previous
  <1>5. m \in Message /\ m.op = "bind" /\ m.tmpl = r.tmpl /\ m.binding = previous
    <2>1. previous \in Binding
      BY <1>0, <1>3 DEF Local, Template
    <2> QED
      BY <1>0, <2>1, MessagesTyped DEF BindOf, Request
  <1>6. previous.cert # r.name
    BY <1>2, <1>3 DEF Bound
  <1>7. ASSUME c \in sessions
        PROVE  Reverting(r, l, running, q) /\ Allowed(running, m)
    <2>1. Reverting(r, l, running, q)
      BY <1>0, <1>1, <1>7, IsReverting
    <2> QED
      BY <1>3, <1>5, <2>1 DEF Reverting, Allowed
  <1> HIDE DEF m
  <1>8. ASSUME c \in sessions, NEW R2, NEW S2, Effect(running, startup, m, R2, S2)
        PROVE  Good(r, Go("rbReread", l), R2, S2, q)
    <2>0. running \in Config /\ m \in Message /\ m.op = "bind" /\ Effect(running, startup, m, R2, S2)
      BY <1>0, <1>5, <1>8
    <2>4. OneTemplate(running, m.tmpl, R2) /\ m.binding \in R2.tmpl[m.tmpl].certs
      BY <2>0, BindEffect
    <2>5. R2 \in Config
      BY <1>0, <1>5, <1>8, EffectTyped
    <2>1. R2 \in Config /\ OneTemplate(running, r.tmpl, R2) /\ previous \in R2.tmpl[r.tmpl].certs
      BY <1>5, <2>4, <2>5
    <2>2. Refs(Restored(r, l, R2)) = Refs(Restored(r, l, running))
      BY <1>0, <1>2, <2>1, SameRestored
    <2>3. Reverting(r, l, R2, q) /\ Kept(R2, r.tmpl, r.name)
      BY <1>6, <1>7, <1>8, <2>1, <2>2 DEF Reverting, Kept
    <2> QED
      BY <2>3, RevertingGood
  <1>9. ASSUME c \in sessions
        PROVE  Good(r, Failed(r, l, "rollback"), running, startup, q \cup Parts(m))
    <2>1. Parts(m) = {m}
      BY <1>5 DEF Parts
    <2>2. Pending(running, q \cup {m})
      BY <1>0, <1>5, <1>7, <1>9, WriteMessage DEF Pending, Reverting
    <2>3. l.mutated \/ l.up = {}
      BY <1>0, <1>2, <1>7, <1>9, RevertingKeepsFiles
    <2>4. Good(r, Failed(r, l, "rollback"), running, startup, q \cup {m})
      BY <1>0, <1>1, <1>9, <2>2, <2>3, ErrorGood DEF Errors
    <2> QED
      BY <2>1, <2>4
  <1> QED
    BY <1>4, <1>5, <1>7, <1>8, <1>9, SendStore

LEMMA RbRereadStore ==
    ASSUME Inv, CallShaped, StoreInv, NEW c \in Callers, RbReread(c)
    PROVE  StoreStep
  <1> DEFINE r == call[c]
             l == loc[c]
             q == doubt[c]
  <1>0. /\ running \in Config /\ startup \in Config /\ Sound(running) /\ Sound(startup)
        /\ r \in Request /\ l \in Local /\ q \in SUBSET Message /\ Shape(r, pc[c], l)
        /\ c \in sessions => Phase(r, pc[c], l, running, startup, q) /\ Pending(running, q)
    BY SessionFacts
  <1>1. pc[c] = "rbReread"
    BY DEF RbReread, Query
  <1>2. ~ r.create
    BY <1>0, <1>1 DEF Shape, Course
  <1>3. Query(c, "rbReread", RemoveDesired(r, l), Failed(r, l, "rollback"))
    BY DEF RbReread
  <1>9. c \in sessions => Good(r, Failed(r, l, "rollback"), running, startup, q)
    BY <1>0, <1>1, QueryErrorGood DEF Errors
  <1>4. ASSUME c \in sessions
        PROVE  Good(r, RemoveDesired(r, l), running, startup, q)
    <2>1. Reverting(r, l, running, q)
      BY <1>0, <1>1, <1>4, IsReverting
    <2>2. Kept(running, r.tmpl, r.name)
      BY <1>0, <1>1, <1>2, <1>4 DEF Phase, Baseline
    <2> QED
      BY <2>1, <2>2, RemoveDesiredGood
  <1> QED
    BY <1>3, <1>4, <1>9, QueryStore

LEMMA RbUnbindStore ==
    ASSUME Inv, CallShaped, StoreInv, NEW c \in Callers, RbUnbind(c)
    PROVE  StoreStep
  <1> DEFINE r == call[c]
             l == loc[c]
             q == doubt[c]
  <1>0. /\ running \in Config /\ startup \in Config /\ Sound(running) /\ Sound(startup)
        /\ r \in Request /\ l \in Local /\ q \in SUBSET Message /\ Shape(r, pc[c], l)
        /\ c \in sessions => Phase(r, pc[c], l, running, startup, q) /\ Pending(running, q)
    BY SessionFacts
  <1>1. pc[c] = "rbUnbind"
    BY DEF RbUnbind, Send
  <1> DEFINE m == UnbindOf(r.tmpl, r.name)
  <1>2. ~ r.create /\ Common(r, l) /\ (l.mutated \/ Desired(r) \in l.base.certs)
    BY <1>0, <1>1 DEF Shape, Course, Expected
  <1>4. Send(c, "rbUnbind", m, Go("rbVerify", l), Failed(r, l, "rollback"))
    BY DEF RbUnbind
  <1>5. m \in Message /\ m.op = "unbind" /\ m.tmpl = r.tmpl /\ m.cert = r.name
    BY <1>0, MessagesTyped DEF UnbindOf, Request
  <1>7. ASSUME c \in sessions
        PROVE  Reverting(r, l, running, q) /\ Allowed(running, m)
    <2>1. Reverting(r, l, running, q)
      BY <1>0, <1>1, <1>7, IsReverting
    <2>2. Kept(running, r.tmpl, r.name)
      BY <1>0, <1>1, <1>2, <1>7 DEF Phase, Baseline
    <2> QED
      BY <1>5, <2>1, <2>2 DEF Allowed
  <1> HIDE DEF m
  <1>8. ASSUME c \in sessions, NEW R2, NEW S2, Effect(running, startup, m, R2, S2)
        PROVE  Good(r, Go("rbVerify", l), R2, S2, q)
    <2>1. R2 \in Config /\ OneTemplate(running, r.tmpl, R2)
      BY <1>0, <1>5, <1>8, UnbindEffect, EffectTyped
    <2>2. Refs(Restored(r, l, R2)) = Refs(Restored(r, l, running))
      BY <1>0, <1>2, <2>1, SameRestored
    <2>3. Reverting(r, l, R2, q)
      BY <1>7, <1>8, <2>2 DEF Reverting
    <2> QED
      BY <2>3, RevertingGood
  <1>9. ASSUME c \in sessions
        PROVE  Good(r, Failed(r, l, "rollback"), running, startup, q \cup Parts(m))
    <2>1. Parts(m) = {m}
      BY <1>5 DEF Parts
    <2>2. Pending(running, q \cup {m})
      BY <1>0, <1>5, <1>7, <1>9, WriteMessage DEF Pending, Reverting
    <2>3. l.mutated \/ l.up = {}
      BY <1>0, <1>2, <1>7, <1>9, RevertingKeepsFiles
    <2>4. Good(r, Failed(r, l, "rollback"), running, startup, q \cup {m})
      BY <1>0, <1>1, <1>9, <2>2, <2>3, ErrorGood DEF Errors
    <2> QED
      BY <2>1, <2>4
  <1> QED
    BY <1>4, <1>5, <1>7, <1>8, <1>9, SendStore

LEMMA RbVerifyStore ==
    ASSUME Inv, CallShaped, StoreInv, NEW c \in Callers, RbVerify(c)
    PROVE  StoreStep
  <1> DEFINE r == call[c]
             l == loc[c]
             q == doubt[c]
  <1>0. /\ running \in Config /\ startup \in Config /\ Sound(running) /\ Sound(startup)
        /\ r \in Request /\ l \in Local /\ q \in SUBSET Message /\ Shape(r, pc[c], l)
        /\ c \in sessions => Phase(r, pc[c], l, running, startup, q) /\ Pending(running, q)
    BY SessionFacts
  <1>1. pc[c] = "rbVerify"
    BY DEF RbVerify, Query
  <1> DEFINE ok == IF running.tmpl[r.tmpl] = l.base THEN Undo(r, l) ELSE Failed(r, l, "rollback")
  <1>2. ~ r.create /\ ~ l.rolled
    BY <1>0, <1>1 DEF Shape, Course, Calm
  <1>3. Query(c, "rbVerify", ok, Failed(r, l, "rollback"))
    BY DEF RbVerify
  <1>9. c \in sessions => Good(r, Failed(r, l, "rollback"), running, startup, q)
    BY <1>0, <1>1, QueryErrorGood DEF Errors
  <1>4. ASSUME c \in sessions
        PROVE  Good(r, ok, running, startup, q)
    <2>1. Reverting(r, l, running, q)
      BY <1>0, <1>1, <1>4, IsReverting
    <2>2. running.tmpl[r.tmpl] = l.base => Retractable(r, l, running, q)
      BY <2>1, WriteMessage DEF Reverting, Retractable, Harmless
    <2>3. running.tmpl[r.tmpl] = l.base => Good(r, Undo(r, l), running, startup, q)
      BY <1>0, <1>2, <1>4, <2>2, UndoGood
    <2> QED
      BY <1>4, <1>9, <2>3
  <1> HIDE DEF ok
  <1> QED
    BY <1>3, <1>4, <1>9, QueryStore

LEMMA WriteToo ==
    ASSUME NEW R, NEW q, Pending(R, q)
    PROVE  Pending(R, q \cup Parts(WriteMemory))
  BY WriteMessage DEF Pending, Allowed

LEMMA RbPersistStore ==
    ASSUME Inv, CallShaped, StoreInv, NEW c \in Callers, RbPersist(c)
    PROVE  StoreStep
  <1> DEFINE r == call[c]
             l == loc[c]
             q == doubt[c]
  <1>0. /\ running \in Config /\ startup \in Config /\ Sound(running) /\ Sound(startup)
        /\ r \in Request /\ l \in Local /\ q \in SUBSET Message /\ Shape(r, pc[c], l)
        /\ c \in sessions => Phase(r, pc[c], l, running, startup, q) /\ Pending(running, q)
    BY SessionFacts
  <1>1. pc[c] = "rbPersist"
    BY DEF RbPersist, Send
  <1> DEFINE e == [l EXCEPT !.rolled = TRUE, !.stage = "rolled-back"]
             g == [e EXCEPT !.err = "failed", !.full = FALSE]
  <1>2. ~ r.create /\ Common(r, l) /\ (l.mutated \/ Desired(r) \in l.base.certs)
    BY <1>0, <1>1 DEF Shape, Course, Expected
  <1>3. /\ e.up = l.up /\ e.mutated = l.mutated
        /\ g.err = "failed" /\ g.rolled /\ g.up = l.up /\ g.mutated = l.mutated /\ g.base = l.base
    BY <1>0 DEF Local
  <1>4. Send(c, "rbPersist", WriteMemory, Failed(r, e, "failed"), Failed(r, l, "rollback"))
    BY DEF RbPersist
  <1>5. Failed(r, e, "failed") = IF e.up # {} /\ ~ e.mutated THEN Undo(r, g) ELSE Go("logoff", g)
    BY DEF Failed
  <1> HIDE DEF e, g
  <1>6. Allowed(running, WriteMemory)
    BY DEF Allowed, WriteMemory
  <1>7. ASSUME c \in sessions
        PROVE  /\ l.mutated \/ l.up = {}
               /\ Harmless(r, l, q) /\ running.tmpl[r.tmpl] = l.base
               /\ r.chain # r.name => l.up \cap running.files = {}
    <2>1. /\ Harmless(r, l, q) /\ running.tmpl[r.tmpl] = l.base
          /\ r.chain # r.name => l.up \cap running.files = {}
      BY <1>0, <1>1, <1>2, <1>7 DEF Phase, InDoubt, Matching, TakenBack
    <2>2. Refs(Restored(r, l, running)) \subseteq l.seen
      BY <1>0, <1>1, <1>7 DEF Phase, Listed
    <2> QED
      BY <1>0, <1>2, <2>1, <2>2, PresentNotUploaded
  <1>8. ASSUME c \in sessions, NEW R2, NEW S2, Effect(running, startup, WriteMemory, R2, S2)
        PROVE  Good(r, Failed(r, e, "failed"), R2, S2, q)
    <2>1. R2 = running /\ S2 = running
      BY <1>0, <1>8, WriteMessage, WriteEffect
    <2>2. Failed(r, e, "failed") = Go("logoff", g)
      BY <1>3, <1>5, <1>7, <1>8
    <2>3. Harmless(r, g, q)
      BY <1>3, <1>7, <1>8 DEF Harmless
    <2>4. Phase(r, "logoff", g, running, running, q)
      BY <1>0, <1>3, <1>7, <1>8, <2>3
         DEF Phase, InDoubt, Matching, Listed, Baseline, Saved, Scanned, TakenBack
    <2> QED
      BY <2>1, <2>2, <2>4 DEF Good
  <1>9. ASSUME c \in sessions
        PROVE  Good(r, Failed(r, l, "rollback"), running, startup, q \cup Parts(WriteMemory))
    <2>1. Pending(running, q \cup Parts(WriteMemory))
      BY <1>0, <1>9, WriteToo
    <2> QED
      BY <1>0, <1>1, <1>7, <1>9, <2>1, ErrorGood DEF Errors
  <1> QED
    BY <1>4, <1>6, <1>8, <1>9, WriteMessage, SendStore

LEMMA UndoPairStore ==
    ASSUME Inv, CallShaped, StoreInv, NEW c \in Callers, UndoPair(c)
    PROVE  StoreStep
  <1> DEFINE r == call[c]
             l == loc[c]
             q == doubt[c]
  <1>0. /\ running \in Config /\ startup \in Config /\ Sound(running) /\ Sound(startup)
        /\ r \in Request /\ l \in Local /\ q \in SUBSET Message /\ Shape(r, pc[c], l)
        /\ c \in sessions => Phase(r, pc[c], l, running, startup, q) /\ Pending(running, q)
    BY SessionFacts
  <1>1. pc[c] = "undoPair"
    BY DEF UndoPair, Send
  <1> DEFINE F == l.up \cap PairOf(Desired(r))
             m == DeleteOf(F)
             next == IF l.up \subseteq PairOf(Desired(r)) THEN "undoCerts" ELSE "undoChain"
  <1>2. Common(r, l)
    BY <1>0 DEF Shape
  <1>3. F \subseteq l.up /\ F \in SUBSET File
    BY <1>0 DEF Local
  <1>4. Send(c, "undoPair", m, Go(next, l), UndoFailed(r, l))
    BY DEF UndoPair
  <1>5. next \in Undoing \ {"undoKeys"}
    OBVIOUS
  <1> HIDE DEF F, next
  <1>6. ASSUME c \in sessions
        PROVE  /\ Retractable(r, l, running, q) /\ ~ l.rolled
               /\ F \cap Refs(running) = {}
    <2>1. Retractable(r, l, running, q) /\ ~ l.rolled
      BY <1>0, <1>1, <1>6 DEF Phase, InDoubt, Matching, Listed, TakenBack, Retractable
    <2> QED
      BY <1>0, <1>2, <1>3, <2>1, UploadedUnreferenced DEF Retractable
  <1>7. m \in Message /\ m.op = "delete" /\ m.files = F
    BY <1>3, MessagesTyped DEF DeleteOf
  <1>10. c \in sessions => Allowed(running, m) /\ \A n \in Parts(m) : n.op = "delete" /\ Allowed(running, n)
    BY <1>3, <1>6, DeleteMessage
  <1> HIDE DEF m
  <1>8. ASSUME c \in sessions, NEW R2, NEW S2, Effect(running, startup, m, R2, S2)
        PROVE  Good(r, Go(next, l), R2, S2, q)
    <2>0. running \in Config /\ m \in Message /\ m.op = "delete" /\ Effect(running, startup, m, R2, S2)
      BY <1>0, <1>7, <1>8
    <2>1. /\ R2.tmpl = running.tmpl /\ R2.server = running.server
          /\ R2.files = running.files \ m.files /\ S2 = startup
      BY <2>0, DeleteEffect
    <2>2. R2 \in Config
      BY <1>0, <1>7, <1>8, EffectTyped
    <2>3. Refs(Restored(r, l, R2)) = Refs(Restored(r, l, running))
      BY <1>0, <2>1, <2>2, SameRestored
    <2>4. Retractable(r, l, R2, q)
      BY <1>6, <1>8, <2>1, <2>3 DEF Retractable
    <2>5. Pending(R2, q)
      BY <1>0, <1>8, <2>0, PendingAfter
    <2>6. Phase(r, next, l, R2, S2, q)
      BY <1>0, <1>5, <1>6, <1>8, <2>4, <2>5, UndoGood
    <2> QED
      BY <1>5, <2>6 DEF Good
  <1>9. ASSUME c \in sessions
        PROVE  Good(r, UndoFailed(r, l), running, startup, q \cup Parts(m))
    <2>1. \A n \in q : n.op \notin Changing
      BY <1>6, <1>9 DEF Retractable, Harmless
    <2>2. Pending(running, q \cup Parts(m))
      BY <1>0, <1>9, <1>10, <2>1 DEF Pending
    <2> QED
      BY <1>0, <1>1, <1>9, <2>2, UndoFailedGood
  <1> QED
    BY <1>4, <1>7, <1>8, <1>9, <1>10, SendStore

LEMMA UndoChainStore ==
    ASSUME Inv, CallShaped, StoreInv, NEW c \in Callers, UndoChain(c)
    PROVE  StoreStep
  <1> DEFINE r == call[c]
             l == loc[c]
             q == doubt[c]
  <1>0. /\ running \in Config /\ startup \in Config /\ Sound(running) /\ Sound(startup)
        /\ r \in Request /\ l \in Local /\ q \in SUBSET Message /\ Shape(r, pc[c], l)
        /\ c \in sessions => Phase(r, pc[c], l, running, startup, q) /\ Pending(running, q)
    BY SessionFacts
  <1>1. pc[c] = "undoChain"
    BY DEF UndoChain, Send
  <1> DEFINE F == l.up \ PairOf(Desired(r))
             m == DeleteOf(F)
             next == "undoCerts"
  <1>2. Common(r, l)
    BY <1>0 DEF Shape
  <1>3. F \subseteq l.up /\ F \in SUBSET File
    BY <1>0 DEF Local
  <1>4. Send(c, "undoChain", m, Go(next, l), UndoFailed(r, l))
    BY DEF UndoChain
  <1>5. next \in Undoing \ {"undoKeys"}
    OBVIOUS
  <1> HIDE DEF F, next
  <1>6. ASSUME c \in sessions
        PROVE  /\ Retractable(r, l, running, q) /\ ~ l.rolled
               /\ F \cap Refs(running) = {}
    <2>1. Retractable(r, l, running, q) /\ ~ l.rolled
      BY <1>0, <1>1, <1>6 DEF Phase, InDoubt, Matching, Listed, TakenBack, Retractable
    <2> QED
      BY <1>0, <1>2, <1>3, <2>1, UploadedUnreferenced DEF Retractable
  <1>7. m \in Message /\ m.op = "delete" /\ m.files = F
    BY <1>3, MessagesTyped DEF DeleteOf
  <1>10. c \in sessions => Allowed(running, m) /\ \A n \in Parts(m) : n.op = "delete" /\ Allowed(running, n)
    BY <1>3, <1>6, DeleteMessage
  <1> HIDE DEF m
  <1>8. ASSUME c \in sessions, NEW R2, NEW S2, Effect(running, startup, m, R2, S2)
        PROVE  Good(r, Go(next, l), R2, S2, q)
    <2>0. running \in Config /\ m \in Message /\ m.op = "delete" /\ Effect(running, startup, m, R2, S2)
      BY <1>0, <1>7, <1>8
    <2>1. /\ R2.tmpl = running.tmpl /\ R2.server = running.server
          /\ R2.files = running.files \ m.files /\ S2 = startup
      BY <2>0, DeleteEffect
    <2>2. R2 \in Config
      BY <1>0, <1>7, <1>8, EffectTyped
    <2>3. Refs(Restored(r, l, R2)) = Refs(Restored(r, l, running))
      BY <1>0, <2>1, <2>2, SameRestored
    <2>4. Retractable(r, l, R2, q)
      BY <1>6, <1>8, <2>1, <2>3 DEF Retractable
    <2>5. Pending(R2, q)
      BY <1>0, <1>8, <2>0, PendingAfter
    <2>6. Phase(r, next, l, R2, S2, q)
      BY <1>0, <1>5, <1>6, <1>8, <2>4, <2>5, UndoGood
    <2> QED
      BY <1>5, <2>6 DEF Good
  <1>9. ASSUME c \in sessions
        PROVE  Good(r, UndoFailed(r, l), running, startup, q \cup Parts(m))
    <2>1. \A n \in q : n.op \notin Changing
      BY <1>6, <1>9 DEF Retractable, Harmless
    <2>2. Pending(running, q \cup Parts(m))
      BY <1>0, <1>9, <1>10, <2>1 DEF Pending
    <2> QED
      BY <1>0, <1>1, <1>9, <2>2, UndoFailedGood
  <1> QED
    BY <1>4, <1>7, <1>8, <1>9, <1>10, SendStore

LEMMA UndoCertsStore ==
    ASSUME Inv, CallShaped, StoreInv, NEW c \in Callers, UndoCerts(c)
    PROVE  StoreStep
  <1> DEFINE r == call[c]
             l == loc[c]
             q == doubt[c]
  <1>0. /\ running \in Config /\ startup \in Config /\ Sound(running) /\ Sound(startup)
        /\ r \in Request /\ l \in Local /\ q \in SUBSET Message /\ Shape(r, pc[c], l)
        /\ c \in sessions => Phase(r, pc[c], l, running, startup, q) /\ Pending(running, q)
    BY SessionFacts
  <1>1. pc[c] = "undoCerts"
    BY DEF UndoCerts, Query
  <1> DEFINE e == [l EXCEPT !.info = StoreFiles("cert")]
  <1>2. /\ e.info = StoreFiles("cert") /\ e.up = l.up /\ e.seen = l.seen /\ e.base = l.base
        /\ e.rolled = l.rolled /\ e.exp = l.exp /\ e.mutated = l.mutated /\ e.attempted = l.attempted
    BY <1>0 DEF Local
  <1>3. Query(c, "undoCerts", Go("undoKeys", e), UndoFailed(r, l))
    BY DEF UndoCerts
  <1> HIDE DEF e
  <1>4. ASSUME c \in sessions
        PROVE  Good(r, Go("undoKeys", e), running, startup, q)
    <2>1. Retractable(r, l, running, q) /\ ~ l.rolled
      BY <1>0, <1>1, <1>4 DEF Phase, InDoubt, Matching, Listed, TakenBack, Retractable
    <2>2. Restored(r, e, running) = Restored(r, l, running)
      BY <1>2 DEF Restored
    <2>3. Retractable(r, e, running, q)
      BY <1>2, <2>1, <2>2 DEF Retractable, Harmless
    <2>4. {f \in e.up \cap running.files : f[1] = "cert"} \subseteq e.info
      BY <1>2 DEF StoreFiles
    <2>5. Phase(r, "undoKeys", e, running, startup, q)
      BY <1>0, <1>2, <1>4, <2>1, <2>3, <2>4
         DEF Retractable, Phase, InDoubt, Matching, Listed, Baseline, Saved, Scanned, TakenBack
    <2> QED
      BY <2>5 DEF Good
  <1>9. c \in sessions => Good(r, UndoFailed(r, l), running, startup, q)
    BY <1>0, <1>1, UndoFailedGood
  <1> QED
    BY <1>3, <1>4, <1>9, QueryStore

LEMMA UndoKeysStore ==
    ASSUME Inv, CallShaped, StoreInv, NEW c \in Callers, UndoKeys(c)
    PROVE  StoreStep
  <1> DEFINE r == call[c]
             l == loc[c]
             q == doubt[c]
  <1>0. /\ running \in Config /\ startup \in Config /\ Sound(running) /\ Sound(startup)
        /\ r \in Request /\ l \in Local /\ q \in SUBSET Message /\ Shape(r, pc[c], l)
        /\ c \in sessions => Phase(r, pc[c], l, running, startup, q) /\ Pending(running, q)
    BY SessionFacts
  <1>1. pc[c] = "undoKeys"
    BY DEF UndoKeys, Query
  <1> DEFINE ok == IF l.up \cap (l.info \cup StoreFiles("key")) = {} THEN Undone(l) ELSE UndoFailed(r, l)
  <1>3. Query(c, "undoKeys", ok, UndoFailed(r, l))
    BY DEF UndoKeys
  <1>9. c \in sessions => Good(r, UndoFailed(r, l), running, startup, q)
    BY <1>0, <1>1, UndoFailedGood
  <1>4. ASSUME c \in sessions
        PROVE  Good(r, ok, running, startup, q)
    <2>1. ASSUME l.up \cap (l.info \cup StoreFiles("key")) = {}
          PROVE  Good(r, Undone(l), running, startup, q)
      <3>1. \A f \in running.files : f[1] = "cert" \/ f[1] = "key"
        BY <1>0 DEF Config, File
      <3>2. r.chain # r.name => {f \in l.up \cap running.files : f[1] = "cert"} \subseteq l.info
        BY <1>0, <1>1, <1>4 DEF Phase, TakenBack
      <3>3. r.chain # r.name => l.up \cap running.files = {}
        BY <2>1, <3>1, <3>2 DEF StoreFiles
      <3> QED
        BY <1>0, <1>1, <1>4, <3>3, UndoneGood
    <2> QED
      BY <1>4, <1>9, <2>1
  <1> HIDE DEF ok
  <1> QED
    BY <1>3, <1>4, <1>9, QueryStore

LEMMA UndoPersistStore ==
    ASSUME Inv, CallShaped, StoreInv, NEW c \in Callers, UndoPersist(c)
    PROVE  StoreStep
  <1> DEFINE r == call[c]
             l == loc[c]
             q == doubt[c]
  <1>0. /\ running \in Config /\ startup \in Config /\ Sound(running) /\ Sound(startup)
        /\ r \in Request /\ l \in Local /\ q \in SUBSET Message /\ Shape(r, pc[c], l)
        /\ c \in sessions => Phase(r, pc[c], l, running, startup, q) /\ Pending(running, q)
    BY SessionFacts
  <1>1. pc[c] = "undoPersist"
    BY DEF UndoPersist, Send
  <1> DEFINE e == [l EXCEPT !.rolled = TRUE, !.stage = "rolled-back"]
             f == [l EXCEPT !.err = "rollback"]
  <1>2. r.create /\ ~ l.mutated /\ l.err # "none"
    BY <1>0, <1>1 DEF Shape, Course, Common
  <1>3. /\ e.up = l.up /\ e.mutated = l.mutated /\ e.rolled /\ e.err = l.err
        /\ f.err = "rollback" /\ f.rolled = l.rolled
    BY <1>0 DEF Local
  <1>4. Send(c, "undoPersist", WriteMemory, Go("logoff", e), Go("logoff", f))
    BY DEF UndoPersist
  <1> HIDE DEF e, f
  <1>6. Allowed(running, WriteMemory)
    BY DEF Allowed, WriteMemory
  <1>7. c \in sessions =>
          /\ Harmless(r, l, q) /\ ~ l.rolled
          /\ r.chain # r.name => l.up \cap running.files = {}
    BY <1>0, <1>1 DEF Phase, InDoubt, TakenBack
  <1>8. ASSUME c \in sessions, NEW R2, NEW S2, Effect(running, startup, WriteMemory, R2, S2)
        PROVE  Good(r, Go("logoff", e), R2, S2, q)
    <2>1. R2 = running /\ S2 = running
      BY <1>0, <1>8, WriteMessage, WriteEffect
    <2>2. Harmless(r, e, q)
      BY <1>3, <1>7, <1>8 DEF Harmless
    <2>3. Phase(r, "logoff", e, running, running, q)
      BY <1>0, <1>2, <1>3, <1>7, <1>8, <2>2
         DEF Phase, InDoubt, Matching, Listed, Baseline, Saved, Scanned, TakenBack
    <2> QED
      BY <2>1, <2>3 DEF Good
  <1>9. ASSUME c \in sessions
        PROVE  Good(r, Go("logoff", f), running, startup, q \cup Parts(WriteMemory))
    <2>1. Pending(running, q \cup Parts(WriteMemory))
      BY <1>0, <1>9, WriteToo
    <2> QED
      BY <1>2, <1>3, <1>7, <1>9, <2>1
         DEF Good, Phase, InDoubt, Matching, Listed, Baseline, Saved, Scanned, TakenBack
  <1> QED
    BY <1>4, <1>6, <1>8, <1>9, WriteMessage, SendStore

----------------------------------------------------------------------------
(* Calls, and what happens around them.                                    *)

(* Whoever has a valid signature goes on as before. *)
LEMMA OutsideStore ==
    ASSUME Inv, StoreInv, UNCHANGED <<running, startup>>, sessions' \subseteq sessions,
           \A d \in Callers :
              /\ d \in sessions' => /\ pc'[d] = pc[d] /\ call'[d] = call[d] /\ loc'[d] = loc[d]
                                    /\ doubt'[d] = doubt[d]
              /\ d \notin sessions' => doubt'[d] = {}
    PROVE  StoreStep
  <1>1. StoreInv'
    BY DEF StoreInv, Sound, Active
  <1> QED
    BY <1>1, QuietStep DEF StoreStep

(* Nor has a caller that is not inside a call. *)
LEMMA NoSession ==
    ASSUME StoreInv, NEW c \in Callers, pc[c] \in Rest \cup {"lock", "auth"}
    PROVE  c \notin sessions /\ doubt[c] = {}
  BY DEF StoreInv, Active

LEMMA TakeOutsideStore ==
    ASSUME Inv, StoreInv, NEW c \in Callers, pc[c] \in Rest \cup {"lock", "auth"}, NEW o, Take(c, o),
           \A d \in Callers \ {c} : call'[d] = call[d], UNCHANGED appliance
    PROVE  StoreStep
  <1>1. c \notin sessions /\ doubt[c] = {}
    BY NoSession
  <1>2. \A d \in Callers \ {c} : pc'[d] = pc[d] /\ loc'[d] = loc[d]
    BY TakeOther
  <1>3. \A d \in Callers : d \notin sessions => doubt[d] = {}
    BY DEF StoreInv
  <1> QED
    BY <1>1, <1>2, <1>3, OutsideStore DEF appliance

LEMMA InvokeStore ==
    ASSUME Inv, StoreInv, NEW c \in Callers, Invoke(c)
    PROVE  StoreStep
  <1>1. PICK r \in Requests[c] :
            /\ pc[c] \in Rest /\ call' = [call EXCEPT ![c] = r] /\ UNCHANGED appliance
            /\ Take(c, Go("lock", Fresh(IF r.pinned THEN {running.tmpl[r.tmpl]} ELSE {})))
    BY DEF Invoke
  <1>2. \A d \in Callers \ {c} : call'[d] = call[d]
    BY <1>1 DEF Inv, TypeOK
  <1> QED
    BY <1>1, <1>2, TakeOutsideStore

LEMMA RetryStore ==
    ASSUME Inv, StoreInv, NEW c \in Callers, Retry(c)
    PROVE  StoreStep
  BY TakeOutsideStore DEF Retry

LEMMA LockStore ==
    ASSUME Inv, StoreInv, NEW c \in Callers, Lock(c)
    PROVE  StoreStep
  BY TakeOutsideStore DEF Lock

LEMMA AuthStore ==
    ASSUME Inv, StoreInv, NEW c \in Callers, Auth(c)
    PROVE  StoreStep
  <1>1. c \notin sessions /\ doubt[c] = {}
    BY NoSession DEF Auth
  <1>2. CASE sessions' = sessions \cup {c} /\ Take(c, Go("version", loc[c]))
    <2>1. UNCHANGED <<running, startup, doubt, call>>
      BY DEF Auth
    <2>2. /\ pc'[c] = "version"
          /\ \A d \in Callers \ {c} : pc'[d] = pc[d] /\ loc'[d] = loc[d]
      BY <1>2, TakeOther
    <2>3. Phase(call[c], "version", loc'[c], running, startup, {})
      BY DEF Phase, InDoubt, Pending, Matching, Listed, Baseline, Saved, Scanned, TakenBack
    <2>4. StoreInv'
      BY <1>1, <1>2, <2>1, <2>2, <2>3 DEF StoreInv, Sound, Active
    <2> QED
      BY <2>1, <2>4, QuietStep DEF StoreStep
  <1>3. CASE UNCHANGED sessions /\ Take(c, Go("returned", [loc[c] EXCEPT !.err = "failed"]))
    BY <1>3, TakeOutsideStore DEF Auth, appliance
  <1> QED
    BY <1>2, <1>3 DEF Auth

LEMMA LogoffStore ==
    ASSUME Inv, StoreInv, NEW c \in Callers, Logoff(c)
    PROVE  StoreStep
  <1>1. /\ sessions' = sessions \ {c} /\ doubt' = [doubt EXCEPT ![c] = {}]
        /\ UNCHANGED <<running, startup, call>>
    BY DEF Logoff
  <1>2. PICK e \in {"none", "logoff"} :
            Take(c, Go("returned",
                       [Fresh({}) EXCEPT !.stage = loc[c].stage,
                                         !.err = IF loc[c].err = "none" THEN e ELSE loc[c].err]))
    BY DEF Logoff
  <1>3. \A d \in Callers \ {c} : pc'[d] = pc[d] /\ loc'[d] = loc[d]
    BY <1>2, TakeOther
  <1>4. /\ doubt'[c] = {} /\ \A d \in Callers \ {c} : doubt'[d] = doubt[d]
        /\ \A d \in Callers : d \notin sessions => doubt[d] = {}
    BY <1>1 DEF Inv, TypeOK, StoreInv
  <1> QED
    BY <1>1, <1>3, <1>4, OutsideStore

LEMMA CrashStore ==
    ASSUME Inv, StoreInv, NEW k \in Clients, Crash(k)
    PROVE  StoreStep
  <1>1. \A d \in Callers : d \notin sessions => doubt[d] = {}
    BY DEF StoreInv
  <1>2. /\ UNCHANGED <<running, startup, call>> /\ sessions' = sessions \ UsersOf(k)
        /\ \A d \in Callers : ClientOf[d] # k => pc'[d] = pc[d] /\ loc'[d] = loc[d]
        /\ \A d \in Callers : doubt'[d] = IF ClientOf[d] = k THEN {} ELSE doubt[d]
    BY DEF Crash, Settle, UsersOf
  <1> QED
    BY <1>1, <1>2, OutsideStore DEF UsersOf

LEMMA DeliverStore ==
    ASSUME Inv, CallShaped, StoreInv, NEW c \in Callers, Deliver(c)
    PROVE  StoreStep
  <1> DEFINE r == call[c]
             l == loc[c]
             q == doubt[c]
  <1>0. /\ running \in Config /\ startup \in Config /\ Sound(running) /\ Sound(startup)
        /\ r \in Request /\ l \in Local /\ q \in SUBSET Message /\ Shape(r, pc[c], l)
        /\ c \in sessions => Phase(r, pc[c], l, running, startup, q) /\ Pending(running, q)
    BY SessionFacts
  <1>1. PICK m \in q : Process(m) /\ doubt' = [doubt EXCEPT ![c] = @ \ {m}]
    BY DEF Deliver
  <1>2. c \in sessions /\ UNCHANGED <<sessions, pc, call, loc>>
    BY DEF Deliver
  <1>3. m \in Message /\ Allowed(running, m) /\ Effect(running, startup, m, running', startup')
    BY <1>0, <1>1, <1>2 DEF Pending, Process, Effect
  <1>4. pc[c] \in InCall
    BY <1>2 DEF StoreInv, Active
  <1>5. Phase(r, pc[c], l, running', startup', q \ {m})
    BY <1>0, <1>2, <1>3, <1>4, DeliveredGood
  <1>6. Sound(running') /\ Sound(startup')
    BY <1>0, <1>3, AllowedSound
  <1>7. [Store!Next]_(Store!svars)
    BY <1>0, <1>1, <1>3, AllowedStep
  <1>8. \A d \in sessions : d = c
    BY <1>2, OneSession
  <1>9. doubt'[c] = q \ {m} /\ \A d \in Callers \ {c} : doubt'[d] = doubt[d]
    BY <1>1 DEF Inv, TypeOK
  <1>10. StoreInv'
    BY <1>2, <1>5, <1>6, <1>8, <1>9 DEF StoreInv, Active
  <1> QED
    BY <1>7, <1>10 DEF StoreStep

LEMMA RebootStore ==
    ASSUME StoreInv, Reboot
    PROVE  StoreStep
  <1>1. StoreInv'
    BY DEF StoreInv, Reboot, Sound
  <1>2. Store!Next
    BY DEF Reboot, Store!Next, Store!Restart
  <1> QED
    BY <1>1, <1>2 DEF StoreStep

(* A GUI user begins to use a file that is there. *)
LEMMA ReferStore ==
    ASSUME NEW f, running \in Config, f \in running.files, Sound(running), UNCHANGED startup,
           \/ running' = [running EXCEPT !.server = @ \cup {f}]
           \/ \E t \in Templates : running' = [running EXCEPT !.tmpl[t].extra = @ \cup {f}]
    PROVE  Sound(running') /\ Store!Next
  <1>1. Store!Next
    BY DEF Store!Next, Store!Refer
  <1>2. CASE running' = [running EXCEPT !.server = @ \cup {f}]
    <2>1. /\ running'.tmpl = running.tmpl /\ running'.files = running.files
          /\ running'.server = running.server \cup {f}
      BY <1>2 DEF Config
    <2>2. Refs(running') \subseteq Refs(running) \cup {f}
      BY <2>1, InRefs
    <2> QED
      BY <1>1, <2>1, <2>2 DEF Sound
  <1>3. ASSUME NEW t \in Templates, running' = [running EXCEPT !.tmpl[t].extra = @ \cup {f}]
        PROVE  Sound(running')
    <2>1. running.tmpl \in [Templates -> Template]
      BY DEF Config
    <2>2. /\ running'.server = running.server /\ running'.files = running.files
          /\ \A u \in Templates \ {t} : running'.tmpl[u] = running.tmpl[u]
          /\ running'.tmpl[t].certs = running.tmpl[t].certs
          /\ running'.tmpl[t].extra = running.tmpl[t].extra \cup {f}
      BY <1>3, <2>1 DEF Config, Template
    <2>3. \A u \in Templates : /\ running'.tmpl[u].certs = running.tmpl[u].certs
                               /\ TemplateFiles(running'.tmpl[u]) \subseteq TemplateFiles(running.tmpl[u]) \cup {f}
      BY <2>2 DEF TemplateFiles
    <2>4. Refs(running') \subseteq Refs(running) \cup {f}
      BY <2>2, <2>3, InRefs
    <2> QED
      BY <2>2, <2>3, <2>4 DEF Sound
  <1> QED
    BY <1>1, <1>2, <1>3

LEMMA BindingsKnown ==
    /\ OperatorBindings \subseteq AllBindings
    /\ \A config \in InitialConfigs, t \in Templates : config.tmpl[t].certs \subseteq AllBindings
  <1> DEFINE A == UNION {{Desired(r) : r \in Requests[c]} : c \in Callers}
             Found(config) == UNION {config.tmpl[t].certs : t \in Templates}
             C == UNION {Found(config) : config \in InitialConfigs}
  <1>1. AllBindings = A \cup OperatorBindings \cup C
    BY DEF AllBindings
  <1>2. \A config \in InitialConfigs, t \in Templates : config.tmpl[t].certs \subseteq Found(config)
    OBVIOUS
  <1> HIDE DEF Found
  <1>3. \A config \in InitialConfigs : Found(config) \subseteq C
    OBVIOUS
  <1> HIDE DEF A, C
  <1> QED
    BY <1>1, <1>2, <1>3

LEMMA OperatorEditStore ==
    ASSUME Inv, StoreInv, OperatorEdit
    PROVE  StoreStep
  <1>0. /\ running \in Config /\ startup \in Config /\ Sound(running) /\ Sound(startup)
    BY DEF Inv, TypeOK, StoreInv
  <1>1. \A c \in Callers : pc[c] \in Rest
    BY DEF OperatorEdit, StoreInv, Premises
  <1>2. sessions = {} /\ UNCHANGED <<sessions, doubt, pc, call, loc>>
    BY <1>1, NoSession DEF OperatorEdit, Inv, TypeOK
  <1>3. ASSUME Sound(running'), Sound(startup'), [Store!Next]_(Store!svars)
        PROVE  StoreStep
    BY <1>2, <1>3 DEF StoreStep, StoreInv
  <1>4. ASSUME NEW m \in Message, Allowed(running, m), running' \in Results(running, m),
               m.op # "write", UNCHANGED startup
        PROVE  StoreStep
    <2>1. Process(m) /\ Effect(running, startup, m, running', startup')
      BY <1>4 DEF Process, Effect
    <2>2. Sound(running') /\ Sound(startup')
      BY <1>0, <1>4, <2>1, AllowedSound
    <2>3. [Store!Next]_(Store!svars)
      BY <1>0, <1>4, <2>1, AllowedStep
    <2> QED
      BY <1>3, <2>2, <2>3
  <1>5. ASSUME NEW t \in Templates, NEW b \in OperatorBindings, UNCHANGED startup,
               running' \in Results(running, BindOf(t, b))
        PROVE  StoreStep
    <2> DEFINE m == BindOf(t, b)
    <2>1. m \in Message /\ m.op = "bind" /\ m.binding = b
      BY OperatorAssumption, MessagesTyped DEF BindOf
    <2>2. Allowed(running, m)
      BY <2>1, BindingsKnown DEF Allowed
    <2> HIDE DEF m
    <2>3. running' \in Results(running, m)
      BY <1>5 DEF m
    <2> QED
      BY <1>4, <1>5, <2>1, <2>2, <2>3
  <1>6. ASSUME NEW t \in Templates, NEW n \in Names, UNCHANGED startup,
               \E b \in running.tmpl[t].certs : b.cert # n,
               running' \in Results(running, UnbindOf(t, n))
        PROVE  StoreStep
    <2> DEFINE m == UnbindOf(t, n)
    <2>1. m \in Message /\ m.op = "unbind" /\ m.tmpl = t /\ m.cert = n
      BY MessagesTyped DEF UnbindOf
    <2>2. Allowed(running, m)
      BY <1>6, <2>1 DEF Allowed, Kept
    <2> HIDE DEF m
    <2>3. running' \in Results(running, m)
      BY <1>6 DEF m
    <2> QED
      BY <1>4, <1>6, <2>1, <2>2, <2>3
  <1>7. ASSUME NEW f \in running.files, UNCHANGED startup,
               \/ running' = [running EXCEPT !.server = @ \cup {f}]
               \/ \E t \in Templates : running' = [running EXCEPT !.tmpl[t].extra = @ \cup {f}]
        PROVE  StoreStep
    <2>1. Sound(running') /\ Store!Next
      BY <1>0, <1>7, ReferStore
    <2>2. Sound(startup')
      BY <1>0, <1>7
    <2> QED
      BY <1>3, <2>1, <2>2
  <1>8. ASSUME startup' = running, UNCHANGED running
        PROVE  StoreStep
    <2>1. Sound(running') /\ Sound(startup')
      BY <1>0, <1>8
    <2>2. Store!Next
      BY <1>8 DEF Store!Next, Store!Save
    <2> QED
      BY <1>3, <2>1, <2>2
  <1> QED
    BY <1>5, <1>6, <1>7, <1>8 DEF OperatorEdit

LEMMA RotateStore ==
    ASSUME Inv, CallShaped, StoreInv, NEW c \in Callers, Rotate(c)
    PROVE  StoreStep
  BY VersionStore, InspectStore, ListCertsStore, ListKeysStore, ListInfoStore, UpKeyStore,
     UpCertStore, UpChainStore, PreBindStore, BindStore, ReadBackStore, VerifyBoundStore,
     PreUnbindStore, UnbindStore, PostUnbindStore, PrePersistStore, PersistStore, ScanClientStore,
     ScanServerStore, DeletePairStore, DeleteChainStore, PersistCleanupStore, CreatePersistStore
     DEF Rotate

LEMMA RollbackStore ==
    ASSUME Inv, CallShaped, StoreInv, NEW c \in Callers, Rollback(c)
    PROVE  StoreStep
  BY RbInspectStore, RbBindStore, RbRereadStore, RbUnbindStore, RbVerifyStore, RbPersistStore,
     UndoPairStore, UndoChainStore, UndoCertsStore, UndoKeysStore, UndoPersistStore
     DEF Rollback

(* What has been carried out late stays on record. *)
LEMMA LandedGrows == [Next]_vars => landed \subseteq landed'
  <1> SUFFICES ASSUME [Next]_vars
               PROVE  landed \subseteq landed'
    OBVIOUS
  <1>1. ASSUME NEW c \in Callers, Rotate(c)
        PROVE  landed' = landed
    BY <1>1 DEF Rotate, Query, Send, appliance, Version, Inspect, ListCerts, ListKeys, ListInfo,
         UpKey, UpCert, UpChain, PreBind, Bind, ReadBack, VerifyBound, PreUnbind, Unbind,
         PostUnbind, PrePersist, Persist, ScanClient, ScanServer, DeletePair, DeleteChain,
         PersistCleanup, CreatePersist
  <1>2. ASSUME NEW c \in Callers, Rollback(c)
        PROVE  landed' = landed
    BY <1>2 DEF Rollback, Query, Send, appliance, RbInspect, RbBind, RbReread, RbUnbind, RbVerify,
         RbPersist, UndoPair, UndoChain, UndoCerts, UndoKeys, UndoPersist
  <1>3. ASSUME NEW c \in Callers,
               Invoke(c) \/ Retry(c) \/ Lock(c) \/ Auth(c) \/ Logoff(c) \/ Unlock(c)
        PROVE  landed' = landed
    BY <1>3 DEF Invoke, Retry, Lock, Auth, Logoff, Unlock, appliance
  <1>4. CASE Environment
    BY <1>4 DEF Environment, OperatorEdit, Reboot, Crash, CloseSession, Land, Deliver
  <1> QED
    BY <1>1, <1>2, <1>3, <1>4 DEF Next, Step, Finished, vars

LEMMA NextStore ==
    Inv /\ CallShaped /\ StoreInv /\ [Next]_vars /\ landed' = {} => StoreStep
  <1> SUFFICES ASSUME Inv, CallShaped, StoreInv, [Next]_vars, landed' = {}
               PROVE  StoreStep
    OBVIOUS
  <1>1. ASSUME NEW c \in Callers, Invoke(c) \/ Retry(c) \/ Lock(c) \/ Auth(c)
        PROVE  StoreStep
    BY <1>1, InvokeStore, RetryStore, LockStore, AuthStore
  <1>2. ASSUME NEW c \in Callers, Rotate(c) \/ Rollback(c) \/ Logoff(c)
        PROVE  StoreStep
    BY <1>2, RotateStore, RollbackStore, LogoffStore
  <1>3. ASSUME NEW c \in Callers, Unlock(c)
        PROVE  StoreStep
    BY <1>3 DEF Unlock, OnSession, StoreInv, Premises
  <1>4. CASE Environment
    <2>1. ASSUME NEW k \in Clients, CloseSession(k)
          PROVE  StoreStep
      BY <2>1 DEF CloseSession, StoreInv, Premises
    <2>2. ~ Land
      BY DEF Land
    <2> QED
      BY <1>4, <2>1, <2>2, OperatorEditStore, RebootStore, CrashStore, DeliverStore DEF Environment
  <1>5. CASE UNCHANGED vars
    <2>1. StoreInv'
      BY <1>5 DEF vars, StoreInv, Sound, Active
    <2> QED
      BY <1>5, <2>1, QuietStep DEF StoreStep, vars
  <1> QED
    BY <1>1, <1>2, <1>3, <1>4, <1>5 DEF Next, Step, Finished

LEMMA InitStore ==
    ASSUME Premises, Init
    PROVE  StoreInv /\ Store!Init
  <1>1. running \in InitialConfigs /\ startup = running
    BY DEF Init
  <1>2. Store!Closed(running)
    BY <1>1 DEF Premises
  <1>3. \A t \in Templates : running.tmpl[t].certs \subseteq AllBindings
    BY <1>1, BindingsKnown
  <1>4. \A t \in ServingTemplates : running.tmpl[t].certs # {}
    BY <1>1 DEF ServingTemplates
  <1>5. Sound(running)
    BY <1>2, <1>3, <1>4 DEF Sound, Refs, Store!Closed
  <1>6. sessions = {}
    BY DEF Init, OnSession, Premises
  <1>7. \A c \in Callers : doubt[c] = {}
    BY DEF Init
  <1>8. StoreInv
    BY <1>1, <1>5, <1>6, <1>7 DEF StoreInv
  <1> QED
    BY <1>1, <1>2, <1>8 DEF Store!Init

----------------------------------------------------------------------------
(* Nobody can say what a call relies on once a stray request is carried    *)
(* out: such a request changes the appliance under the next call.          *)
LEMMA StoreInvHolds == Premises /\ Spec => [](Inv /\ CallShaped /\ (landed = {} => StoreInv))
  <1>1. Premises /\ Init => Inv /\ CallShaped /\ (landed = {} => StoreInv)
    BY InitInv, InitShaped, InitStore
  <1>2. Inv /\ CallShaped /\ (landed = {} => StoreInv) /\ [Next]_vars =>
            (Inv /\ CallShaped /\ (landed = {} => StoreInv))'
    BY NextInv, NextShaped, NextStore, LandedGrows DEF StoreStep
  <1> QED
    BY <1>1, <1>2, PTL DEF Spec

(* The calls of one Client implement the abstract store: whatever fails,   *)
(* is answered late or is rolled back, bindings come in beside the others  *)
(* or instead of the only one and leave only while another one stays, and  *)
(* files go only when nothing refers to them.  So it is until a request    *)
(* is carried out whose call has ended without ending its signature.       *)
THEOREM CallsImplementStore == Premises /\ Spec => ImplementsStore
  <1>1. Premises /\ Init => Store!Init
    BY InitStore
  <1>2. Inv /\ CallShaped /\ (landed = {} => StoreInv) /\ [Next]_vars =>
            [Store!Next \/ landed' # {}]_(Store!svars)
    BY NextStore, LandedGrows DEF StoreStep
  <1> QED
    BY <1>1, <1>2, StoreInvHolds, PTL DEF Spec, ImplementsStore

(* No template ever refers to material that is not on the appliance,       *)
(* neither now nor after a reboot, until a stray request is carried out:   *)
(* the rollbacks and the cleanup delete only what is not referred to.      *)
THEOREM ReferencedMaterialStays == Premises /\ Spec => []NoDanglingReference
  <1>1. (landed = {} => StoreInv) => NoDanglingReference
    BY DEF StoreInv, Sound, Refs, NoDanglingReference, Store!Closed
  <1> QED
    BY <1>1, StoreInvHolds, PTL

(* Old files are deleted only when the startup configuration has stopped   *)
(* to refer to them, unless the caller asked not to write memory or a      *)
(* stray request has been carried out.                                     *)
THEOREM CleanupWaitsForWrite == Premises /\ Spec => []CleanupSparesStartup
  <1>1. ASSUME Inv, CallShaped, landed = {} => StoreInv
        PROVE  CleanupSparesStartup
    <2> SUFFICES ASSUME landed = {}, NEW c \in Callers, pc[c] \in {"deletePair", "deleteChain"}, c \in sessions,
                        ~ call[c].noWrite
                 PROVE  /\ DoomedPair(call[c], loc[c]) \cap Store!Refs(startup) = {}
                        /\ DoomedChain(call[c], loc[c]) \cap Store!Refs(startup) = {}
      BY DEF CleanupSparesStartup
    <2> DEFINE r == call[c]
               l == loc[c]
    <2>1. Shape(r, pc[c], l) /\ Phase(r, pc[c], l, running, startup, doubt[c])
      BY <1>1, SessionFacts
    <2>2. ~ r.create /\ l.wrote
      BY <2>1 DEF Shape, Course
    <2>3. startup.tmpl = running.tmpl /\ startup.server = running.server
      BY <2>1, <2>2 DEF Phase, Saved
    <2>4. Refs(startup) = Refs(running)
      BY <2>3, SameRefs
    <2>5. NamesIn(Refs(startup)) \subseteq l.refs
      BY <2>1, <2>4 DEF Phase, Scanned
    <2> QED
      BY <2>5, DoomedUnreferenced DEF Refs
  <1> QED
    BY <1>1, StoreInvHolds, PTL

(* A call that reports success has exchanged exactly the selected binding  *)
(* for the desired one, its files are there, and what it wrote to memory   *)
(* is that state, unless a stray request has been carried out.             *)
THEOREM SuccessIsRotated == Premises /\ Spec => []CompletedMeansRotated
  <1>1. ASSUME Inv, CallShaped, landed = {} => StoreInv
        PROVE  CompletedMeansRotated
    <2> SUFFICES ASSUME landed = {}, NEW c \in Callers, AtEnd(c), loc[c].err = "none"
                 PROVE  /\ loc[c].stage = "complete"
                        /\ FilesOf(Desired(call[c])) \subseteq running.files
                        /\ loc[c].wrote => FilesOf(Desired(call[c])) \subseteq startup.files
                        /\ ~ call[c].create =>
                              /\ running.tmpl[call[c].tmpl] = Rotated(call[c], loc[c])
                              /\ loc[c].wrote => startup.tmpl[call[c].tmpl] = Rotated(call[c], loc[c])
      BY DEF CompletedMeansRotated
    <2> DEFINE r == call[c]
               l == loc[c]
               D == Desired(r)
    <2>1. /\ running \in Config /\ startup \in Config /\ Sound(running) /\ Sound(startup)
          /\ r \in Request /\ l \in Local /\ pc[c] = "logoff"
          /\ Shape(r, "logoff", l) /\ Phase(r, "logoff", l, running, startup, doubt[c])
      BY <1>1, SessionFacts DEF AtEnd
    <2>2. l.stage = "complete"
      BY <2>1 DEF Shape, Course
    <2>3. CASE r.create
      BY <2>1, <2>2, <2>3 DEF Phase, Listed, Saved
    <2>4. CASE ~ r.create
      <3>1. running.tmpl[r.tmpl] = Rotated(r, l)
        BY <2>1, <2>4 DEF Phase, Matching, Shape, Expected
      <3>2. l.wrote => startup.tmpl = running.tmpl
        BY <2>1, <2>4 DEF Phase, Saved
      <3>3. D \in Rotated(r, l).certs
        <4>1. WithBinding(l.base, D) \in Template /\ D \in WithBinding(l.base, D).certs
          BY <2>1, WithOf, DesiredTyped DEF Local
        <4>2. D.cert = r.name
          BY DEF Desired
        <4> QED
          BY <4>1, <4>2, WithoutOf DEF Rotated, Replaces
      <3>4. ASSUME NEW R, Sound(R), R.tmpl[r.tmpl] = Rotated(r, l)
            PROVE  FilesOf(D) \subseteq R.files
        <4>1. r.tmpl \in Templates
          BY <2>1 DEF Request
        <4>2. FilesOf(D) \subseteq TemplateFiles(R.tmpl[r.tmpl])
          BY <3>3, <3>4 DEF TemplateFiles
        <4> QED
          BY <3>4, <4>1, <4>2, InRefs DEF Sound
      <3> QED
        BY <2>1, <2>2, <2>4, <3>1, <3>2, <3>4
    <2> QED
      BY <2>3, <2>4
  <1> QED
    BY <1>1, StoreInvHolds, PTL

(* The chain gets a name of its own.                                       *)
ChainsApart == \A c \in Callers : \A r \in Requests[c] : r.chain # r.name

(* A call that reports a rollback has restored the template, has taken its *)
(* files away again, and left nothing of the new state in the startup      *)
(* configuration, unless a stray request has been carried out.             *)
THEOREM RollbackIsRestored == Premises /\ ChainsApart /\ Spec => []RolledBackMeansRestored
  <1>1. ASSUME ChainsApart, Inv, CallShaped, landed = {} => StoreInv
        PROVE  RolledBackMeansRestored
    <2> SUFFICES ASSUME landed = {}, NEW c \in Callers, AtEnd(c), loc[c].rolled
                 PROVE  /\ loc[c].up \cap running.files = {}
                        /\ loc[c].mutated \/ loc[c].attempted => loc[c].up \cap startup.files = {}
                        /\ ~ call[c].create => running.tmpl[call[c].tmpl] = loc[c].base
                        /\ loc[c].mutated => startup.tmpl[call[c].tmpl] = loc[c].base
      BY DEF RolledBackMeansRestored
    <2>1. Phase(call[c], "logoff", loc[c], running, startup, doubt[c])
      BY <1>1, SessionFacts DEF AtEnd
    <2>2. call[c].chain # call[c].name
      BY <1>1 DEF CallShaped, ChainsApart
    <2> QED
      BY <2>1, <2>2 DEF Phase, Matching, TakenBack
  <1>2. ChainsApart => ChainsApart'
    OBVIOUS
  <1> QED
    BY <1>1, <1>2, StoreInvHolds, PTL DEF Spec

----------------------------------------------------------------------------
(* Callers that keep the old files.                                        *)

(* No call cleans up, no name it asks for is used by a GUI user, and calls *)
(* of different Clients have templates and names of their own.             *)
Keeping ==
    /\ Explicit = {}
    /\ \A config \in InitialConfigs : Store!Closed(config)
    /\ \A c \in Callers : \A r \in Requests[c] :
          /\ ~ r.cleanup
          /\ FilesOf(Desired(r)) \cap OperatorFiles = {}
          /\ \A d \in Callers : ClientOf[d] # ClientOf[c] => \A s \in Requests[d] :
                /\ FilesOf(Desired(r)) \cap FilesOf(Desired(s)) = {}
                /\ r.create \/ s.create \/ r.tmpl # s.tmpl

(* The files of the bundle that only this call brings in: those it has not *)
(* found, as far as it has looked, and later those it has uploaded.        *)
Claimed(r, at, l) ==
    IF at = "listKeys" THEN {f \in FilesOf(Desired(r)) \ l.seen : f[1] = "cert"}
    ELSE IF at \in {"listInfo"} \cup Uploading THEN FilesOf(Desired(r)) \ l.seen
    ELSE l.up

(* Only the binding the call asks for refers to them. *)
OwnOnly(r, R, N) ==
    /\ R.server \cap N = {}
    /\ \A t \in Templates :
          /\ R.tmpl[t].extra \cap N = {}
          /\ \A b \in R.tmpl[t].certs :
                FilesOf(b) \cap N # {} => ~ r.create /\ t = r.tmpl /\ b = Desired(r)

(* A late bind may make the template refer to them. *)
Hot(q, N) == \E m \in q : m.op = "bind" /\ FilesOf(m.binding) \cap N # {}
Deleting(q) == \E m \in q : m.op = "delete"

(* They may go. *)
Spare(R, q, N) == N \cap Refs(R) = {} /\ ~ Hot(q, N)

(* What a call sends deletes only its uploads and binds only the desired   *)
(* binding or one of the baseline.                                         *)
Sent(r, l, m) ==
    /\ m.op = "delete" => m.files \subseteq l.up
    /\ m.op = "bind" => /\ ~ r.create /\ m.tmpl = r.tmpl
                        /\ m.binding = Desired(r) \/ FilesOf(m.binding) \subseteq TemplateFiles(l.base)

Backing == Undoing \cup {"rbPersist", "undoPersist", "logoff"}

(* Between the listings and whatever takes uploads back: what the call has *)
(* found or uploaded of the bundle is there.                               *)
Holding == InCall \ ({"auth", "version", "inspect", "listCerts"} \cup Backing)
Stock(r, l) == FilesOf(Desired(r)) \cap (l.seen \cup l.up)

Binds(q) == {m \in q : m.op = "bind"}
BoundBy(q) == UNION {FilesOf(m.binding) : m \in Binds(q)}

(* What nobody may take away from a call. *)
Relied(r, at, l, q) ==
    (TemplateFiles(l.base) \cup BoundBy(q)) \cup (IF at \in Holding THEN Stock(r, l) ELSE {})

(* A call with a valid signature: what it relies on stays, and whenever it *)
(* may delete its uploads, nothing refers to them or will.                 *)
Owner(r, at, l, R, q) ==
    LET N == Claimed(r, at, l) IN
    /\ Relied(r, at, l, q) \subseteq R.files
    /\ TemplateFiles(l.base) \cap N = {}
    /\ OwnOnly(r, R, N)
    /\ \A m \in q : Sent(r, l, m)
    /\ at \in Opening \cup Listing => q = {}
    /\ at \in Undoing \cup {"rbPersist"} \/ ~ l.mutated \/ Deleting(q) => Spare(R, q, N)
    /\ Deleting(q) => at \in Backing
    /\ Hot(q, N) => at = "logoff" \/ (at = "readBack" /\ N \cap Refs(R) = {})

Whole(R) == Refs(R) \subseteq R.files

(* The inductive invariant. *)
KeepInv ==
    /\ Keeping
    /\ Whole(running) /\ Whole(startup)
    /\ \A c \in Callers :
          /\ pc[c] \in {"lock", "auth"} => loc[c].base = Idle
          /\ c \in sessions => Active(c) /\ pc[c] # "auth"
          /\ doubt[c] # {} => c \in sessions
          /\ c \in sessions => Owner(call[c], pc[c], loc[c], running, doubt[c])
    /\ \A c, d \in sessions :
          c # d => TemplateFiles(loc[d].base) \cap Claimed(call[c], pc[c], loc[c]) = {}
    /\ BoundBy(stray) \subseteq running.files
    /\ \A c \in sessions : BoundBy(stray) \cap Claimed(call[c], pc[c], loc[c]) = {}

(* R2 takes none of the files B away and refers to no more of N than R. *)
Gentle(R, R2, B, N) ==
    /\ B \cap R.files \subseteq R2.files
    /\ R2.server \cap N \subseteq R.server
    /\ \A t \in Templates :
          /\ R2.tmpl[t].extra \cap N \subseteq R.tmpl[t].extra
          /\ \A b \in R2.tmpl[t].certs : b \in R.tmpl[t].certs \/ FilesOf(b) \cap N = {}

LEMMA BoundByIs ==
    ASSUME NEW q
    PROVE  \A f : f \in BoundBy(q) <=> \E m \in q : m.op = "bind" /\ f \in FilesOf(m.binding)
  BY DEF BoundBy, Binds

LEMMA BoundByUnion ==
    ASSUME NEW q, NEW p
    PROVE  /\ BoundBy(q \cup p) = BoundBy(q) \cup BoundBy(p)
           /\ p \subseteq q => BoundBy(p) \subseteq BoundBy(q)
           /\ BoundBy({}) = {}
  <1>1. \A f : f \in BoundBy(q \cup p) <=> f \in BoundBy(q) \cup BoundBy(p)
    BY BoundByIs
  <1> QED
    BY <1>1, BoundByIs

LEMMA NotHot ==
    ASSUME NEW q, NEW N
    PROVE  ~ Hot(q, N) <=> BoundBy(q) \cap N = {}
  BY BoundByIs DEF Hot

LEMMA BackingRelies ==
    ASSUME NEW r, NEW at \in Backing, NEW l, NEW q
    PROVE  Relied(r, at, l, q) = TemplateFiles(l.base) \cup BoundBy(q)
  BY DEF Relied, Holding

(* It relies on the baseline and on its own bundle. *)
LEMMA ReliedIs ==
    ASSUME NEW r, NEW at, NEW l, NEW R, NEW q, Owner(r, at, l, R, q)
    PROVE  /\ BoundBy(q) \subseteq TemplateFiles(l.base) \cup FilesOf(Desired(r))
           /\ Relied(r, at, l, q) \subseteq TemplateFiles(l.base) \cup FilesOf(Desired(r))
  <1>1. BoundBy(q) \subseteq TemplateFiles(l.base) \cup FilesOf(Desired(r))
    BY BoundByIs DEF Owner, Sent
  <1> QED
    BY <1>1 DEF Stock, Relied

LEMMA GentleRefs ==
    ASSUME NEW R, NEW R2, NEW B, NEW N, Gentle(R, R2, B, N)
    PROVE  N \cap Refs(R2) \subseteq Refs(R)
  <1>1. \A t \in Templates : N \cap TemplateFiles(R2.tmpl[t]) \subseteq TemplateFiles(R.tmpl[t])
    BY DEF Gentle, TemplateFiles
  <1> QED
    BY <1>1, InRefs DEF Gentle

LEMMA GentleOwner ==
    ASSUME NEW r, NEW at, NEW l, NEW R, NEW R2, NEW q, Owner(r, at, l, R, q),
           Gentle(R, R2, Relied(r, at, l, q), Claimed(r, at, l))
    PROVE  Owner(r, at, l, R2, q)
  <1> DEFINE N == Claimed(r, at, l)
             B == Relied(r, at, l, q)
  <1>1. N \cap Refs(R2) \subseteq Refs(R)
    BY GentleRefs
  <1>2. OwnOnly(r, R, N) /\ B \subseteq R.files
    BY DEF Owner
  <1> HIDE DEF N, B
  <1>3. OwnOnly(r, R2, N)
    BY <1>2 DEF OwnOnly, Gentle, N
  <1>4. B \subseteq R2.files
    BY <1>2 DEF Gentle, B
  <1>5. \A p : Spare(R, p, N) => Spare(R2, p, N)
    BY <1>1 DEF Spare
  <1> QED
    BY <1>1, <1>3, <1>4, <1>5 DEF Owner, N, B

LEMMA FewerOwner ==
    ASSUME NEW r, NEW at, NEW l, NEW R, NEW q, NEW p \in SUBSET q, Owner(r, at, l, R, q)
    PROVE  Owner(r, at, l, R, p)
  <1> DEFINE N == Claimed(r, at, l)
  <1>1. /\ Hot(p, N) => Hot(q, N)
        /\ Deleting(p) => Deleting(q)
        /\ Spare(R, q, N) => Spare(R, p, N)
    BY DEF Hot, Deleting, Spare
  <1>2. Relied(r, at, l, p) \subseteq R.files
    BY BoundByUnion DEF Owner, Relied
  <1> QED
    BY <1>1, <1>2 DEF Owner

LEMMA EffectGentle ==
    ASSUME NEW R \in Config, NEW S, NEW m \in Message, NEW R2, NEW S2, Effect(R, S, m, R2, S2),
           NEW B, NEW N,
           m.op = "delete" => m.files \cap B = {},
           m.op = "bind" => FilesOf(m.binding) \cap N = {}
    PROVE  Gentle(R, R2, B, N)
  <1>0. CASE m.op = "upload"
    <2>1. R2.tmpl = R.tmpl /\ R2.server = R.server /\ R2.files = R.files \cup m.files
      BY <1>0, UploadEffect
    <2> QED
      BY <2>1 DEF Gentle
  <1>1. CASE m.op = "delete"
    <2>1. R2.tmpl = R.tmpl /\ R2.server = R.server /\ R2.files = R.files \ m.files
      BY <1>1, DeleteEffect
    <2> QED
      BY <1>1, <2>1 DEF Gentle
  <1>4. CASE m.op = "write"
    <2>1. R2 = R
      BY <1>4, WriteEffect
    <2> QED
      BY <2>1 DEF Gentle
  <1>2. CASE m.op = "bind"
    <2>1. /\ OneTemplate(R, m.tmpl, R2)
          /\ R2.tmpl[m.tmpl].certs \subseteq R.tmpl[m.tmpl].certs \cup {m.binding}
      BY <1>2, BindEffect
    <2> QED
      BY <1>2, <2>1 DEF Gentle, OneTemplate
  <1>3. CASE m.op = "unbind"
    <2>1. /\ OneTemplate(R, m.tmpl, R2)
          /\ R2.tmpl[m.tmpl] = WithoutCertificate(R.tmpl[m.tmpl], m.cert)
      BY <1>3, UnbindEffect
    <2>2. R.tmpl[m.tmpl] \in Template
      BY <2>1 DEF Config, OneTemplate
    <2>3. R2.tmpl[m.tmpl].certs \subseteq R.tmpl[m.tmpl].certs
      BY <2>1, <2>2, WithoutOf
    <2> QED
      BY <2>1, <2>3 DEF Gentle, OneTemplate
  <1> QED
    BY <1>0, <1>1, <1>2, <1>3, <1>4, Operations

LEMMA EffectWhole ==
    ASSUME NEW R \in Config, NEW S \in Config, NEW m \in Message, NEW R2, NEW S2,
           Effect(R, S, m, R2, S2), Whole(R), Whole(S),
           m.op = "delete" => m.files \cap Refs(R) = {}
    PROVE  Whole(R2) /\ Whole(S2)
  <1>0. CASE m.op = "upload"
    <2>1. R2.tmpl = R.tmpl /\ R2.server = R.server /\ R2.files = R.files \cup m.files /\ S2 = S
      BY <1>0, UploadEffect
    <2> QED
      BY <2>1, SameRefs DEF Whole
  <1>1. CASE m.op = "delete"
    <2>1. R2.tmpl = R.tmpl /\ R2.server = R.server /\ R2.files = R.files \ m.files /\ S2 = S
      BY <1>1, DeleteEffect
    <2> QED
      BY <1>1, <2>1, SameRefs DEF Whole
  <1>2. CASE m.op = "write"
    BY <1>2, WriteEffect
  <1>3. CASE m.op = "bind"
    <2>1. /\ S2 = S /\ OneTemplate(R, m.tmpl, R2) /\ FilesOf(m.binding) \subseteq R.files
          /\ R2.tmpl[m.tmpl].certs \subseteq R.tmpl[m.tmpl].certs \cup {m.binding}
      BY <1>3, BindEffect
    <2>2. TemplateFiles(R2.tmpl[m.tmpl]) \subseteq TemplateFiles(R.tmpl[m.tmpl]) \cup FilesOf(m.binding)
      BY <2>1 DEF TemplateFiles, OneTemplate
    <2>3. Refs(R2) \subseteq Refs(R) \cup FilesOf(m.binding)
      BY <2>1, <2>2, RefsGrow
    <2> QED
      BY <2>1, <2>3 DEF Whole, OneTemplate
  <1>4. CASE m.op = "unbind"
    <2>1. /\ S2 = S /\ OneTemplate(R, m.tmpl, R2)
          /\ R2.tmpl[m.tmpl] = WithoutCertificate(R.tmpl[m.tmpl], m.cert)
      BY <1>4, UnbindEffect
    <2>2. R.tmpl[m.tmpl] \in Template
      BY <2>1 DEF Config, OneTemplate
    <2>3. R2.tmpl[m.tmpl].certs \subseteq R.tmpl[m.tmpl].certs
      BY <2>1, <2>2, WithoutOf
    <2>4. TemplateFiles(R2.tmpl[m.tmpl]) \subseteq TemplateFiles(R.tmpl[m.tmpl]) \cup {}
      BY <2>1, <2>3 DEF TemplateFiles, OneTemplate
    <2>5. Refs(R2) \subseteq Refs(R)
      BY <2>1, <2>4, RefsGrow
    <2> QED
      BY <2>1, <2>5 DEF Whole, OneTemplate
  <1> QED
    BY <1>0, <1>1, <1>2, <1>3, <1>4, Operations

(* What a call claims is of its bundle, its uploads among it. *)
LEMMA ClaimedShaped ==
    ASSUME NEW r, NEW at, NEW l, Shape(r, at, l)
    PROVE  l.up \subseteq Claimed(r, at, l) /\ Claimed(r, at, l) \subseteq FilesOf(Desired(r))
  BY DEF Shape, Common, Course, Untouched, Claimed

(* A call that goes on from at with the locals l to at2 with l2. *)
LEMMA OwnerGoesOn ==
    ASSUME NEW r, NEW at, NEW l, NEW at2, NEW l2, NEW R, NEW q, Owner(r, at, l, R, q),
           l2.base = l.base, l2.mutated = l.mutated, l.up \subseteq l2.up,
           Claimed(r, at2, l2) \subseteq Claimed(r, at, l),
           at2 \in Undoing \cup {"rbPersist"} => Spare(R, q, Claimed(r, at, l)),
           Deleting(q) => at2 \in Backing,
           Hot(q, Claimed(r, at, l)) => at2 = "logoff",
           at2 \in Opening \cup Listing => q = {},
           at2 \in Holding => Stock(r, l2) \subseteq R.files
    PROVE  Owner(r, at2, l2, R, q)
  <1> DEFINE N == Claimed(r, at, l)
             N2 == Claimed(r, at2, l2)
             B == TemplateFiles(l.base)
  <1>1. /\ B \cap N = {} /\ OwnOnly(r, R, N) /\ \A m \in q : Sent(r, l, m)
        /\ ~ l.mutated \/ Deleting(q) => Spare(R, q, N)
    BY DEF Owner
  <1>6. Relied(r, at2, l2, q) \subseteq R.files
    BY DEF Owner, Relied
  <1>2. N2 \subseteq N /\ TemplateFiles(l2.base) = B
    OBVIOUS
  <1> HIDE DEF N, N2, B
  <1>3. /\ Hot(q, N2) => Hot(q, N)
        /\ Spare(R, q, N) => Spare(R, q, N2)
        /\ OwnOnly(r, R, N2)
    BY <1>1, <1>2 DEF Hot, Spare, OwnOnly
  <1>4. \A m \in q : Sent(r, l2, m)
    BY <1>1 DEF Sent
  <1>5. B \cap N2 = {}
    BY <1>1, <1>2
  <1> QED
    BY <1>1, <1>2, <1>3, <1>4, <1>5, <1>6 DEF Owner, N, N2, B

(* The locals a continuation leaves alone. *)
Keeps(l, o) ==
    o.loc.base = l.base /\ o.loc.seen = l.seen /\ o.loc.up = l.up /\ o.loc.mutated = l.mutated

(* It looks at no more files and uploads none. *)
Ahead == InCall \ ({"auth", "version", "inspect", "readBack", "rbPersist"} \cup Listing \cup Uploading)

Proceeds(l, o) == Keeps(l, o) /\ o.at \in Ahead /\ (o.at \in Undoing => ~ l.mutated)
Loading(l, o) == Keeps(l, o) /\ (o.at \in Uploading \/ Proceeds(l, o))
Backward(l, o) == Keeps(l, o) /\ o.at \in Backing

LEMMA KeptStock ==
    ASSUME NEW r, NEW at \in Holding, NEW l, NEW o, NEW R, NEW q, Owner(r, at, l, R, q), Keeps(l, o)
    PROVE  Stock(r, o.loc) \subseteq R.files
  <1>1. Stock(r, o.loc) = Stock(r, l)
    BY DEF Stock, Keeps
  <1> QED
    BY <1>1 DEF Owner, Relied

LEMMA ProceedsOwner ==
    ASSUME NEW r, NEW at, NEW l, NEW o, NEW R, NEW q, Owner(r, at, l, R, q),
           l.up \subseteq Claimed(r, at, l), Proceeds(l, o), at \notin Backing \cup {"readBack"},
           at \in Holding \/ o.at \in Backing
    PROVE  Owner(r, o.at, o.loc, R, q) /\ Claimed(r, o.at, o.loc) \subseteq Claimed(r, at, l)
  <1>1. Claimed(r, o.at, o.loc) = l.up
    BY DEF Proceeds, Keeps, Ahead, Claimed
  <1>2. Claimed(r, o.at, o.loc) \subseteq Claimed(r, at, l)
    BY <1>1
  <1>3. /\ ~ Deleting(q) /\ ~ Hot(q, Claimed(r, at, l))
        /\ o.at \in Undoing \cup {"rbPersist"} => Spare(R, q, Claimed(r, at, l))
    BY DEF Owner, Proceeds, Ahead, Backing
  <1>4. o.at \in Holding => Stock(r, o.loc) \subseteq R.files
    BY KeptStock DEF Proceeds, Holding
  <1> QED
    BY <1>2, <1>3, <1>4, OwnerGoesOn DEF Proceeds, Keeps, Ahead

LEMMA LoadingOwner ==
    ASSUME NEW r, NEW at, NEW l, NEW o, NEW R, NEW q, Owner(r, at, l, R, q),
           l.up \subseteq Claimed(r, at, l), Loading(l, o), at \in {"listInfo"} \cup Uploading
    PROVE  Owner(r, o.at, o.loc, R, q) /\ Claimed(r, o.at, o.loc) \subseteq Claimed(r, at, l)
  <1>1. CASE Proceeds(l, o)
    BY <1>1, ProceedsOwner DEF Backing, Holding
  <1>2. CASE o.at \in Uploading
    <2>1. Claimed(r, o.at, o.loc) = Claimed(r, at, l)
      BY <1>2 DEF Loading, Keeps, Claimed
    <2>2. ~ Deleting(q) /\ ~ Hot(q, Claimed(r, at, l))
      BY DEF Owner, Backing
    <2>3. at \in Holding
      BY DEF Holding, Backing
    <2>4. Stock(r, o.loc) \subseteq R.files
      BY <2>3, KeptStock DEF Loading
    <2> QED
      BY <1>2, <2>1, <2>2, <2>4, OwnerGoesOn DEF Loading, Keeps
  <1> QED
    BY <1>1, <1>2 DEF Loading

LEMMA BackwardOwner ==
    ASSUME NEW r, NEW at, NEW l, NEW o, NEW R, NEW q, Shape(r, at, l), Owner(r, at, l, R, q),
           Backward(l, o), at \in Backing \ {"logoff"}
    PROVE  Owner(r, o.at, o.loc, R, q) /\ Claimed(r, o.at, o.loc) \subseteq Claimed(r, at, l)
  <1>1. Claimed(r, o.at, o.loc) = l.up /\ Claimed(r, at, l) = l.up
    BY DEF Backward, Keeps, Backing, Claimed
  <1>2. at \in Undoing \cup {"rbPersist"} \/ ~ l.mutated
    BY DEF Backing, Shape, Course, Common
  <1>3. Spare(R, q, Claimed(r, at, l))
    BY <1>2 DEF Owner
  <1>4. ~ Hot(q, Claimed(r, at, l))
    BY <1>3 DEF Spare
  <1>5. o.at \notin Holding
    BY DEF Backward, Holding
  <1> QED
    BY <1>1, <1>3, <1>4, <1>5, OwnerGoesOn DEF Backward, Keeps, Backing

----------------------------------------------------------------------------
(* Where the continuations of a call lead.                                 *)

LEMMA UndoBackward ==
    ASSUME NEW r \in Request, NEW l \in Local
    PROVE  Keeps(l, Undo(r, l)) /\ Undo(r, l).at \in Undoing
  BY DEF Keeps, Undo

LEMMA FailedProceeds ==
    ASSUME NEW r \in Request, NEW l \in Local, NEW err
    PROVE  Proceeds(l, Failed(r, l, err)) /\ Backward(l, Failed(r, l, err))
  <1> DEFINE e == [l EXCEPT !.err = err, !.full = FALSE]
  <1>1. e.base = l.base /\ e.seen = l.seen /\ e.up = l.up /\ e.mutated = l.mutated
    BY DEF Local
  <1> HIDE DEF e
  <1>2. Undo(r, e).loc = e /\ Undo(r, e).at \in Undoing
    BY DEF Undo
  <1>3. Failed(r, l, err) = IF e.up # {} /\ ~ l.mutated THEN Undo(r, e) ELSE Go("logoff", e)
    BY <1>1 DEF Failed, e
  <1> QED
    BY <1>1, <1>2, <1>3 DEF Proceeds, Backward, Keeps, Ahead, Backing

LEMMA RequireProceeds ==
    ASSUME NEW r \in Request, NEW l \in Local, NEW ok, Proceeds(l, ok)
    PROVE  Proceeds(l, Require(r, l, ok))
  BY FailedProceeds DEF Require

(* A continuation may set locals that do not matter here. *)
LEMMA SameProceeds ==
    ASSUME NEW l, NEW k, k.base = l.base, k.seen = l.seen, k.up = l.up, k.mutated = l.mutated, NEW o
    PROVE  (Proceeds(k, o) => Proceeds(l, o)) /\ (Loading(k, o) => Loading(l, o))
             /\ (Backward(k, o) => Backward(l, o))
  BY DEF Proceeds, Loading, Backward, Keeps

LEMMA CompleteProceeds ==
    ASSUME NEW l \in Local
    PROVE  Proceeds(l, Complete(l)) /\ Backward(l, Complete(l))
  BY DEF Complete, Proceeds, Backward, Keeps, Ahead, Backing, Local

LEMMA CleanupProceeds ==
    ASSUME NEW r \in Request, NEW l \in Local
    PROVE  Proceeds(l, Cleanup(r, l))
  BY CompleteProceeds DEF Cleanup, Proceeds, Keeps, Ahead

LEMMA AfterOldBindingProceeds ==
    ASSUME NEW r \in Request, NEW l \in Local
    PROVE  Proceeds(l, AfterOldBinding(r, l))
  BY CleanupProceeds DEF AfterOldBinding, Proceeds, Keeps, Ahead

LEMMA OldBindingRemovedProceeds ==
    ASSUME NEW r \in Request, NEW l \in Local
    PROVE  Proceeds(l, OldBindingRemoved(r, l))
  <1> DEFINE e == [l EXCEPT !.changed = TRUE, !.stage = "old-binding-removed"]
  <1>1. e \in Local /\ e.base = l.base /\ e.seen = l.seen /\ e.up = l.up /\ e.mutated = l.mutated
    BY DEF Local, Stages
  <1>2. OldBindingRemoved(r, l) = AfterOldBinding(r, e)
    BY DEF OldBindingRemoved
  <1> HIDE DEF e
  <1>3. Proceeds(e, AfterOldBinding(r, e))
    BY <1>1, AfterOldBindingProceeds
  <1> QED
    BY <1>1, <1>2, <1>3, SameProceeds

LEMMA AfterBindingProceeds ==
    ASSUME NEW r \in Request, NEW l \in Local, NEW implicit
    PROVE  Proceeds(l, AfterBinding(r, l, implicit))
  <1>1. Proceeds(l, Go("preUnbind", l))
    BY DEF Proceeds, Keeps, Ahead
  <1> QED
    BY <1>1, AfterOldBindingProceeds, OldBindingRemovedProceeds, FailedProceeds DEF AfterBinding

LEMMA ReadyLoading ==
    ASSUME NEW r \in Request, NEW l \in Local
    PROVE  Loading(l, Ready(r, l))
  <1> DEFINE e == [l EXCEPT !.stage = "material-ready"]
  <1>1. e \in Local /\ e.base = l.base /\ e.seen = l.seen /\ e.up = l.up /\ e.mutated = l.mutated
    BY DEF Local, Stages
  <1> HIDE DEF e
  <1>2. Proceeds(e, Go("preBind", e)) /\ Proceeds(e, Go("createPersist", e)) /\ Proceeds(e, Complete(e))
    BY <1>1, CompleteProceeds DEF Proceeds, Keeps, Ahead
  <1>3. Ready(r, l) \in {Go("preBind", e), Go("createPersist", e), Complete(e)}
    BY DEF Ready, e
  <1>4. Proceeds(l, Ready(r, l))
    BY <1>1, <1>2, <1>3, SameProceeds
  <1> QED
    BY <1>4 DEF Loading, Proceeds

LEMMA FailedLoading ==
    ASSUME NEW r \in Request, NEW l \in Local, NEW err
    PROVE  Loading(l, Failed(r, l, err))
  BY FailedProceeds DEF Loading, Proceeds

LEMMA AfterCertLoading ==
    ASSUME NEW r \in Request, NEW l \in Local
    PROVE  Loading(l, AfterCert(r, l))
  <1>1. Loading(l, Go("upChain", l))
    BY DEF Loading, Keeps
  <1> QED
    BY <1>1, ReadyLoading, FailedLoading DEF AfterCert

LEMMA AfterKeyLoading ==
    ASSUME NEW r \in Request, NEW l \in Local
    PROVE  Loading(l, AfterKey(r, l))
  <1>1. Loading(l, Go("upCert", l))
    BY DEF Loading, Keeps
  <1> QED
    BY <1>1, AfterCertLoading, FailedLoading DEF AfterKey

LEMMA AfterListingLoading ==
    ASSUME NEW r \in Request, NEW l \in Local
    PROVE  Loading(l, AfterListing(r, l))
  <1>1. Loading(l, Go("upKey", l))
    BY DEF Loading, Keeps
  <1> QED
    BY <1>1, AfterKeyLoading DEF AfterListing

LEMMA RemoveDesiredProceeds ==
    ASSUME NEW r \in Request, NEW l \in Local
    PROVE  Proceeds(l, RemoveDesired(r, l))
  BY DEF RemoveDesired, Proceeds, Keeps, Ahead

LEMMA UndoFailedBackward ==
    ASSUME NEW r \in Request, NEW l \in Local
    PROVE  Backward(l, UndoFailed(r, l))
  <1>1. Backward(l, Go("logoff", [l EXCEPT !.err = "rollback"]))
    BY DEF Backward, Keeps, Backing, Local
  <1> QED
    BY <1>1, FailedProceeds DEF UndoFailed

LEMMA UndoneBackward ==
    ASSUME NEW l \in Local
    PROVE  Backward(l, Undone(l))
  BY DEF Undone, Backward, Keeps, Backing, Local

----------------------------------------------------------------------------
(* What a step of one caller does to the invariant.                        *)

LEMMA KeepFacts ==
    ASSUME Inv, CallShaped, KeepInv, NEW c \in Callers
    PROVE  /\ running \in Config /\ startup \in Config /\ Whole(running) /\ Whole(startup)
           /\ call[c] \in Request /\ call[c] \in Requests[c] /\ ~ call[c].cleanup
           /\ loc[c] \in Local /\ doubt[c] \in SUBSET Message
           /\ Shape(call[c], pc[c], loc[c])
           /\ c \in sessions => Owner(call[c], pc[c], loc[c], running, doubt[c])
  BY CallFacts DEF Inv, TypeOK, KeepInv, Keeping

(* Callers with a valid signature are of different Clients. *)
LEMMA OtherClient ==
    ASSUME Inv, KeepInv, NEW c \in sessions, NEW d \in sessions, c # d
    PROVE  c \in Callers /\ d \in Callers /\ ClientOf[c] # ClientOf[d]
  <1>1. c \in Callers /\ d \in Callers
    BY DEF Inv, TypeOK
  <1>2. Active(c) /\ Active(d)
    BY <1>1 DEF KeepInv
  <1> QED
    BY <1>1, <1>2 DEF Inv, ManagedWritesExclusive

(* A continuation of c that meets neither the others nor a stray bind. *)
Beside(c, o) ==
    /\ BoundBy(stray) \cap Claimed(call[c], o.at, o.loc) = {}
    /\ \A d \in sessions \ {c} :
          /\ TemplateFiles(loc[d].base) \cap Claimed(call[c], o.at, o.loc) = {}
          /\ TemplateFiles(o.loc.base) \cap Claimed(call[d], pc[d], loc[d]) = {}

LEMMA StaysBeside ==
    ASSUME KeepInv, NEW c \in sessions, NEW o, o.loc.base = loc[c].base,
           Claimed(call[c], o.at, o.loc) \subseteq Claimed(call[c], pc[c], loc[c])
    PROVE  Beside(c, o)
  BY DEF KeepInv, Beside

(* No request of a caller disturbs another one. *)
LEMMA OthersGentle ==
    ASSUME Inv, CallShaped, KeepInv, NEW c \in sessions, NEW d \in sessions, c # d,
           NEW m \in Message, Sent(call[c], loc[c], m), Process(m)
    PROVE  Owner(call[d], pc[d], loc[d], running', doubt[d])
  <1>1. c \in Callers /\ d \in Callers /\ ClientOf[c] # ClientOf[d]
    BY OtherClient
  <1> DEFINE B == Relied(call[d], pc[d], loc[d], doubt[d])
             N == Claimed(call[d], pc[d], loc[d])
  <1>2. /\ Shape(call[c], pc[c], loc[c]) /\ Shape(call[d], pc[d], loc[d])
        /\ call[c] \in Requests[c] /\ call[d] \in Requests[d]
        /\ Owner(call[d], pc[d], loc[d], running, doubt[d])
    BY <1>1, KeepFacts
  <1>3. /\ loc[c].up \subseteq Claimed(call[c], pc[c], loc[c])
        /\ N \subseteq FilesOf(Desired(call[d]))
    BY <1>2, ClaimedShaped
  <1>4. /\ TemplateFiles(loc[d].base) \cap Claimed(call[c], pc[c], loc[c]) = {}
        /\ TemplateFiles(loc[c].base) \cap N = {}
    BY DEF KeepInv
  <1>5. FilesOf(Desired(call[c])) \cap FilesOf(Desired(call[d])) = {}
    BY <1>1, <1>2 DEF KeepInv, Keeping
  <1>10. /\ B \subseteq TemplateFiles(loc[d].base) \cup FilesOf(Desired(call[d]))
         /\ loc[c].up \subseteq FilesOf(Desired(call[c]))
    BY <1>2, ReliedIs, ClaimedShaped
  <1> HIDE DEF B, N
  <1>6. m.op = "delete" => m.files \cap B = {}
    BY <1>3, <1>4, <1>5, <1>10 DEF Sent
  <1>7. m.op = "bind" => FilesOf(m.binding) \cap N = {}
    BY <1>3, <1>4, <1>5 DEF Sent
  <1>8. Effect(running, startup, m, running', startup') /\ running \in Config
    BY DEF Process, Effect, Inv, TypeOK
  <1>9. Gentle(running, running', B, N)
    BY <1>6, <1>7, <1>8, EffectGentle
  <1> QED
    BY <1>2, <1>9, GentleOwner DEF B, N

(* Nor does it take away what a stray bind needs. *)
LEMMA StrayStays ==
    ASSUME Inv, CallShaped, KeepInv, NEW c \in sessions, NEW m \in Message,
           Sent(call[c], loc[c], m), Process(m)
    PROVE  BoundBy(stray) \subseteq running'.files
  <1>1. c \in Callers
    BY DEF Inv, TypeOK
  <1>2. loc[c].up \subseteq Claimed(call[c], pc[c], loc[c])
    BY <1>1, KeepFacts, ClaimedShaped
  <1>3. /\ BoundBy(stray) \cap Claimed(call[c], pc[c], loc[c]) = {}
        /\ BoundBy(stray) \subseteq running.files
    BY DEF KeepInv
  <1>4. m.op = "delete" => m.files \cap BoundBy(stray) = {}
    BY <1>2, <1>3 DEF Sent
  <1>5. Effect(running, startup, m, running', startup') /\ running \in Config
    BY DEF Process, Effect, Inv, TypeOK
  <1>6. Gentle(running, running', BoundBy(stray), {})
    BY <1>4, <1>5, EffectGentle
  <1> QED
    BY <1>3, <1>6 DEF Gentle

(* When nothing but the locals of one caller changes. *)
LEMMA LocalKeep ==
    ASSUME Inv, KeepInv, NEW c \in Callers, NEW o, Take(c, o),
           UNCHANGED <<running, startup, sessions, stray, call>>,
           \A d \in Callers \ {c} : doubt'[d] = doubt[d],
           c \notin sessions => doubt'[c] = doubt[c],
           o.at \in InCall \ {"auth"},
           c \in sessions => Beside(c, o) /\ Owner(call[c], o.at, o.loc, running, doubt'[c])
    PROVE  KeepInv'
  <1>1. /\ pc'[c] = o.at /\ loc'[c] = o.loc
        /\ \A d \in Callers \ {c} : pc'[d] = pc[d] /\ loc'[d] = loc[d]
    BY TakeOther
  <1>2. sessions \subseteq Callers
    BY DEF Inv, TypeOK
  <1>3. Whole(running)' /\ Whole(startup)'
    BY DEF KeepInv, Whole
  <1>4. ASSUME NEW d \in Callers
        PROVE  /\ pc'[d] \in {"lock", "auth"} => loc'[d].base = Idle
               /\ d \in sessions' => Active(d)' /\ pc'[d] # "auth"
               /\ doubt'[d] # {} => d \in sessions'
               /\ d \in sessions' => Owner(call[d], pc[d], loc[d], running, doubt[d])'
    BY <1>1 DEF KeepInv, Active
  <1>5. ASSUME NEW d \in sessions', NEW e \in sessions', d # e
        PROVE  (TemplateFiles(loc[e].base) \cap Claimed(call[d], pc[d], loc[d]))' = {}
    <2>1. CASE d = c
      BY <1>1, <1>2, <1>5, <2>1 DEF Beside
    <2>2. CASE e = c
      BY <1>1, <1>2, <1>5, <2>2 DEF Beside
    <2>3. CASE d # c /\ e # c
      BY <1>1, <1>2, <1>5, <2>3 DEF KeepInv
    <2> QED
      BY <2>1, <2>2, <2>3
  <1>6. Keeping' /\ (BoundBy(stray) \subseteq running.files)'
    BY DEF KeepInv, Keeping
  <1>7. ASSUME NEW d \in sessions'
        PROVE  (BoundBy(stray) \cap Claimed(call[d], pc[d], loc[d]))' = {}
    BY <1>1, <1>2, <1>7 DEF KeepInv, Beside
  <1> QED
    BY <1>3, <1>4, <1>5, <1>6, <1>7 DEF KeepInv

LEMMA QueryKeep ==
    ASSUME Inv, CallShaped, KeepInv, NEW c \in Callers, NEW label, NEW ok, NEW bad,
           Query(c, label, ok, bad),
           \A o \in {ok, bad} :
             /\ o.at \in InCall \ {"auth"}
             /\ c \in sessions => Beside(c, o) /\ Owner(call[c], o.at, o.loc, running, doubt[c])
    PROVE  KeepInv'
  <1>1. UNCHANGED <<running, startup, sessions, doubt, stray, call>>
    BY DEF Query, appliance
  <1>2. PICK o \in {ok, bad} : Take(c, o)
    BY DEF Query
  <1> QED
    BY <1>1, <1>2, LocalKeep

LEMMA SendKeep ==
    ASSUME Inv, CallShaped, KeepInv, NEW c \in Callers, NEW label, NEW m \in Message,
           NEW ok, NEW bad, Send(c, label, m, ok, bad),
           \A o \in {ok, bad} : o.at \in InCall \ {"auth"},
           c \in sessions =>
             /\ Sent(call[c], loc[c], m)
             /\ m.op = "delete" => m.files \cap Refs(running) = {}
             /\ \A R2, S2 : Effect(running, startup, m, R2, S2) =>
                  Owner(call[c], ok.at, ok.loc, R2, doubt[c])
             /\ Owner(call[c], bad.at, bad.loc, running, doubt[c] \cup Parts(m))
             /\ Beside(c, ok) /\ Beside(c, bad)
    PROVE  KeepInv'
  <1>0. /\ running \in Config /\ startup \in Config /\ Whole(running) /\ Whole(startup)
        /\ doubt \in [Callers -> SUBSET Message] /\ sessions \subseteq Callers
    BY KeepFacts DEF Inv, TypeOK
  <1>1. UNCHANGED <<sessions, stray, call>>
    BY DEF Send
  <1>2. CASE c \in sessions /\ Process(m) /\ Take(c, ok) /\ UNCHANGED <<doubt, used>>
    <2>1. Effect(running, startup, m, running', startup')
      BY <1>2 DEF Process, Effect
    <2>2. Whole(running') /\ Whole(startup')
      BY <1>0, <1>2, <2>1, EffectWhole
    <2>3. /\ pc'[c] = ok.at /\ loc'[c] = ok.loc
          /\ \A d \in Callers \ {c} : pc'[d] = pc[d] /\ loc'[d] = loc[d]
      BY <1>2, TakeOther
    <2>4. Owner(call[c], ok.at, ok.loc, running', doubt[c]) /\ ok.at \in InCall \ {"auth"} /\ Beside(c, ok)
      BY <1>2, <2>1
    <2>5. \A d \in sessions \ {c} : Owner(call[d], pc[d], loc[d], running', doubt[d])
      BY <1>2, OthersGentle
    <2>6. ASSUME NEW d \in Callers
          PROVE  /\ pc'[d] \in {"lock", "auth"} => loc'[d].base = Idle
                 /\ d \in sessions' => Active(d)' /\ pc'[d] # "auth"
                 /\ doubt'[d] # {} => d \in sessions'
                 /\ d \in sessions' => Owner(call[d], pc[d], loc[d], running, doubt[d])'
      BY <1>1, <1>2, <2>3, <2>4, <2>5 DEF KeepInv, Active
    <2>7. ASSUME NEW d \in sessions', NEW e \in sessions', d # e
          PROVE  (TemplateFiles(loc[e].base) \cap Claimed(call[d], pc[d], loc[d]))' = {}
      <3>1. CASE d = c
        BY <1>0, <1>1, <2>3, <2>4, <2>7, <3>1 DEF Beside
      <3>2. CASE e = c
        BY <1>0, <1>1, <2>3, <2>4, <2>7, <3>2 DEF Beside
      <3>3. CASE d # c /\ e # c
        BY <1>0, <1>1, <2>3, <2>7, <3>3 DEF KeepInv
      <3> QED
        BY <3>1, <3>2, <3>3
    <2>8. Keeping' /\ (BoundBy(stray) \subseteq running.files)'
      BY <1>1, <1>2, StrayStays DEF KeepInv, Keeping
    <2>9. ASSUME NEW d \in sessions'
          PROVE  (BoundBy(stray) \cap Claimed(call[d], pc[d], loc[d]))' = {}
      BY <1>0, <1>1, <2>3, <2>4, <2>9 DEF KeepInv, Beside
    <2> QED
      BY <2>2, <2>6, <2>7, <2>8, <2>9 DEF KeepInv
  <1>3. CASE c \in sessions /\ MayRefuse(running, m) /\ Take(c, bad) /\ UNCHANGED <<running, startup, doubt, used>>
    <2>1. Owner(call[c], bad.at, bad.loc, running, doubt[c])
      BY <1>3, FewerOwner
    <2> QED
      BY <1>1, <1>3, <2>1, LocalKeep
  <1>4. CASE /\ Breaks(c) /\ Take(c, bad) /\ UNCHANGED <<running, startup>>
             /\ doubt' = [doubt EXCEPT ![c] = IF c \in sessions THEN @ \cup Parts(m) ELSE @]
    <2>1. /\ \A d \in Callers \ {c} : doubt'[d] = doubt[d]
          /\ c \notin sessions => doubt'[c] = doubt[c]
          /\ c \in sessions => doubt'[c] = doubt[c] \cup Parts(m)
      BY <1>0, <1>4
    <2> QED
      BY <1>1, <1>4, <2>1, LocalKeep
  <1> QED
    BY <1>2, <1>3, <1>4 DEF Send

----------------------------------------------------------------------------
(* One lemma per request.                                                  *)

(* A continuation that loses nothing. *)
Continues(c, at, o) ==
    /\ o.at \in InCall \ {"auth"} /\ o.loc.base = loc[c].base
    /\ Claimed(call[c], o.at, o.loc) \subseteq Claimed(call[c], at, loc[c])
    /\ \A R, q : Owner(call[c], at, loc[c], R, q) => Owner(call[c], o.at, o.loc, R, q)

LEMMA ProceedsContinues ==
    ASSUME Inv, CallShaped, KeepInv, NEW c \in Callers, NEW o, Proceeds(loc[c], o),
           pc[c] \notin Backing \cup {"readBack"}, pc[c] \in Holding \/ o.at \in Backing
    PROVE  Continues(c, pc[c], o)
  <1>1. loc[c].up \subseteq Claimed(call[c], pc[c], loc[c])
    BY KeepFacts, ClaimedShaped
  <1>2. Claimed(call[c], o.at, o.loc) \subseteq Claimed(call[c], pc[c], loc[c])
    <2>1. Claimed(call[c], o.at, o.loc) = loc[c].up
      BY DEF Proceeds, Keeps, Ahead, Claimed
    <2> QED
      BY <1>1, <2>1
  <1>3. o.at \in InCall \ {"auth"} /\ o.loc.base = loc[c].base
    BY DEF Proceeds, Keeps, Ahead
  <1> QED
    BY <1>1, <1>2, <1>3, ProceedsOwner DEF Continues

LEMMA FailedContinues ==
    ASSUME Inv, CallShaped, KeepInv, NEW c \in Callers, NEW err,
           pc[c] \notin Backing \cup {"readBack"}
    PROVE  Continues(c, pc[c], Failed(call[c], loc[c], err))
  <1>1. call[c] \in Request /\ loc[c] \in Local
    BY CallFacts
  <1> QED
    BY <1>1, FailedProceeds, ProceedsContinues DEF Backward

LEMMA LoadingContinues ==
    ASSUME Inv, CallShaped, KeepInv, NEW c \in Callers, NEW o, Loading(loc[c], o),
           pc[c] \in {"listInfo"} \cup Uploading
    PROVE  Continues(c, pc[c], o)
  <1>1. loc[c].up \subseteq Claimed(call[c], pc[c], loc[c])
    BY KeepFacts, ClaimedShaped
  <1>2. Claimed(call[c], o.at, o.loc) \subseteq Claimed(call[c], pc[c], loc[c])
    BY <1>1 DEF Loading, Proceeds, Keeps, Ahead, Claimed
  <1>3. o.at \in InCall \ {"auth"} /\ o.loc.base = loc[c].base
    BY DEF Loading, Proceeds, Keeps, Ahead
  <1> QED
    BY <1>1, <1>2, <1>3, LoadingOwner DEF Continues

LEMMA BackwardContinues ==
    ASSUME Inv, CallShaped, KeepInv, NEW c \in Callers, NEW o, Backward(loc[c], o),
           pc[c] \in Backing \ {"logoff"}
    PROVE  Continues(c, pc[c], o)
  <1>1. Shape(call[c], pc[c], loc[c])
    BY KeepFacts
  <1>2. Claimed(call[c], o.at, o.loc) \subseteq Claimed(call[c], pc[c], loc[c])
    BY DEF Backward, Keeps, Backing, Claimed
  <1>3. o.at \in InCall \ {"auth"} /\ o.loc.base = loc[c].base
    BY DEF Backward, Keeps, Backing
  <1> QED
    BY <1>1, <1>2, <1>3, BackwardOwner DEF Continues

LEMMA PlainQuery ==
    ASSUME Inv, CallShaped, KeepInv, NEW c \in Callers, NEW label, NEW ok, NEW bad,
           Query(c, label, ok, bad), Continues(c, pc[c], ok), Continues(c, pc[c], bad)
    PROVE  KeepInv'
  <1>1. ASSUME c \in sessions, NEW o \in {ok, bad}
        PROVE  /\ Beside(c, o)
               /\ Owner(call[c], o.at, o.loc, running, doubt[c])
    <2>1. Owner(call[c], pc[c], loc[c], running, doubt[c])
      BY <1>1, KeepFacts
    <2> QED
      BY <1>1, <2>1, StaysBeside DEF Continues
  <1>2. \A o \in {ok, bad} : o.at \in InCall \ {"auth"}
    BY DEF Continues
  <1> QED
    BY <1>1, <1>2, QueryKeep

LEMMA MoreOwner ==
    ASSUME NEW r, NEW at, NEW l, NEW R, NEW q, NEW p, Owner(r, at, l, R, q), at \notin Opening \cup Listing,
           \A m \in p : /\ Sent(r, l, m)
                        /\ m.op = "delete" => at \in Undoing
                        /\ m.op = "bind" => /\ FilesOf(m.binding) \cap Claimed(r, at, l) = {}
                                            /\ FilesOf(m.binding) \subseteq R.files
    PROVE  Owner(r, at, l, R, q \cup p)
  <1> DEFINE N == Claimed(r, at, l)
  <1>1. Hot(q \cup p, N) => Hot(q, N)
    BY DEF Hot
  <1>2. Deleting(q \cup p) => Deleting(q) \/ at \in Undoing
    BY DEF Deleting
  <1>3. Spare(R, q, N) => Spare(R, q \cup p, N)
    BY <1>1 DEF Spare
  <1>4. BoundBy(p) \subseteq R.files
    BY BoundByIs
  <1>5. Relied(r, at, l, q \cup p) \subseteq R.files
    BY <1>4, BoundByUnion DEF Owner, Relied
  <1> QED
    BY <1>1, <1>2, <1>3, <1>5 DEF Owner, Backing

LEMMA PlainSend ==
    ASSUME Inv, CallShaped, KeepInv, NEW c \in Callers, NEW label, NEW m \in Message,
           NEW ok, NEW bad, Send(c, label, m, ok, bad), pc[c] \notin Opening \cup Listing,
           Continues(c, pc[c], ok), Continues(c, pc[c], bad),
           m.op = "delete" => pc[c] \in Undoing /\ m.files \subseteq loc[c].up,
           m.op = "bind" => /\ ~ call[c].create /\ m.tmpl = call[c].tmpl
                            /\ FilesOf(m.binding) \subseteq TemplateFiles(loc[c].base)
    PROVE  KeepInv'
  <1> DEFINE r == call[c]
             l == loc[c]
             at == pc[c]
             q == doubt[c]
             N == Claimed(r, at, l)
  <1>0. /\ running \in Config /\ Shape(r, at, l)
        /\ c \in sessions => Owner(r, at, l, running, q)
    BY KeepFacts
  <1>1. l.up \subseteq N
    BY <1>0, ClaimedShaped
  <1>2. Sent(r, l, m)
    BY DEF Sent
  <1>3. ASSUME c \in sessions
        PROVE  /\ m.op = "delete" => m.files \cap Refs(running) = {} /\ m.files \cap Relied(r, at, l, q) = {}
               /\ m.op = "bind" => FilesOf(m.binding) \cap N = {} /\ FilesOf(m.binding) \subseteq running.files
    <2>1. /\ TemplateFiles(l.base) \cap N = {} /\ TemplateFiles(l.base) \subseteq running.files
          /\ at \in Undoing => N \cap Refs(running) = {} /\ ~ Hot(q, N)
      BY <1>0, <1>3 DEF Owner, Spare, Relied
    <2>2. at \in Undoing => Relied(r, at, l, q) \cap N = {}
      BY <2>1, NotHot, BackingRelies DEF Backing
    <2> HIDE DEF N
    <2> QED
      BY <1>1, <2>1, <2>2
  <1>4. ASSUME c \in sessions, NEW R2, NEW S2, Effect(running, startup, m, R2, S2)
        PROVE  Owner(r, ok.at, ok.loc, R2, q)
    <2>1. Gentle(running, R2, Relied(r, at, l, q), N)
      BY <1>0, <1>3, <1>4, EffectGentle
    <2>2. Owner(r, at, l, R2, q)
      BY <1>0, <1>4, <2>1, GentleOwner
    <2> QED
      BY <2>2 DEF Continues
  <1>5. ASSUME c \in sessions
        PROVE  Owner(r, bad.at, bad.loc, running, q \cup Parts(m))
    <2>1. \A n \in Parts(m) : /\ Sent(r, l, n)
                              /\ n.op = "delete" => at \in Undoing
                              /\ n.op = "bind" => /\ FilesOf(n.binding) \cap N = {}
                                                  /\ FilesOf(n.binding) \subseteq running.files
      <3>1. CASE m.op = "delete"
        BY <1>2, <3>1 DEF Parts, DeleteOf, Sent
      <3>2. CASE m.op # "delete"
        <4>1. Parts(m) = {m}
          BY <3>2 DEF Parts
        <4> QED
          BY <1>2, <1>3, <1>5, <3>2, <4>1
      <3> QED
        BY <3>1, <3>2
    <2>2. Owner(r, at, l, running, q \cup Parts(m))
      BY <1>0, <1>5, <2>1, MoreOwner
    <2> QED
      BY <2>2 DEF Continues
  <1>6. /\ \A o \in {ok, bad} : o.at \in InCall \ {"auth"}
        /\ c \in sessions => Beside(c, ok) /\ Beside(c, bad)
    BY StaysBeside DEF Continues
  <1>7. c \in sessions =>
          /\ Sent(r, l, m)
          /\ m.op = "delete" => m.files \cap Refs(running) = {}
          /\ \A R2, S2 : Effect(running, startup, m, R2, S2) => Owner(r, ok.at, ok.loc, R2, q)
          /\ Owner(r, bad.at, bad.loc, running, q \cup Parts(m))
          /\ Beside(c, ok) /\ Beside(c, bad)
    BY <1>2, <1>3, <1>4, <1>5, <1>6
  <1> QED
    BY <1>6, <1>7, SendKeep

LEMMA PreBindKeep ==
    ASSUME Inv, CallShaped, KeepInv, NEW c \in Callers, PreBind(c)
    PROVE  KeepInv'
  <1> DEFINE r == call[c]
             l == loc[c]
  <1>0. r \in Request /\ l \in Local /\ running.tmpl[r.tmpl] \in Template /\ Shape(r, pc[c], l)
    BY CallFacts
  <1>1. pc[c] = "preBind"
    BY DEF PreBind, Query
  <1>2. Continues(c, pc[c], Failed(r, l, "failed"))
    BY <1>1, FailedContinues DEF Backing
  <1> DEFINE ok == Go(IF Desired(r) \in l.base.certs THEN "verifyBound" ELSE "bind", l)
  <1>3. Proceeds(l, ok)
    BY DEF Proceeds, Keeps, Ahead
  <1>4. Query(c, "preBind", Require(r, l, ok), Failed(r, l, "failed"))
    BY DEF PreBind
  <1> HIDE DEF ok
  <1>5. Continues(c, pc[c], Require(r, l, ok))
    BY <1>0, <1>1, <1>3, RequireProceeds, ProceedsContinues DEF Backing, Holding
  <1> QED
    BY <1>2, <1>4, <1>5, PlainQuery

LEMMA VerifyBoundKeep ==
    ASSUME Inv, CallShaped, KeepInv, NEW c \in Callers, VerifyBound(c)
    PROVE  KeepInv'
  <1> DEFINE r == call[c]
             l == loc[c]
  <1>0. r \in Request /\ l \in Local /\ running.tmpl[r.tmpl] \in Template /\ Shape(r, pc[c], l)
    BY CallFacts
  <1>1. pc[c] = "verifyBound"
    BY DEF VerifyBound, Query
  <1>2. Continues(c, pc[c], Failed(r, l, "failed"))
    BY <1>1, FailedContinues DEF Backing
  <1>3. Proceeds(l, AfterBinding(r, l, FALSE))
    BY <1>0, AfterBindingProceeds
  <1>4. Query(c, "verifyBound", Require(r, l, AfterBinding(r, l, FALSE)), Failed(r, l, "failed"))
    BY DEF VerifyBound
  <1>5. Continues(c, pc[c], Require(r, l, AfterBinding(r, l, FALSE)))
    BY <1>0, <1>1, <1>3, RequireProceeds, ProceedsContinues DEF Backing, Holding
  <1> QED
    BY <1>2, <1>4, <1>5, PlainQuery

LEMMA PreUnbindKeep ==
    ASSUME Inv, CallShaped, KeepInv, NEW c \in Callers, PreUnbind(c)
    PROVE  KeepInv'
  <1> DEFINE r == call[c]
             l == loc[c]
  <1>0. r \in Request /\ l \in Local /\ running.tmpl[r.tmpl] \in Template /\ Shape(r, pc[c], l)
    BY CallFacts
  <1>1. pc[c] = "preUnbind"
    BY DEF PreUnbind, Query
  <1>2. Continues(c, pc[c], Failed(r, l, "failed"))
    BY <1>1, FailedContinues DEF Backing
  <1>3. Proceeds(l, Go("unbind", l))
    BY DEF Proceeds, Keeps, Ahead
  <1>4. Query(c, "preUnbind", Require(r, l, Go("unbind", l)), Failed(r, l, "failed"))
    BY DEF PreUnbind
  <1>5. Continues(c, pc[c], Require(r, l, Go("unbind", l)))
    BY <1>0, <1>1, <1>3, RequireProceeds, ProceedsContinues DEF Backing, Holding
  <1> QED
    BY <1>2, <1>4, <1>5, PlainQuery

LEMMA PostUnbindKeep ==
    ASSUME Inv, CallShaped, KeepInv, NEW c \in Callers, PostUnbind(c)
    PROVE  KeepInv'
  <1> DEFINE r == call[c]
             l == loc[c]
  <1>0. r \in Request /\ l \in Local /\ running.tmpl[r.tmpl] \in Template /\ Shape(r, pc[c], l)
    BY CallFacts
  <1>1. pc[c] = "postUnbind"
    BY DEF PostUnbind, Query
  <1>2. Continues(c, pc[c], Failed(r, l, "failed"))
    BY <1>1, FailedContinues DEF Backing
  <1>3. Proceeds(l, OldBindingRemoved(r, l))
    BY <1>0, OldBindingRemovedProceeds
  <1>4. Query(c, "postUnbind", Require(r, l, OldBindingRemoved(r, l)), Failed(r, l, "failed"))
    BY DEF PostUnbind
  <1>5. Continues(c, pc[c], Require(r, l, OldBindingRemoved(r, l)))
    BY <1>0, <1>1, <1>3, RequireProceeds, ProceedsContinues DEF Backing, Holding
  <1> QED
    BY <1>2, <1>4, <1>5, PlainQuery

LEMMA PrePersistKeep ==
    ASSUME Inv, CallShaped, KeepInv, NEW c \in Callers, PrePersist(c)
    PROVE  KeepInv'
  <1> DEFINE r == call[c]
             l == loc[c]
  <1>0. r \in Request /\ l \in Local /\ running.tmpl[r.tmpl] \in Template /\ Shape(r, pc[c], l)
    BY CallFacts
  <1>1. pc[c] = "prePersist"
    BY DEF PrePersist, Query
  <1>2. Continues(c, pc[c], Failed(r, l, "failed"))
    BY <1>1, FailedContinues DEF Backing
  <1>3. Proceeds(l, Go("persist", l))
    BY DEF Proceeds, Keeps, Ahead
  <1>4. Query(c, "prePersist", Require(r, l, Go("persist", l)), Failed(r, l, "failed"))
    BY DEF PrePersist
  <1>5. Continues(c, pc[c], Require(r, l, Go("persist", l)))
    BY <1>0, <1>1, <1>3, RequireProceeds, ProceedsContinues DEF Backing, Holding
  <1> QED
    BY <1>2, <1>4, <1>5, PlainQuery

LEMMA UnbindKeep ==
    ASSUME Inv, CallShaped, KeepInv, NEW c \in Callers, Unbind(c)
    PROVE  KeepInv'
  <1> DEFINE r == call[c]
             l == loc[c]
  <1>0. r \in Request /\ l \in Local /\ running.tmpl[r.tmpl] \in Template /\ Shape(r, pc[c], l)
    BY CallFacts
  <1>1. pc[c] = "unbind"
    BY DEF Unbind, Send
  <1> DEFINE m == UnbindOf(r.tmpl, l.cur.cert)
             ok == Go("postUnbind", [l EXCEPT !.exp = WithoutCertificate(@, l.cur.cert)])
             bad == Failed(r, l, "failed")
  <1>7. l.cur # NoBinding
    BY <1>1 DEF Inv, LocalsFit, Fits, Retiring
  <1>2. m \in Message /\ m.op = "unbind"
    BY <1>0, <1>7, MessagesTyped DEF UnbindOf, Request, Local, Binding
  <1>3. Proceeds(l, ok)
    BY <1>0 DEF Proceeds, Keeps, Ahead, Local
  <1>4. Proceeds(l, bad)
    BY <1>0, FailedProceeds
  <1>5. Send(c, "unbind", m, ok, bad)
    BY DEF Unbind
  <1> HIDE DEF m, ok, bad
  <1>6. Continues(c, pc[c], ok) /\ Continues(c, pc[c], bad)
    BY <1>1, <1>3, <1>4, ProceedsContinues DEF Backing, Holding
  <1> QED
    BY <1>1, <1>2, <1>5, <1>6, PlainSend

LEMMA PersistKeep ==
    ASSUME Inv, CallShaped, KeepInv, NEW c \in Callers, Persist(c)
    PROVE  KeepInv'
  <1> DEFINE r == call[c]
             l == loc[c]
  <1>0. r \in Request /\ l \in Local /\ running.tmpl[r.tmpl] \in Template /\ Shape(r, pc[c], l)
    BY CallFacts
  <1>1. pc[c] = "persist"
    BY DEF Persist, Send
  <1> DEFINE m == WriteMemory
             ok == Cleanup(r, [l EXCEPT !.wrote = TRUE, !.stage = "persisted"])
             bad == Go("rbInspect", [l EXCEPT !.full = TRUE])
  <1>2. m \in Message /\ m.op = "write"
    BY WriteMessage
  <1>3. Proceeds(l, ok)
    <2> DEFINE e == [l EXCEPT !.wrote = TRUE, !.stage = "persisted"]
    <2>1. e \in Local /\ e.base = l.base /\ e.seen = l.seen /\ e.up = l.up /\ e.mutated = l.mutated
      BY <1>0 DEF Local, Stages
    <2> HIDE DEF e
    <2>2. Proceeds(e, Cleanup(r, e))
      BY <1>0, <2>1, CleanupProceeds
    <2>3. Proceeds(l, Cleanup(r, e))
      BY <2>1, <2>2, SameProceeds
    <2> QED
      BY <2>3 DEF e
  <1>4. Proceeds(l, bad)
    BY <1>0 DEF Proceeds, Keeps, Ahead, Local
  <1>5. Send(c, "persist", m, ok, bad)
    BY DEF Persist
  <1> HIDE DEF m, ok, bad
  <1>6. Continues(c, pc[c], ok) /\ Continues(c, pc[c], bad)
    BY <1>1, <1>3, <1>4, ProceedsContinues DEF Backing, Holding
  <1> QED
    BY <1>1, <1>2, <1>5, <1>6, PlainSend

LEMMA CreatePersistKeep ==
    ASSUME Inv, CallShaped, KeepInv, NEW c \in Callers, CreatePersist(c)
    PROVE  KeepInv'
  <1> DEFINE r == call[c]
             l == loc[c]
  <1>0. r \in Request /\ l \in Local /\ running.tmpl[r.tmpl] \in Template /\ Shape(r, pc[c], l)
    BY CallFacts
  <1>1. pc[c] = "createPersist"
    BY DEF CreatePersist, Send
  <1> DEFINE m == WriteMemory
             ok == Complete([l EXCEPT !.wrote = TRUE])
             bad == Failed(r, [l EXCEPT !.attempted = TRUE], "failed")
  <1>2. m \in Message /\ m.op = "write"
    BY WriteMessage
  <1>3. Proceeds(l, ok)
    <2> DEFINE e == [l EXCEPT !.wrote = TRUE]
    <2>1. e \in Local /\ e.base = l.base /\ e.seen = l.seen /\ e.up = l.up /\ e.mutated = l.mutated
      BY <1>0 DEF Local, Stages
    <2> HIDE DEF e
    <2>2. Proceeds(e, Complete(e))
      BY <2>1, CompleteProceeds
    <2>3. Proceeds(l, Complete(e))
      BY <2>1, <2>2, SameProceeds
    <2> QED
      BY <2>3 DEF e
  <1>4. Proceeds(l, bad)
    <2> DEFINE e == [l EXCEPT !.attempted = TRUE]
    <2>1. e \in Local /\ e.base = l.base /\ e.seen = l.seen /\ e.up = l.up /\ e.mutated = l.mutated
      BY <1>0 DEF Local, Stages
    <2> HIDE DEF e
    <2>2. Proceeds(e, Failed(r, e, "failed"))
      BY <1>0, <2>1, FailedProceeds
    <2>3. Proceeds(l, Failed(r, e, "failed"))
      BY <2>1, <2>2, SameProceeds
    <2> QED
      BY <2>3 DEF e
  <1>5. Send(c, "createPersist", m, ok, bad)
    BY DEF CreatePersist
  <1> HIDE DEF m, ok, bad
  <1>6. Continues(c, pc[c], ok) /\ Continues(c, pc[c], bad)
    BY <1>1, <1>3, <1>4, ProceedsContinues DEF Backing, Holding
  <1> QED
    BY <1>1, <1>2, <1>5, <1>6, PlainSend

LEMMA RbInspectKeep ==
    ASSUME Inv, CallShaped, KeepInv, NEW c \in Callers, RbInspect(c)
    PROVE  KeepInv'
  <1> DEFINE r == call[c]
             l == loc[c]
  <1>0. r \in Request /\ l \in Local /\ running.tmpl[r.tmpl] \in Template /\ Shape(r, pc[c], l)
    BY CallFacts
  <1>1. pc[c] = "rbInspect"
    BY DEF RbInspect, Query
  <1>2. Continues(c, pc[c], Failed(r, l, "rollback"))
    BY <1>1, FailedContinues DEF Backing
  <1> DEFINE T == running.tmpl[r.tmpl]
             ok == IF T # l.exp THEN Failed(r, l, "rollback")
                   ELSE IF ~ Bound(l.base, r.name)
                     THEN IF PreviousBinding(l.base, r.current) \subseteq T.certs
                            THEN RemoveDesired(r, l)
                            ELSE Go("rbBind", l)
                   ELSE IF Desired(r) \in l.base.certs THEN Go("rbVerify", l)
                   ELSE Failed(r, l, "rollback")
  <1>3. Proceeds(l, Go("rbBind", l)) /\ Proceeds(l, Go("rbVerify", l))
    BY DEF Proceeds, Keeps, Ahead
  <1>4. Proceeds(l, RemoveDesired(r, l)) /\ Proceeds(l, Failed(r, l, "rollback"))
    BY <1>0, RemoveDesiredProceeds, FailedProceeds
  <1>5. Proceeds(l, ok)
    BY <1>3, <1>4
  <1>6. Query(c, "rbInspect", ok, Failed(r, l, "rollback"))
    BY DEF RbInspect
  <1> HIDE DEF ok
  <1>7. Continues(c, pc[c], ok)
    BY <1>1, <1>5, ProceedsContinues DEF Backing, Holding
  <1> QED
    BY <1>2, <1>6, <1>7, PlainQuery

LEMMA RbBindKeep ==
    ASSUME Inv, CallShaped, KeepInv, NEW c \in Callers, RbBind(c)
    PROVE  KeepInv'
  <1> DEFINE r == call[c]
             l == loc[c]
  <1>0. r \in Request /\ l \in Local /\ running.tmpl[r.tmpl] \in Template /\ Shape(r, pc[c], l)
    BY CallFacts
  <1>1. pc[c] = "rbBind"
    BY DEF RbBind, Send
  <1> DEFINE previous == CHOOSE b \in PreviousBinding(l.base, r.current) : TRUE
             m == BindOf(r.tmpl, previous)
             ok == Go("rbReread", l)
             bad == Failed(r, l, "rollback")
  <1>2. previous \in l.base.certs /\ previous \in Binding
    <2>1. PreviousBinding(l.base, r.current) # {}
      BY <1>1 DEF Inv, LocalsFit, Fits
    <2>2. PreviousBinding(l.base, r.current) \subseteq l.base.certs /\ l.base.certs \subseteq Binding
      BY <1>0 DEF PreviousBinding, Local, Template
    <2> QED
      BY <2>1, <2>2
  <1>3. /\ m \in Message /\ m.op = "bind" /\ m.tmpl = r.tmpl /\ m.binding = previous
    BY <1>0, <1>2, MessagesTyped DEF BindOf, Request
  <1>4. FilesOf(m.binding) \subseteq TemplateFiles(l.base)
    BY <1>2, <1>3 DEF TemplateFiles
  <1>5. ~ r.create
    BY <1>0, <1>1 DEF Shape, Course
  <1>6. Proceeds(l, ok) /\ Proceeds(l, bad)
    BY <1>0, FailedProceeds DEF Proceeds, Keeps, Ahead
  <1>7. Send(c, "rbBind", m, ok, bad)
    BY DEF RbBind
  <1> HIDE DEF m, ok, bad
  <1>8. Continues(c, pc[c], ok) /\ Continues(c, pc[c], bad)
    BY <1>1, <1>6, ProceedsContinues DEF Backing, Holding
  <1> QED
    BY <1>1, <1>3, <1>4, <1>5, <1>7, <1>8, PlainSend

LEMMA RbRereadKeep ==
    ASSUME Inv, CallShaped, KeepInv, NEW c \in Callers, RbReread(c)
    PROVE  KeepInv'
  <1> DEFINE r == call[c]
             l == loc[c]
  <1>0. r \in Request /\ l \in Local /\ running.tmpl[r.tmpl] \in Template /\ Shape(r, pc[c], l)
    BY CallFacts
  <1>1. pc[c] = "rbReread"
    BY DEF RbReread, Query
  <1>2. Continues(c, pc[c], Failed(r, l, "rollback"))
    BY <1>1, FailedContinues DEF Backing
  <1>3. Continues(c, pc[c], RemoveDesired(r, l))
    BY <1>0, <1>1, RemoveDesiredProceeds, ProceedsContinues DEF Backing, Holding
  <1> QED
    BY <1>2, <1>3, PlainQuery DEF RbReread

LEMMA RbUnbindKeep ==
    ASSUME Inv, CallShaped, KeepInv, NEW c \in Callers, RbUnbind(c)
    PROVE  KeepInv'
  <1> DEFINE r == call[c]
             l == loc[c]
  <1>0. r \in Request /\ l \in Local /\ running.tmpl[r.tmpl] \in Template /\ Shape(r, pc[c], l)
    BY CallFacts
  <1>1. pc[c] = "rbUnbind"
    BY DEF RbUnbind, Send
  <1> DEFINE m == UnbindOf(r.tmpl, r.name)
             ok == Go("rbVerify", l)
             bad == Failed(r, l, "rollback")
  <1>2. m \in Message /\ m.op = "unbind"
    BY <1>0, MessagesTyped DEF UnbindOf, Request
  <1>3. Proceeds(l, ok)
    BY DEF Proceeds, Keeps, Ahead
  <1>4. Proceeds(l, bad)
    BY <1>0, FailedProceeds
  <1>5. Send(c, "rbUnbind", m, ok, bad)
    BY DEF RbUnbind
  <1> HIDE DEF m, ok, bad
  <1>6. Continues(c, pc[c], ok) /\ Continues(c, pc[c], bad)
    BY <1>1, <1>3, <1>4, ProceedsContinues DEF Backing, Holding
  <1> QED
    BY <1>1, <1>2, <1>5, <1>6, PlainSend

LEMMA RbPersistKeep ==
    ASSUME Inv, CallShaped, KeepInv, NEW c \in Callers, RbPersist(c)
    PROVE  KeepInv'
  <1> DEFINE r == call[c]
             l == loc[c]
  <1>0. r \in Request /\ l \in Local /\ running.tmpl[r.tmpl] \in Template /\ Shape(r, pc[c], l)
    BY CallFacts
  <1>1. pc[c] = "rbPersist"
    BY DEF RbPersist, Send
  <1> DEFINE m == WriteMemory
             ok == Failed(r, [l EXCEPT !.rolled = TRUE, !.stage = "rolled-back"], "failed")
             bad == Failed(r, l, "rollback")
  <1>2. m \in Message /\ m.op = "write"
    BY WriteMessage
  <1>3. Backward(l, ok)
    <2> DEFINE e == [l EXCEPT !.rolled = TRUE, !.stage = "rolled-back"]
    <2>1. e \in Local /\ e.base = l.base /\ e.seen = l.seen /\ e.up = l.up /\ e.mutated = l.mutated
      BY <1>0 DEF Local, Stages
    <2> HIDE DEF e
    <2>2. Backward(e, Failed(r, e, "failed"))
      BY <1>0, <2>1, FailedProceeds
    <2>3. Backward(l, Failed(r, e, "failed"))
      BY <2>1, <2>2, SameProceeds
    <2> QED
      BY <2>3 DEF e
  <1>4. Backward(l, bad)
    BY <1>0, FailedProceeds
  <1>5. Send(c, "rbPersist", m, ok, bad)
    BY DEF RbPersist
  <1> HIDE DEF m, ok, bad
  <1>6. Continues(c, pc[c], ok) /\ Continues(c, pc[c], bad)
    BY <1>1, <1>3, <1>4, BackwardContinues DEF Backing
  <1> QED
    BY <1>1, <1>2, <1>5, <1>6, PlainSend

LEMMA UndoPersistKeep ==
    ASSUME Inv, CallShaped, KeepInv, NEW c \in Callers, UndoPersist(c)
    PROVE  KeepInv'
  <1> DEFINE r == call[c]
             l == loc[c]
  <1>0. r \in Request /\ l \in Local /\ running.tmpl[r.tmpl] \in Template /\ Shape(r, pc[c], l)
    BY CallFacts
  <1>1. pc[c] = "undoPersist"
    BY DEF UndoPersist, Send
  <1> DEFINE m == WriteMemory
             ok == Go("logoff", [l EXCEPT !.rolled = TRUE, !.stage = "rolled-back"])
             bad == Go("logoff", [l EXCEPT !.err = "rollback"])
  <1>2. m \in Message /\ m.op = "write"
    BY WriteMessage
  <1>3. Backward(l, ok)
    BY <1>0 DEF Backward, Keeps, Backing, Local
  <1>4. Backward(l, bad)
    BY <1>0 DEF Backward, Keeps, Backing, Local
  <1>5. Send(c, "undoPersist", m, ok, bad)
    BY DEF UndoPersist
  <1> HIDE DEF m, ok, bad
  <1>6. Continues(c, pc[c], ok) /\ Continues(c, pc[c], bad)
    BY <1>1, <1>3, <1>4, BackwardContinues DEF Backing
  <1> QED
    BY <1>1, <1>2, <1>5, <1>6, PlainSend

LEMMA UndoPairKeep ==
    ASSUME Inv, CallShaped, KeepInv, NEW c \in Callers, UndoPair(c)
    PROVE  KeepInv'
  <1> DEFINE r == call[c]
             l == loc[c]
  <1>0. r \in Request /\ l \in Local /\ running.tmpl[r.tmpl] \in Template /\ Shape(r, pc[c], l)
    BY CallFacts
  <1>1. pc[c] = "undoPair"
    BY DEF UndoPair, Send
  <1> DEFINE m == DeleteOf(l.up \cap PairOf(Desired(r)))
             ok == Go(IF l.up \subseteq PairOf(Desired(r)) THEN "undoCerts" ELSE "undoChain", l)
             bad == UndoFailed(r, l)
  <1>2. m \in Message /\ m.op = "delete" /\ m.files \subseteq l.up
    BY <1>0, MessagesTyped DEF DeleteOf, Local
  <1>3. Backward(l, ok)
    BY DEF Backward, Keeps, Backing
  <1>4. Backward(l, bad)
    BY <1>0, UndoFailedBackward
  <1>5. Send(c, "undoPair", m, ok, bad)
    BY DEF UndoPair
  <1> HIDE DEF m, ok, bad
  <1>6. Continues(c, pc[c], ok) /\ Continues(c, pc[c], bad)
    BY <1>1, <1>3, <1>4, BackwardContinues DEF Backing
  <1> QED
    BY <1>1, <1>2, <1>5, <1>6, PlainSend

LEMMA UndoChainKeep ==
    ASSUME Inv, CallShaped, KeepInv, NEW c \in Callers, UndoChain(c)
    PROVE  KeepInv'
  <1> DEFINE r == call[c]
             l == loc[c]
  <1>0. r \in Request /\ l \in Local /\ running.tmpl[r.tmpl] \in Template /\ Shape(r, pc[c], l)
    BY CallFacts
  <1>1. pc[c] = "undoChain"
    BY DEF UndoChain, Send
  <1> DEFINE m == DeleteOf(l.up \ PairOf(Desired(r)))
             ok == Go("undoCerts", l)
             bad == UndoFailed(r, l)
  <1>2. m \in Message /\ m.op = "delete" /\ m.files \subseteq l.up
    BY <1>0, MessagesTyped DEF DeleteOf, Local
  <1>3. Backward(l, ok)
    BY DEF Backward, Keeps, Backing
  <1>4. Backward(l, bad)
    BY <1>0, UndoFailedBackward
  <1>5. Send(c, "undoChain", m, ok, bad)
    BY DEF UndoChain
  <1> HIDE DEF m, ok, bad
  <1>6. Continues(c, pc[c], ok) /\ Continues(c, pc[c], bad)
    BY <1>1, <1>3, <1>4, BackwardContinues DEF Backing
  <1> QED
    BY <1>1, <1>2, <1>5, <1>6, PlainSend

LEMMA UndoCertsKeep ==
    ASSUME Inv, CallShaped, KeepInv, NEW c \in Callers, UndoCerts(c)
    PROVE  KeepInv'
  <1> DEFINE r == call[c]
             l == loc[c]
  <1>0. r \in Request /\ l \in Local /\ running.tmpl[r.tmpl] \in Template /\ Shape(r, pc[c], l)
    BY CallFacts
  <1>1. pc[c] = "undoCerts"
    BY DEF UndoCerts, Query
  <1>2. Backward(l, UndoFailed(r, l))
    BY <1>0, UndoFailedBackward
  <1>3. Backward(l, Go("undoKeys", [l EXCEPT !.info = StoreFiles("cert")]))
    BY <1>0 DEF Backward, Keeps, Backing, Local
  <1>4. /\ Continues(c, pc[c], UndoFailed(r, l))
        /\ Continues(c, pc[c], Go("undoKeys", [l EXCEPT !.info = StoreFiles("cert")]))
    BY <1>1, <1>2, <1>3, BackwardContinues DEF Backing
  <1> QED
    BY <1>4, PlainQuery DEF UndoCerts

LEMMA UndoKeysKeep ==
    ASSUME Inv, CallShaped, KeepInv, NEW c \in Callers, UndoKeys(c)
    PROVE  KeepInv'
  <1> DEFINE r == call[c]
             l == loc[c]
  <1>0. r \in Request /\ l \in Local /\ running.tmpl[r.tmpl] \in Template /\ Shape(r, pc[c], l)
    BY CallFacts
  <1>1. pc[c] = "undoKeys"
    BY DEF UndoKeys, Query
  <1> DEFINE ok == IF l.up \cap (l.info \cup StoreFiles("key")) = {} THEN Undone(l) ELSE UndoFailed(r, l)
  <1>2. Backward(l, UndoFailed(r, l)) /\ Backward(l, Undone(l))
    BY <1>0, UndoFailedBackward, UndoneBackward
  <1>3. Backward(l, ok)
    BY <1>2
  <1>4. Query(c, "undoKeys", ok, UndoFailed(r, l))
    BY DEF UndoKeys
  <1> HIDE DEF ok
  <1>5. Continues(c, pc[c], ok) /\ Continues(c, pc[c], UndoFailed(r, l))
    BY <1>1, <1>2, <1>3, BackwardContinues DEF Backing
  <1> QED
    BY <1>4, <1>5, PlainQuery

(* The first requests. *)

LEMMA VersionKeep ==
    ASSUME Inv, CallShaped, KeepInv, NEW c \in Callers, Version(c)
    PROVE  KeepInv'
  <1> DEFINE r == call[c]
             l == loc[c]
             ok == Go(IF r.create THEN "listCerts" ELSE "inspect",
                      [l EXCEPT !.stage = "compatibility-verified"])
  <1>0. r \in Request /\ l \in Local /\ Shape(r, pc[c], l)
    BY CallFacts
  <1>1. pc[c] = "version"
    BY DEF Version, Query
  <1>2. Continues(c, pc[c], Failed(r, l, "failed"))
    BY <1>1, FailedContinues DEF Backing
  <1>3. ok.at \in {"listCerts", "inspect"} /\ Keeps(l, ok)
    BY <1>0 DEF Keeps, Local
  <1>4. Query(c, "version", ok, Failed(r, l, "failed"))
    BY DEF Version
  <1> HIDE DEF ok
  <1>5. Claimed(r, ok.at, ok.loc) = l.up /\ Claimed(r, pc[c], l) = l.up
    BY <1>1, <1>3 DEF Claimed, Keeps
  <1>6. ASSUME NEW R, NEW q, Owner(r, pc[c], l, R, q)
        PROVE  Owner(r, ok.at, ok.loc, R, q)
    <2>1. q = {} /\ ~ Deleting(q) /\ ~ Hot(q, Claimed(r, pc[c], l))
      BY <1>1, <1>6 DEF Owner, Deleting, Hot
    <2> QED
      BY <1>3, <1>5, <1>6, <2>1, OwnerGoesOn DEF Keeps, Holding
  <1>7. Continues(c, pc[c], ok)
    BY <1>3, <1>5, <1>6 DEF Continues, Keeps
  <1> QED
    BY <1>2, <1>4, <1>7, PlainQuery

LEMMA TemplateInRefs ==
    ASSUME NEW R, NEW t \in Templates
    PROVE  TemplateFiles(R.tmpl[t]) \subseteq Refs(R)
  BY InRefs

(* The baseline is what the template refers to now: nothing another call   *)
(* has claimed.                                                            *)
LEMMA InspectKeep ==
    ASSUME Inv, CallShaped, KeepInv, NEW c \in Callers, Inspect(c)
    PROVE  KeepInv'
  <1> DEFINE r == call[c]
             l == loc[c]
             T == running.tmpl[r.tmpl]
             choice == SelectCurrent(T, r.current, Desired(r))
             read == [l EXCEPT !.base = T, !.exp = T, !.stage = "state-inspected"]
             next == Go("listCerts", [read EXCEPT !.cur = CHOOSE b \in choice : TRUE])
             ok == IF Unexpected(l, T) THEN Failed(r, read, "conflict")
                   ELSE IF choice = {} THEN Failed(r, read, "slot")
                   ELSE next
             bad == Failed(r, l, "failed")
  <1>0. /\ running \in Config /\ r \in Request /\ l \in Local /\ T \in Template /\ Shape(r, pc[c], l)
        /\ r \in Requests[c] /\ r.tmpl \in Templates /\ Whole(running)
        /\ c \in sessions => Owner(r, pc[c], l, running, doubt[c])
    BY CallFacts, KeepFacts DEF Request
  <1>1. pc[c] = "inspect"
    BY DEF Inspect, Query
  <1>2. ~ r.create /\ l.up = {} /\ ~ l.mutated
    BY <1>0, <1>1 DEF Shape, Course, Untouched
  <1>3. /\ read \in Local /\ read.base = T /\ read.up = l.up /\ read.mutated = l.mutated
        /\ next.loc.base = T /\ next.loc.up = l.up /\ next.loc.mutated = l.mutated /\ next.at = "listCerts"
    BY <1>0 DEF Local, Stages
  <1>4. Query(c, "inspect", ok, bad)
    BY DEF Inspect
  <1>5. \A err : /\ Failed(r, read, err).at \in Backing \cap Ahead
                 /\ Keeps(read, Failed(r, read, err))
    BY <1>0, <1>3, FailedProceeds DEF Proceeds, Backward
  <1> HIDE DEF read, next
  <1>6. /\ ok.loc.base = T /\ ok.loc.up = {} /\ ~ ok.loc.mutated
        /\ ok.at \in (Backing \cap Ahead) \cup {"listCerts"}
    BY <1>2, <1>3, <1>5 DEF Keeps
  <1> HIDE DEF ok
  <1>7. Claimed(r, ok.at, ok.loc) = {}
    BY <1>6 DEF Claimed, Ahead, Backing
  <1>8. Continues(c, pc[c], bad)
    BY <1>1, FailedContinues DEF Backing
  <1>9. ASSUME c \in sessions
        PROVE  Beside(c, bad) /\ Owner(r, bad.at, bad.loc, running, doubt[c])
    BY <1>0, <1>8, <1>9, StaysBeside DEF Continues
  <1>10. ASSUME c \in sessions
         PROVE  Owner(r, ok.at, ok.loc, running, doubt[c])
    <2>1. doubt[c] = {}
      BY <1>0, <1>1, <1>10 DEF Owner
    <2>2. ~ Deleting(doubt[c]) /\ ~ Hot(doubt[c], {}) /\ Spare(running, doubt[c], {})
      BY <2>1 DEF Deleting, Hot, Spare
    <2>3. TemplateFiles(T) \subseteq running.files
      BY <1>0, TemplateInRefs DEF Whole
    <2>4. OwnOnly(r, running, {})
      BY DEF OwnOnly
    <2> HIDE DEF T
    <2>5. Relied(r, ok.at, ok.loc, doubt[c]) \subseteq running.files
      BY <1>6, <2>1, <2>3, BoundByUnion DEF Holding, Relied
    <2> QED
      BY <1>6, <1>7, <2>1, <2>2, <2>4, <2>5 DEF Owner
  <1>11. ASSUME c \in sessions
         PROVE  Beside(c, ok)
    <2>1. ASSUME NEW d \in sessions \ {c}
          PROVE  TemplateFiles(T) \cap Claimed(call[d], pc[d], loc[d]) = {}
      <3> DEFINE N == Claimed(call[d], pc[d], loc[d])
      <3>1. d \in Callers /\ ClientOf[c] # ClientOf[d]
        BY <1>11, <2>1, OtherClient
      <3>2. call[d] \in Requests[d] /\ OwnOnly(call[d], running, N)
        BY <2>1, <3>1, KeepFacts DEF Owner
      <3>3. call[d].create \/ r.tmpl # call[d].tmpl
        BY <1>0, <1>2, <3>1, <3>2 DEF KeepInv, Keeping
      <3> HIDE DEF N
      <3>4. T.extra \cap N = {} /\ \A b \in T.certs : FilesOf(b) \cap N = {}
        BY <1>0, <3>2, <3>3 DEF OwnOnly
      <3>5. TemplateFiles(T) \cap N = {}
        BY <3>4 DEF TemplateFiles
      <3> QED
        BY <3>5 DEF N
    <2> HIDE DEF T
    <2> QED
      BY <1>6, <1>7, <2>1 DEF Beside
  <1>12. \A o \in {ok, bad} : o.at \in InCall \ {"auth"}
    BY <1>6, <1>8 DEF Ahead, Continues
  <1> HIDE DEF bad
  <1> QED
    BY <1>4, <1>9, <1>10, <1>11, <1>12, QueryKeep

(* What a listing does not hold is not on the appliance. *)
LEMMA ListingKeep ==
    ASSUME Inv, CallShaped, KeepInv, NEW c \in Callers, NEW label, NEW ok, NEW bad,
           Query(c, label, ok, bad), Continues(c, pc[c], bad),
           pc[c] \in {"listCerts", "listKeys"}, ok.at \in {"listKeys", "listInfo"},
           ok.loc.base = loc[c].base, ok.loc.mutated = loc[c].mutated, ok.loc.up = loc[c].up,
           Claimed(call[c], ok.at, ok.loc) \subseteq FilesOf(Desired(call[c])),
           Claimed(call[c], ok.at, ok.loc) \cap running.files \subseteq Claimed(call[c], pc[c], loc[c]),
           c \in sessions => Stock(call[c], ok.loc) \subseteq running.files
    PROVE  KeepInv'
  <1> DEFINE r == call[c]
             l == loc[c]
             q == doubt[c]
             N == Claimed(r, pc[c], l)
             N2 == Claimed(r, ok.at, ok.loc)
             B == TemplateFiles(l.base)
  <1>0. /\ running \in Config /\ Shape(r, pc[c], l) /\ Whole(running) /\ r \in Requests[c]
        /\ c \in sessions => Owner(r, pc[c], l, running, q)
    BY KeepFacts
  <1>1. l.up = {} /\ ~ l.mutated
    BY <1>0 DEF Shape, Course, Untouched
  <1>2. ASSUME c \in sessions
        PROVE  Beside(c, bad) /\ Owner(r, bad.at, bad.loc, running, q)
    BY <1>0, <1>2, StaysBeside DEF Continues
  <1>3. N2 \cap running.files \subseteq N
    OBVIOUS
  <1>4. ASSUME c \in sessions
        PROVE  Owner(r, ok.at, ok.loc, running, q)
    <2>1. /\ B \subseteq running.files /\ B \cap N = {} /\ OwnOnly(r, running, N) /\ Spare(running, q, N)
          /\ \A m \in q : Sent(r, l, m)
          /\ ~ Deleting(q) /\ q = {}
      BY <1>0, <1>1, <1>4 DEF Owner, Backing, Relied
    <2>6. Relied(r, ok.at, ok.loc, q) \subseteq running.files
      BY <1>4, <2>1, BoundByUnion DEF Relied
    <2>2. \A m \in q : Sent(r, ok.loc, m)
      BY <2>1 DEF Sent
    <2> HIDE DEF N, N2, B
    <2>3. N2 \cap B = {} /\ N2 \cap Refs(running) = {}
      BY <1>0, <1>3, <2>1 DEF Whole, Spare
    <2>4. OwnOnly(r, running, N2)
      <3>1. running.server \cap N2 = {}
        BY <2>3, InRefs
      <3>2. \A t \in Templates : TemplateFiles(running.tmpl[t]) \cap N2 = {}
        BY <2>3, InRefs
      <3>3. \A t \in Templates : /\ running.tmpl[t].extra \cap N2 = {}
                                 /\ \A b \in running.tmpl[t].certs : FilesOf(b) \cap N2 = {}
        BY <3>2 DEF TemplateFiles
      <3> QED
        BY <3>1, <3>3 DEF OwnOnly
    <2>5. ~ Hot(q, N2)
      BY <2>1 DEF Hot
    <2> QED
      BY <2>1, <2>2, <2>3, <2>4, <2>5, <2>6 DEF Owner, Spare, N, N2, B
  <1>5. ASSUME c \in sessions
        PROVE  Beside(c, ok)
    <2>1. ASSUME NEW d \in sessions \ {c}
          PROVE  /\ TemplateFiles(loc[d].base) \cap N2 = {}
                 /\ B \cap Claimed(call[d], pc[d], loc[d]) = {}
      <3>1. d \in Callers
        BY <1>5, <2>1, OtherClient
      <3>2. TemplateFiles(loc[d].base) \subseteq running.files
        BY <2>1, <3>1, KeepFacts DEF Owner, Relied
      <3>3. /\ TemplateFiles(loc[d].base) \cap N = {}
            /\ B \cap Claimed(call[d], pc[d], loc[d]) = {}
        BY <1>5, <2>1 DEF KeepInv
      <3> HIDE DEF N, N2, B
      <3> QED
        BY <1>3, <3>2, <3>3
    <2>2. BoundBy(stray) \subseteq running.files /\ BoundBy(stray) \cap N = {}
      BY <1>5 DEF KeepInv
    <2> HIDE DEF N, N2, B
    <2>3. BoundBy(stray) \cap N2 = {}
      BY <1>3, <2>2
    <2> QED
      BY <2>1, <2>3 DEF Beside, N, N2, B
  <1>6. \A o \in {ok, bad} : o.at \in InCall \ {"auth"}
    BY DEF Continues
  <1> HIDE DEF N, N2, B
  <1> QED
    BY <1>2, <1>4, <1>5, <1>6, QueryKeep

LEMMA StoreFilesAre ==
    ASSUME NEW store
    PROVE  \A f : f \in StoreFiles(store) <=> f \in running.files /\ f[1] = store
  BY DEF StoreFiles

LEMMA ListCertsKeep ==
    ASSUME Inv, CallShaped, KeepInv, NEW c \in Callers, ListCerts(c)
    PROVE  KeepInv'
  <1> DEFINE r == call[c]
             l == loc[c]
             e == [l EXCEPT !.seen = StoreFiles("cert")]
  <1>0. r \in Request /\ l \in Local /\ Shape(r, pc[c], l)
    BY CallFacts
  <1>1. pc[c] = "listCerts"
    BY DEF ListCerts, Query
  <1>2. Continues(c, pc[c], Failed(r, l, "failed"))
    BY <1>1, FailedContinues DEF Backing
  <1>3. e.base = l.base /\ e.up = l.up /\ e.mutated = l.mutated /\ e.seen = StoreFiles("cert")
    BY <1>0 DEF Local
  <1>4. Query(c, "listCerts", Go("listKeys", e), Failed(r, l, "failed"))
    BY DEF ListCerts
  <1> HIDE DEF e
  <1>5. /\ Claimed(r, "listKeys", e) \subseteq FilesOf(Desired(r))
        /\ Claimed(r, "listKeys", e) \cap running.files = {}
    BY <1>3, StoreFilesAre DEF Claimed
  <1>6. l.up = {}
    BY <1>0, <1>1 DEF Shape, Course, Untouched
  <1>7. Stock(r, e) \subseteq running.files
    BY <1>3, <1>6, StoreFilesAre DEF Stock
  <1> QED
    BY <1>1, <1>2, <1>3, <1>4, <1>5, <1>7, ListingKeep

LEMMA FileStores ==
    ASSUME NEW b
    PROVE  \A f \in FilesOf(b) : f[1] \in {"cert", "key"}
  BY DEF FilesOf, PairOf, ChainOf

LEMMA ListKeysKeep ==
    ASSUME Inv, CallShaped, KeepInv, NEW c \in Callers, ListKeys(c)
    PROVE  KeepInv'
  <1> DEFINE r == call[c]
             l == loc[c]
             e == [l EXCEPT !.seen = @ \cup StoreFiles("key")]
  <1>0. r \in Request /\ l \in Local /\ Shape(r, pc[c], l)
    BY CallFacts
  <1>1. pc[c] = "listKeys"
    BY DEF ListKeys, Query
  <1>2. Continues(c, pc[c], Failed(r, l, "failed"))
    BY <1>1, FailedContinues DEF Backing
  <1>3. e.base = l.base /\ e.up = l.up /\ e.mutated = l.mutated /\ e.seen = l.seen \cup StoreFiles("key")
    BY <1>0 DEF Local
  <1>4. Query(c, "listKeys", Go("listInfo", e), Failed(r, l, "failed"))
    BY DEF ListKeys
  <1> HIDE DEF e
  <1>5. Claimed(r, "listInfo", e) = FilesOf(Desired(r)) \ e.seen
    BY DEF Claimed
  <1>6. Claimed(r, "listKeys", l) = {f \in FilesOf(Desired(r)) \ l.seen : f[1] = "cert"}
    BY DEF Claimed
  <1>7. Claimed(r, "listInfo", e) \cap running.files \subseteq Claimed(r, "listKeys", l)
    BY <1>3, <1>5, <1>6, FileStores, StoreFilesAre
  <1>8. ASSUME c \in sessions
        PROVE  Stock(r, e) \subseteq running.files
    <2>1. Owner(r, "listKeys", l, running, doubt[c])
      BY <1>1, <1>8, KeepFacts
    <2>2. Stock(r, l) \subseteq running.files
      BY <2>1 DEF Owner, Holding, Backing, Relied
    <2>3. Stock(r, e) \subseteq Stock(r, l) \cup StoreFiles("key")
      BY <1>3 DEF Stock
    <2> QED
      BY <2>2, <2>3, StoreFilesAre
  <1> QED
    BY <1>1, <1>2, <1>3, <1>4, <1>5, <1>7, <1>8, ListingKeep

LEMMA ListInfoKeep ==
    ASSUME Inv, CallShaped, KeepInv, NEW c \in Callers, ListInfo(c)
    PROVE  KeepInv'
  <1> DEFINE r == call[c]
             l == loc[c]
             e == [l EXCEPT !.info = StoreFiles("cert")]
  <1>0. r \in Request /\ l \in Local /\ Shape(r, pc[c], l)
    BY CallFacts
  <1>1. pc[c] = "listInfo"
    BY DEF ListInfo, Query
  <1>2. Continues(c, pc[c], Failed(r, l, "failed"))
    BY <1>1, FailedContinues DEF Backing
  <1>3. StoreFiles("cert") \in SUBSET File
    BY StoreFilesTyped DEF Inv
  <1>4. e \in Local /\ e.base = l.base /\ e.up = l.up /\ e.mutated = l.mutated /\ e.seen = l.seen
    BY <1>0, <1>3 DEF Local
  <1>5. Query(c, "listInfo", AfterListing(r, e), Failed(r, l, "failed"))
    BY DEF ListInfo
  <1> HIDE DEF e
  <1>6. Loading(l, AfterListing(r, e))
    BY <1>0, <1>4, AfterListingLoading, SameProceeds
  <1>7. Continues(c, pc[c], AfterListing(r, e))
    BY <1>1, <1>6, LoadingContinues
  <1> QED
    BY <1>2, <1>5, <1>7, PlainQuery

(* An upload of a file that was not there. *)
LEMMA UploadKeep ==
    ASSUME Inv, CallShaped, KeepInv, NEW c \in Callers, NEW label, NEW f \in File,
           NEW k, k = Uploaded(loc[c], f), NEW ok, NEW bad,
           Send(c, label, UploadOf({f}), ok, bad), pc[c] \in Uploading,
           f \in FilesOf(Desired(call[c])) \ loc[c].seen,
           Loading(k, ok), Continues(c, pc[c], bad)
    PROVE  KeepInv'
  <1> DEFINE r == call[c]
             l == loc[c]
             at == pc[c]
             m == UploadOf({f})
  <1>0. l \in Local /\ Shape(r, at, l)
    BY KeepFacts
  <1>1. k.base = l.base /\ k.seen = l.seen /\ k.mutated = l.mutated /\ k.up = l.up \cup {f}
    BY <1>0 DEF Uploaded, Local
  <1>2. Claimed(r, at, k) = Claimed(r, at, l) /\ Claimed(r, at, l) = FilesOf(Desired(r)) \ l.seen
    BY <1>1 DEF Claimed
  <1>3. l.up \subseteq Claimed(r, at, l)
    BY <1>0, ClaimedShaped
  <1>4. k.up \subseteq Claimed(r, at, k)
    BY <1>1, <1>2, <1>3
  <1>5. ASSUME NEW R, NEW q, Owner(r, at, l, R, q), f \in R.files
        PROVE  Owner(r, ok.at, ok.loc, R, q)
    <2>1. ~ Deleting(q) /\ ~ Hot(q, Claimed(r, at, l))
      BY <1>5 DEF Owner, Backing
    <2>2. Stock(r, l) \subseteq R.files
      BY <1>5 DEF Owner, Holding, Backing, Relied
    <2>3. Stock(r, k) \subseteq R.files
      BY <1>1, <1>5, <2>2 DEF Stock
    <2>4. Owner(r, at, k, R, q)
      BY <1>1, <1>2, <1>5, <2>1, <2>3, OwnerGoesOn
    <2> QED
      BY <1>4, <2>4, LoadingOwner
  <1>6. Claimed(r, ok.at, ok.loc) \subseteq Claimed(r, at, l)
    BY <1>1, <1>2, <1>4 DEF Loading, Proceeds, Keeps, Ahead, Claimed
  <1>7. ok.at \in InCall \ {"auth"} /\ ok.loc.base = l.base
    BY <1>1 DEF Loading, Proceeds, Keeps, Ahead
  <1>9. m \in Message /\ m.op = "upload" /\ m.files = {f}
    BY MessagesTyped DEF UploadOf
  <1> HIDE DEF m
  <1>10. Send(c, label, m, ok, bad)
    BY DEF m
  <1>11. Sent(r, l, m)
    BY <1>9 DEF Sent
  <1>12. ASSUME c \in sessions, NEW R2, NEW S2, Effect(running, startup, m, R2, S2)
         PROVE  Owner(r, ok.at, ok.loc, R2, doubt[c])
    <2>1. running \in Config /\ Owner(r, at, l, running, doubt[c])
      BY <1>12, KeepFacts
    <2>2. Gentle(running, R2, Relied(r, at, l, doubt[c]), Claimed(r, at, l))
      BY <1>9, <1>12, <2>1, EffectGentle
    <2>3. Owner(r, at, l, R2, doubt[c])
      BY <2>1, <2>2, GentleOwner
    <2>4. f \in R2.files
      BY <1>9, <1>12, <2>1, UploadEffect
    <2> QED
      BY <1>5, <2>3, <2>4
  <1>13. ASSUME c \in sessions
         PROVE  Owner(r, bad.at, bad.loc, running, doubt[c] \cup Parts(m))
    <2>1. Owner(r, at, l, running, doubt[c])
      BY <1>13, KeepFacts
    <2>2. Parts(m) = {m}
      BY <1>9 DEF Parts
    <2>3. Owner(r, at, l, running, doubt[c] \cup Parts(m))
      BY <1>9, <1>11, <2>1, <2>2, MoreOwner
    <2> QED
      BY <2>3 DEF Continues
  <1>14. /\ \A o \in {ok, bad} : o.at \in InCall \ {"auth"}
         /\ c \in sessions => Beside(c, ok) /\ Beside(c, bad)
    BY <1>6, <1>7, StaysBeside DEF Continues
  <1>15. c \in sessions =>
          /\ Sent(r, l, m)
          /\ m.op = "delete" => m.files \cap Refs(running) = {}
          /\ \A R2, S2 : Effect(running, startup, m, R2, S2) => Owner(r, ok.at, ok.loc, R2, doubt[c])
          /\ Owner(r, bad.at, bad.loc, running, doubt[c] \cup Parts(m))
          /\ Beside(c, ok) /\ Beside(c, bad)
    BY <1>9, <1>11, <1>12, <1>13, <1>14
  <1> QED
    BY <1>9, <1>10, <1>14, <1>15, SendKeep

LEMMA UploadedTyped ==
    ASSUME NEW l \in Local, NEW f \in File
    PROVE  Uploaded(l, f) \in Local
  BY DEF Uploaded, Local

LEMMA UpKeyKeep ==
    ASSUME Inv, CallShaped, KeepInv, NEW c \in Callers, UpKey(c)
    PROVE  KeepInv'
  <1> DEFINE r == call[c]
             l == loc[c]
             f == <<"key", r.name>>
             k == Uploaded(l, f)
  <1>0. r \in Request /\ l \in Local /\ Shape(r, pc[c], l)
    BY CallFacts
  <1>1. pc[c] = "upKey"
    BY DEF UpKey, Send
  <1>2. Continues(c, pc[c], Failed(r, l, "failed"))
    BY <1>1, FailedContinues DEF Backing
  <1>3. f \in File /\ f \in FilesOf(Desired(r)) \ l.seen
    BY <1>0, <1>1 DEF Shape, Material, File, Request, FilesOf, PairOf, Desired
  <1>4. k \in Local
    BY <1>0, <1>3, UploadedTyped
  <1>5. Send(c, "upKey", UploadOf({f}), AfterKey(r, k), Failed(r, l, "failed"))
    BY DEF UpKey
  <1> HIDE DEF f
  <1>6. Loading(k, AfterKey(r, k))
    BY <1>0, <1>4, AfterKeyLoading
  <1> QED
    BY <1>1, <1>2, <1>3, <1>5, <1>6, UploadKeep

LEMMA UpCertKeep ==
    ASSUME Inv, CallShaped, KeepInv, NEW c \in Callers, UpCert(c)
    PROVE  KeepInv'
  <1> DEFINE r == call[c]
             l == loc[c]
             f == <<"cert", r.name>>
             k == Uploaded(l, f)
  <1>0. r \in Request /\ l \in Local /\ Shape(r, pc[c], l)
    BY CallFacts
  <1>1. pc[c] = "upCert"
    BY DEF UpCert, Send
  <1>2. Continues(c, pc[c], Failed(r, l, "failed"))
    BY <1>1, FailedContinues DEF Backing
  <1>3. f \in File /\ f \in FilesOf(Desired(r)) \ l.seen
    BY <1>0, <1>1 DEF Shape, Material, File, Request, FilesOf, PairOf, Desired
  <1>4. k \in Local
    BY <1>0, <1>3, UploadedTyped
  <1>5. Send(c, "upCert", UploadOf({f}), AfterCert(r, k), Failed(r, l, "failed"))
    BY DEF UpCert
  <1> HIDE DEF f
  <1>6. Loading(k, AfterCert(r, k))
    BY <1>0, <1>4, AfterCertLoading
  <1> QED
    BY <1>1, <1>2, <1>3, <1>5, <1>6, UploadKeep

LEMMA UpChainKeep ==
    ASSUME Inv, CallShaped, KeepInv, NEW c \in Callers, UpChain(c)
    PROVE  KeepInv'
  <1> DEFINE r == call[c]
             l == loc[c]
             f == <<"cert", r.chain>>
             k == Uploaded(l, f)
  <1>0. r \in Request /\ l \in Local /\ Shape(r, pc[c], l)
    BY CallFacts
  <1>1. pc[c] = "upChain"
    BY DEF UpChain, Send
  <1>2. Continues(c, pc[c], Failed(r, l, "failed"))
    BY <1>1, FailedContinues DEF Backing
  <1>7. r.chain # NoName
    BY <1>1 DEF Inv, LocalsFit, Fits
  <1>3. f \in File /\ f \in FilesOf(Desired(r)) \ l.seen
    BY <1>0, <1>1, <1>7 DEF Shape, Material, File, Request, FilesOf, ChainOf, Desired
  <1>4. k \in Local
    BY <1>0, <1>3, UploadedTyped
  <1>5. Send(c, "upChain", UploadOf({f}), Ready(r, k), Failed(r, l, "failed"))
    BY DEF UpChain
  <1> HIDE DEF f
  <1>6. Loading(k, Ready(r, k))
    BY <1>0, <1>4, ReadyLoading
  <1> QED
    BY <1>1, <1>2, <1>3, <1>5, <1>6, UploadKeep

(* From here on the template may refer to what was uploaded. *)
LEMMA BindKeep ==
    ASSUME Inv, CallShaped, KeepInv, NEW c \in Callers, Bind(c)
    PROVE  KeepInv'
  <1> DEFINE r == call[c]
             l == loc[c]
             q == doubt[c]
             m == BindOf(r.tmpl, Desired(r))
             e == [l EXCEPT !.mutated = TRUE]
             f == [e EXCEPT !.bindFailed = TRUE]
             B == TemplateFiles(l.base)
             N == l.up
  <1>0. /\ running \in Config /\ r \in Request /\ l \in Local /\ Shape(r, pc[c], l)
        /\ c \in sessions => Owner(r, pc[c], l, running, q)
    BY KeepFacts
  <1>1. pc[c] = "bind"
    BY DEF Bind, Send
  <1>2. ~ r.create /\ ~ l.mutated
    BY <1>0, <1>1 DEF Shape, Course, Expected
  <1>3. /\ m \in Message /\ m.op = "bind" /\ m.tmpl = r.tmpl /\ m.binding = Desired(r)
    BY <1>0, MessagesTyped, DesiredTyped DEF BindOf, Request
  <1>4. /\ e.base = l.base /\ e.up = l.up /\ e.mutated
        /\ f.base = l.base /\ f.up = l.up /\ f.mutated
    BY <1>0 DEF Local
  <1>5. Send(c, "bind", m, Go("readBack", e), Go("readBack", f))
    BY DEF Bind
  <1> HIDE DEF e, f
  <1>6. /\ Claimed(r, pc[c], l) = N
        /\ Claimed(r, "readBack", e) = N /\ Claimed(r, "readBack", f) = N
    BY <1>1, <1>4 DEF Claimed
  <1>16. FilesOf(Desired(r)) \subseteq l.seen \cup l.up /\ Stock(r, l) = FilesOf(Desired(r))
    BY <1>0, <1>1 DEF Shape, Material, Stock
  <1>17. Stock(r, e) = Stock(r, l) /\ Stock(r, f) = Stock(r, l)
    BY <1>0 DEF Stock, e, f, Local
  <1>7. ASSUME c \in sessions
        PROVE  /\ B \subseteq running.files /\ B \cap N = {} /\ OwnOnly(r, running, N)
               /\ \A n \in q : Sent(r, l, n)
               /\ Spare(running, q, N) /\ ~ Deleting(q)
               /\ BoundBy(q) \subseteq running.files /\ FilesOf(Desired(r)) \subseteq running.files
    BY <1>0, <1>1, <1>2, <1>6, <1>7, <1>16 DEF Owner, Backing, Holding, Relied
  <1>8. Sent(r, l, m) /\ m.op # "delete"
    BY <1>2, <1>3 DEF Sent
  <1>9. ASSUME c \in sessions, NEW R2, NEW S2, Effect(running, startup, m, R2, S2)
        PROVE  Owner(r, "readBack", e, R2, q)
    <2>0. m.op = "bind" /\ m \in Message /\ m.tmpl = r.tmpl /\ m.binding = Desired(r)
      BY <1>3
    <2> HIDE DEF m
    <2>a. /\ OneTemplate(running, m.tmpl, R2)
          /\ R2.tmpl[m.tmpl].certs \subseteq running.tmpl[m.tmpl].certs \cup {m.binding}
      BY <1>0, <1>9, <2>0, BindEffect
    <2>1. /\ OneTemplate(running, r.tmpl, R2)
          /\ R2.tmpl[r.tmpl].certs \subseteq running.tmpl[r.tmpl].certs \cup {Desired(r)}
      BY <2>0, <2>a
    <2> HIDE DEF B, N
    <2>2. OwnOnly(r, R2, N)
      BY <1>2, <1>7, <1>9, <2>1 DEF OwnOnly, OneTemplate
    <2>3. R2.files = running.files
      BY <2>1 DEF OneTemplate
    <2>4. \A n \in q : Sent(r, e, n)
      BY <1>4, <1>7, <1>9 DEF Sent, N
    <2>5. TemplateFiles(e.base) = B
      BY <1>4 DEF B
    <2>6. Relied(r, "readBack", e, q) \subseteq R2.files
      BY <1>7, <1>9, <1>16, <1>17, <2>3, <2>5 DEF Relied
    <2> QED
      BY <1>4, <1>6, <1>7, <1>9, <2>2, <2>4, <2>5, <2>6 DEF Owner, Spare
  <1>10. ASSUME c \in sessions
         PROVE  Owner(r, "readBack", f, running, q \cup Parts(m))
    <2>1. Parts(m) = {m}
      BY <1>3 DEF Parts
    <2>2. \A n \in q \cup {m} : Sent(r, f, n)
      BY <1>4, <1>7, <1>8, <1>10 DEF Sent
    <2>3. ~ Deleting(q \cup {m})
      BY <1>3, <1>7, <1>10 DEF Deleting
    <2>4. TemplateFiles(f.base) = B
      BY <1>4
    <2>5. m.binding = Desired(r)
      BY <1>3
    <2> HIDE DEF B, N, m
    <2>6. BoundBy(q \cup {m}) \subseteq running.files
      BY <1>7, <1>10, <2>5, BoundByIs
    <2>7. Relied(r, "readBack", f, q \cup {m}) \subseteq running.files
      BY <1>7, <1>10, <1>16, <1>17, <2>4, <2>6 DEF Relied
    <2> QED
      BY <1>4, <1>6, <1>7, <1>10, <2>1, <2>2, <2>3, <2>4, <2>7 DEF Owner, Spare
  <1>11. ASSUME c \in sessions
         PROVE  Beside(c, Go("readBack", e)) /\ Beside(c, Go("readBack", f))
    BY <1>4, <1>6, <1>11, StaysBeside
  <1> DEFINE ok == Go("readBack", e)
             bad == Go("readBack", f)
  <1>12. ok.at = "readBack" /\ ok.loc = e /\ bad.at = "readBack" /\ bad.loc = f
    OBVIOUS
  <1>13. Send(c, "bind", m, ok, bad) /\ m \in Message
    BY <1>3, <1>5
  <1>14. c \in sessions => Beside(c, ok) /\ Beside(c, bad)
    BY <1>11
  <1> HIDE DEF m, ok, bad
  <1>15. c \in sessions =>
             /\ Sent(r, l, m)
             /\ m.op = "delete" => m.files \cap Refs(running) = {}
             /\ \A R2, S2 : Effect(running, startup, m, R2, S2) => Owner(r, ok.at, ok.loc, R2, q)
             /\ Owner(r, bad.at, bad.loc, running, q \cup Parts(m))
             /\ Beside(c, ok) /\ Beside(c, bad)
    BY <1>8, <1>9, <1>10, <1>12, <1>14
  <1> QED
    BY <1>12, <1>13, <1>15, SendKeep

(* The desired binding is seen, so that its bind is no longer in doubt.    *)
LEMMA ReadBackKeep ==
    ASSUME Inv, CallShaped, KeepInv, NEW c \in Callers, ReadBack(c)
    PROVE  KeepInv'
  <1> DEFINE r == call[c]
             l == loc[c]
             q == doubt[c]
             T == running.tmpl[r.tmpl]
             appended == WithBinding(l.base, Desired(r))
             replaced == WithoutCertificate(appended, l.cur.cert)
             bound == [l EXCEPT !.exp = T, !.changed = TRUE, !.stage = "bound"]
             ok == IF T = appended THEN AfterBinding(r, bound, FALSE)
                   ELSE IF Replaces(r, l) /\ T = replaced THEN AfterBinding(r, bound, TRUE)
                   ELSE IF ~ l.bindFailed THEN Failed(r, l, "conflict")
                   ELSE Failed(r, l, IF T = l.base THEN "failed" ELSE "ambiguous")
             bad == Failed(r, l, IF l.bindFailed THEN "ambiguous" ELSE "failed")
  <1>0. /\ running \in Config /\ r \in Request /\ l \in Local /\ T \in Template /\ Shape(r, pc[c], l)
        /\ r.tmpl \in Templates
        /\ c \in sessions => Owner(r, pc[c], l, running, q)
    BY CallFacts, KeepFacts DEF Request
  <1>1. pc[c] = "readBack"
    BY DEF ReadBack, Query
  <1>2. l.mutated
    BY <1>0, <1>1 DEF Shape, Course, Expected
  <1>3. Query(c, "readBack", ok, bad)
    BY DEF ReadBack
  <1>4. bound \in Local /\ bound.base = l.base /\ bound.seen = l.seen /\ bound.up = l.up /\ bound.mutated = l.mutated
    BY <1>0 DEF Local, Stages
  <1>5. T = appended \/ (Replaces(r, l) /\ T = replaced) => Desired(r) \in T.certs
    <2>0. l.base \in Template /\ Desired(r) \in Binding
      BY <1>0, DesiredTyped DEF Local
    <2>1. Desired(r) \in appended.certs /\ appended \in Template
      BY <2>0, WithOf
    <2> HIDE DEF appended
    <2>2. replaced.certs = {p \in appended.certs : p.cert # l.cur.cert}
      BY <2>1, WithoutOf
    <2>3. Replaces(r, l) => Desired(r) \in replaced.certs
      BY <2>1, <2>2 DEF Replaces, Desired
    <2> QED
      BY <2>1, <2>3
  <1> HIDE DEF appended, replaced, bound
  <1>6. \A implicit : Proceeds(l, AfterBinding(r, bound, implicit))
    BY <1>0, <1>4, AfterBindingProceeds, SameProceeds
  <1>7. \A err : /\ Proceeds(l, Failed(r, l, err)) /\ Failed(r, l, err).at \in Backing
    BY <1>0, FailedProceeds DEF Backward
  <1>8. \A o : Proceeds(l, o) /\ o.at \in Backing \cap InCall => o.at \in {"logoff", "undoPersist"}
    BY <1>2 DEF Proceeds, Ahead, Backing
  <1>9. \A err : Failed(r, l, err).at = "logoff"
    <2>1. \A err : Failed(r, l, err).at # "undoPersist"
      BY DEF Failed, Undo
    <2> QED
      BY <1>7, <1>8, <2>1 DEF Proceeds, Ahead
  <1>10. /\ Proceeds(l, ok) /\ Proceeds(l, bad) /\ bad.at = "logoff"
         /\ ok.at = "logoff" \/ Desired(r) \in T.certs
    <2>1. bad \in {Failed(r, l, "ambiguous"), Failed(r, l, "failed")}
      OBVIOUS
    <2>2. \/ ok = AfterBinding(r, bound, FALSE) /\ T = appended
          \/ ok = AfterBinding(r, bound, TRUE) /\ Replaces(r, l) /\ T = replaced
          \/ ok \in {Failed(r, l, "conflict"), Failed(r, l, "failed"), Failed(r, l, "ambiguous")}
      OBVIOUS
    <2> HIDE DEF ok, bad
    <2> QED
      BY <1>5, <1>6, <1>7, <1>9, <2>1, <2>2
  <1> HIDE DEF ok, bad
  <1>11. ASSUME c \in sessions, NEW o \in {ok, bad}
         PROVE  Beside(c, o) /\ Owner(r, o.at, o.loc, running, q)
    <2>1. Claimed(r, pc[c], l) = l.up /\ Claimed(r, o.at, o.loc) = l.up
      BY <1>1, <1>10 DEF Claimed, Proceeds, Keeps, Ahead
    <2>2. o.at \in InCall \ ({"auth"} \cup Opening \cup Listing \cup {"rbPersist"})
      BY <1>10 DEF Proceeds, Ahead
    <2>3. Beside(c, o)
      BY <1>10, <1>11, <2>1, StaysBeside DEF Proceeds, Keeps
    <2>4. o.at \notin Undoing
      BY <1>2, <1>10 DEF Proceeds
    <2>5. ~ Deleting(q)
      BY <1>0, <1>1, <1>11 DEF Owner, Backing
    <2>6. Hot(q, l.up) => o.at = "logoff"
      <3>1. ASSUME Hot(q, l.up), Desired(r) \in T.certs
            PROVE  FALSE
        <4>1. l.up \cap Refs(running) = {}
          BY <1>0, <1>1, <1>11, <2>1, <3>1 DEF Owner
        <4>2. FilesOf(Desired(r)) \subseteq TemplateFiles(T)
          BY <3>1 DEF TemplateFiles
        <4>3. TemplateFiles(T) \subseteq Refs(running)
          BY <1>0, TemplateInRefs
        <4>4. l.up \subseteq FilesOf(Desired(r))
          BY <1>0 DEF Shape, Common
        <4>5. l.up = {}
          BY <4>1, <4>2, <4>3, <4>4
        <4> QED
          BY <3>1, <4>5 DEF Hot
      <3> QED
        BY <1>10, <3>1
    <2>7. Stock(r, o.loc) \subseteq running.files
      BY <1>0, <1>1, <1>10, <1>11, KeptStock DEF Proceeds, Holding, Backing
    <2> QED
      BY <1>0, <1>10, <1>11, <2>1, <2>2, <2>3, <2>4, <2>5, <2>6, <2>7, OwnerGoesOn DEF Proceeds, Keeps
  <1>12. \A o \in {ok, bad} : o.at \in InCall \ {"auth"}
    BY <1>10 DEF Proceeds, Ahead
  <1> QED
    BY <1>3, <1>11, <1>12, QueryKeep

(* The template is the baseline again: nothing refers to the uploads.      *)
LEMMA RbVerifyKeep ==
    ASSUME Inv, CallShaped, KeepInv, NEW c \in Callers, RbVerify(c)
    PROVE  KeepInv'
  <1> DEFINE r == call[c]
             l == loc[c]
             q == doubt[c]
             ok == IF running.tmpl[r.tmpl] = l.base THEN Undo(r, l) ELSE Failed(r, l, "rollback")
             bad == Failed(r, l, "rollback")
             N == l.up
  <1>0. /\ r \in Request /\ l \in Local /\ Shape(r, pc[c], l) /\ r.tmpl \in Templates
        /\ c \in sessions => Owner(r, pc[c], l, running, q)
    BY KeepFacts DEF Request
  <1>1. pc[c] = "rbVerify"
    BY DEF RbVerify, Query
  <1>2. Continues(c, pc[c], bad)
    BY <1>1, FailedContinues DEF Backing
  <1>3. Query(c, "rbVerify", ok, bad)
    BY DEF RbVerify
  <1>4. Claimed(r, pc[c], l) = N
    BY <1>1 DEF Claimed
  <1>5. ASSUME c \in sessions
        PROVE  Beside(c, bad) /\ Owner(r, bad.at, bad.loc, running, q)
    BY <1>0, <1>2, <1>5, StaysBeside DEF Continues
  <1>6. ASSUME c \in sessions, running.tmpl[r.tmpl] = l.base
        PROVE  Beside(c, ok) /\ Owner(r, ok.at, ok.loc, running, q)
    <2>1. Keeps(l, ok) /\ ok.at \in Undoing
      BY <1>0, <1>6, UndoBackward
    <2> HIDE DEF ok
    <2>2. Claimed(r, ok.at, ok.loc) = N
      BY <2>1 DEF Claimed, Keeps
    <2>3. /\ TemplateFiles(l.base) \cap N = {} /\ OwnOnly(r, running, N)
          /\ ~ Hot(q, N) /\ ~ Deleting(q)
      BY <1>0, <1>1, <1>4, <1>6 DEF Owner, Backing
    <2>4. \A t \in Templates : TemplateFiles(running.tmpl[t]) \cap N = {}
      <3>1. ASSUME NEW t \in Templates, t # r.tmpl
            PROVE  TemplateFiles(running.tmpl[t]) \cap N = {}
        <4>1. /\ running.tmpl[t].extra \cap N = {}
              /\ \A b \in running.tmpl[t].certs : FilesOf(b) \cap N = {}
          BY <2>3, <3>1 DEF OwnOnly
        <4> QED
          BY <4>1 DEF TemplateFiles
      <3> QED
        BY <1>6, <2>3, <3>1
    <2>5. running.server \cap N = {}
      BY <2>3 DEF OwnOnly
    <2>6. N \cap Refs(running) = {}
      BY <2>4, <2>5, InRefs
    <2>7. Spare(running, q, N)
      BY <2>3, <2>6 DEF Spare
    <2>8. Beside(c, ok)
      BY <1>4, <1>6, <2>1, <2>2, StaysBeside DEF Keeps
    <2> QED
      BY <1>0, <1>4, <1>6, <2>1, <2>2, <2>3, <2>7, <2>8, OwnerGoesOn DEF Keeps, Holding, Backing
  <1>7. running.tmpl[r.tmpl] # l.base => ok = bad
    OBVIOUS
  <1>8. \A o \in {ok, bad} : o.at \in InCall \ {"auth"}
    BY <1>0, <1>2, UndoBackward DEF Continues
  <1> HIDE DEF ok, bad
  <1> QED
    BY <1>3, <1>5, <1>6, <1>7, <1>8, QueryKeep

(* Nobody cleans up. *)
LEMMA NeverCleans ==
    ASSUME Inv, CallShaped, KeepInv, NEW c \in Callers
    PROVE  ~ (ScanClient(c) \/ ScanServer(c) \/ DeletePair(c) \/ DeleteChain(c) \/ PersistCleanup(c))
  <1>1. Shape(call[c], pc[c], loc[c]) /\ ~ call[c].cleanup
    BY KeepFacts
  <1>2. pc[c] \notin Cleaning
    BY <1>1 DEF Shape, Course
  <1> QED
    BY <1>2 DEF ScanClient, ScanServer, DeletePair, DeleteChain, PersistCleanup, Query, Send

(* Whoever has a valid signature goes on as before. *)
LEMMA OutsideKeep ==
    ASSUME Inv, KeepInv, UNCHANGED <<running, startup>>, sessions' \subseteq sessions,
           \A d \in Callers :
              /\ pc'[d] \in {"lock", "auth"} => loc'[d].base = Idle
              /\ d \in sessions' => /\ pc'[d] = pc[d] /\ call'[d] = call[d] /\ loc'[d] = loc[d]
                                    /\ doubt'[d] = doubt[d]
              /\ d \notin sessions' => doubt'[d] = {},
           BoundBy(stray') \subseteq running.files,
           \A d \in sessions' : BoundBy(stray') \cap Claimed(call[d], pc[d], loc[d]) = {}
    PROVE  KeepInv'
  <1>1. sessions \subseteq Callers
    BY DEF Inv, TypeOK
  <1>2. Whole(running)' /\ Whole(startup)' /\ Keeping'
    BY DEF KeepInv, Whole, Keeping
  <1>3. ASSUME NEW d \in Callers
        PROVE  /\ pc'[d] \in {"lock", "auth"} => loc'[d].base = Idle
               /\ d \in sessions' => Active(d)' /\ pc'[d] # "auth"
               /\ doubt'[d] # {} => d \in sessions'
               /\ d \in sessions' => Owner(call[d], pc[d], loc[d], running, doubt[d])'
    BY DEF KeepInv, Active
  <1>4. ASSUME NEW d \in sessions', NEW e \in sessions', d # e
        PROVE  (TemplateFiles(loc[e].base) \cap Claimed(call[d], pc[d], loc[d]))' = {}
    BY <1>1, <1>4 DEF KeepInv
  <1>5. ASSUME NEW d \in sessions'
        PROVE  (BoundBy(stray) \cap Claimed(call[d], pc[d], loc[d]))' = {}
    BY <1>1, <1>5
  <1>6. (BoundBy(stray) \subseteq running.files)'
    OBVIOUS
  <1> QED
    BY <1>2, <1>3, <1>4, <1>5, <1>6 DEF KeepInv

LEMMA NoSessionKeep ==
    ASSUME KeepInv, NEW c \in Callers, pc[c] \in Rest \cup {"lock", "auth"}
    PROVE  c \notin sessions /\ doubt[c] = {}
  BY DEF KeepInv, Active

LEMMA TakeOutsideKeep ==
    ASSUME Inv, KeepInv, NEW c \in Callers, pc[c] \in Rest \cup {"lock", "auth"}, NEW o, Take(c, o),
           o.at \in {"lock", "auth"} => o.loc.base = Idle,
           \A d \in Callers \ {c} : call'[d] = call[d], UNCHANGED appliance
    PROVE  KeepInv'
  <1>1. c \notin sessions /\ doubt[c] = {}
    BY NoSessionKeep
  <1>2. /\ pc'[c] = o.at /\ loc'[c] = o.loc
        /\ \A d \in Callers \ {c} : pc'[d] = pc[d] /\ loc'[d] = loc[d]
    BY TakeOther
  <1>3. \A d \in Callers : /\ d \notin sessions => doubt[d] = {}
                           /\ pc[d] \in {"lock", "auth"} => loc[d].base = Idle
    BY DEF KeepInv
  <1>4. /\ BoundBy(stray) \subseteq running.files
        /\ \A d \in sessions : BoundBy(stray) \cap Claimed(call[d], pc[d], loc[d]) = {}
    BY DEF KeepInv
  <1>5. UNCHANGED <<running, startup, sessions, doubt, stray>>
    BY DEF appliance
  <1> QED
    BY <1>1, <1>2, <1>3, <1>4, <1>5, OutsideKeep

LEMMA FreshBase == \A pin : Fresh(pin).base = Idle
  BY DEF Fresh

LEMMA InvokeKeep ==
    ASSUME Inv, KeepInv, NEW c \in Callers, Invoke(c)
    PROVE  KeepInv'
  <1>1. PICK r \in Requests[c] :
            /\ pc[c] \in Rest /\ call' = [call EXCEPT ![c] = r] /\ UNCHANGED appliance
            /\ Take(c, Go("lock", Fresh(IF r.pinned THEN {running.tmpl[r.tmpl]} ELSE {})))
    BY DEF Invoke
  <1>2. \A d \in Callers \ {c} : call'[d] = call[d]
    BY <1>1 DEF Inv, TypeOK
  <1> QED
    BY <1>1, <1>2, FreshBase, TakeOutsideKeep

LEMMA RetryKeep ==
    ASSUME Inv, KeepInv, NEW c \in Callers, Retry(c)
    PROVE  KeepInv'
  BY FreshBase, TakeOutsideKeep DEF Retry

LEMMA LockKeep ==
    ASSUME Inv, KeepInv, NEW c \in Callers, Lock(c)
    PROVE  KeepInv'
  <1>1. pc[c] = "lock" /\ loc[c].base = Idle /\ UNCHANGED appliance /\ UNCHANGED call
    BY DEF Lock, KeepInv
  <1> QED
    BY <1>1, TakeOutsideKeep DEF Lock

LEMMA AuthKeep ==
    ASSUME Inv, CallShaped, KeepInv, NEW c \in Callers, Auth(c)
    PROVE  KeepInv'
  <1> DEFINE r == call[c]
             l == loc[c]
  <1>1. c \notin sessions /\ doubt[c] = {} /\ pc[c] = "auth"
    BY NoSessionKeep DEF Auth
  <1>2. l.base = Idle /\ Shape(r, pc[c], l)
    BY <1>1, KeepFacts DEF KeepInv
  <1>3. CASE sessions' = sessions \cup {c} /\ Take(c, Go("version", l))
    <2>1. UNCHANGED <<running, startup, doubt, stray, call>>
      BY DEF Auth
    <2>2. /\ pc'[c] = "version" /\ loc'[c] = l
          /\ \A d \in Callers \ {c} : pc'[d] = pc[d] /\ loc'[d] = loc[d]
      BY <1>3, TakeOther
    <2>3. TemplateFiles(l.base) = {} /\ Claimed(r, "version", l) = {} /\ l.up = {} /\ ~ l.mutated
      BY <1>1, <1>2 DEF TemplateFiles, Idle, Claimed, Shape, Course, Untouched
    <2>4. Owner(r, "version", l, running, {})
      BY <2>3, BoundByUnion DEF Owner, OwnOnly, Spare, Hot, Deleting, Holding, Relied
    <2>5. Whole(running)' /\ Whole(startup)' /\ Keeping' /\ (BoundBy(stray) \subseteq running.files)'
      BY <2>1 DEF KeepInv, Whole, Keeping
    <2>8. ASSUME NEW d \in sessions'
          PROVE  (BoundBy(stray) \cap Claimed(call[d], pc[d], loc[d]))' = {}
      <3>1. sessions \subseteq Callers
        BY DEF Inv, TypeOK
      <3> QED
        BY <1>3, <2>1, <2>2, <2>3, <2>8, <3>1 DEF KeepInv
    <2>6. ASSUME NEW d \in Callers
          PROVE  /\ pc'[d] \in {"lock", "auth"} => loc'[d].base = Idle
                 /\ d \in sessions' => Active(d)' /\ pc'[d] # "auth"
                 /\ doubt'[d] # {} => d \in sessions'
                 /\ d \in sessions' => Owner(call[d], pc[d], loc[d], running, doubt[d])'
      <3>1. CASE d = c
        BY <1>1, <1>3, <2>1, <2>2, <2>4, <3>1 DEF Active
      <3>2. CASE d # c
        BY <1>3, <2>1, <2>2, <3>2 DEF KeepInv, Active
      <3> QED
        BY <3>1, <3>2
    <2>7. ASSUME NEW d \in sessions', NEW e \in sessions', d # e
          PROVE  (TemplateFiles(loc[e].base) \cap Claimed(call[d], pc[d], loc[d]))' = {}
      <3>1. sessions \subseteq Callers
        BY DEF Inv, TypeOK
      <3>2. CASE d = c
        BY <2>1, <2>2, <2>3, <3>2
      <3>3. CASE e = c
        BY <2>1, <2>2, <2>3, <3>3
      <3>4. CASE d # c /\ e # c
        BY <1>3, <2>1, <2>2, <2>7, <3>1, <3>4 DEF KeepInv
      <3> QED
        BY <3>2, <3>3, <3>4
    <2> QED
      BY <2>5, <2>6, <2>7, <2>8 DEF KeepInv
  <1>4. CASE UNCHANGED sessions /\ Take(c, Go("returned", [loc[c] EXCEPT !.err = "failed"]))
    <2>1. UNCHANGED appliance /\ UNCHANGED call
      BY <1>4 DEF Auth, appliance
    <2> QED
      BY <1>1, <1>4, <2>1, TakeOutsideKeep
  <1> QED
    BY <1>3, <1>4 DEF Auth

(* What a call leaves behind binds files that are there and that no other  *)
(* call claims.                                                            *)
LEMMA LeftBehind ==
    ASSUME Inv, CallShaped, KeepInv, NEW c \in Callers
    PROVE  /\ BoundBy(doubt[c]) \subseteq running.files
           /\ \A d \in sessions \ {c} : BoundBy(doubt[c]) \cap Claimed(call[d], pc[d], loc[d]) = {}
  <1>1. CASE c \notin sessions
    <2>1. doubt[c] = {}
      BY <1>1 DEF KeepInv
    <2> QED
      BY <2>1, BoundByUnion
  <1>2. CASE c \in sessions
    <2>1. Owner(call[c], pc[c], loc[c], running, doubt[c]) /\ call[c] \in Requests[c]
      BY <1>2, KeepFacts
    <2>2. BoundBy(doubt[c]) \subseteq running.files
      BY <2>1 DEF Owner, Relied
    <2>3. BoundBy(doubt[c]) \subseteq TemplateFiles(loc[c].base) \cup FilesOf(Desired(call[c]))
      BY <2>1, ReliedIs
    <2>4. ASSUME NEW d \in sessions \ {c}
          PROVE  BoundBy(doubt[c]) \cap Claimed(call[d], pc[d], loc[d]) = {}
      <3>1. d \in Callers /\ ClientOf[c] # ClientOf[d]
        BY <1>2, <2>4, OtherClient
      <3>2. call[d] \in Requests[d] /\ Shape(call[d], pc[d], loc[d])
        BY <3>1, KeepFacts
      <3>3. FilesOf(Desired(call[c])) \cap FilesOf(Desired(call[d])) = {}
        BY <2>1, <3>1, <3>2 DEF KeepInv, Keeping
      <3>4. TemplateFiles(loc[c].base) \cap Claimed(call[d], pc[d], loc[d]) = {}
        BY <1>2, <2>4 DEF KeepInv
      <3>5. Claimed(call[d], pc[d], loc[d]) \subseteq FilesOf(Desired(call[d]))
        BY <3>2, ClaimedShaped
      <3> QED
        BY <2>3, <3>3, <3>4, <3>5
    <2> QED
      BY <2>2, <2>4
  <1> QED
    BY <1>1, <1>2

(* Calls of K end, and what they have in doubt may be carried out later.   *)
LEMMA EndedKeep ==
    ASSUME Inv, CallShaped, KeepInv, NEW K \in SUBSET Callers, UNCHANGED <<running, startup, call>>,
           sessions' = sessions \ K, stray' \subseteq stray \cup UNION {doubt[c] : c \in K},
           \A d \in Callers :
              /\ pc'[d] \in {"lock", "auth"} => loc'[d].base = Idle
              /\ d \notin K => pc'[d] = pc[d] /\ loc'[d] = loc[d]
              /\ doubt'[d] = IF d \in K THEN {} ELSE doubt[d]
    PROVE  KeepInv'
  <1>1. \A f \in BoundBy(stray') : f \in BoundBy(stray) \/ \E c \in K : f \in BoundBy(doubt[c])
    BY BoundByIs
  <1>2. /\ BoundBy(stray) \subseteq running.files
        /\ \A d \in sessions : BoundBy(stray) \cap Claimed(call[d], pc[d], loc[d]) = {}
        /\ \A d \in Callers : d \notin sessions => doubt[d] = {}
    BY DEF KeepInv
  <1>3. /\ BoundBy(stray') \subseteq running.files
        /\ \A d \in sessions' : BoundBy(stray') \cap Claimed(call[d], pc[d], loc[d]) = {}
    BY <1>1, <1>2, LeftBehind
  <1>4. sessions \subseteq Callers
    BY DEF Inv, TypeOK
  <1> QED
    BY <1>2, <1>3, <1>4, OutsideKeep

LEMMA LogoffKeep ==
    ASSUME Inv, CallShaped, KeepInv, NEW c \in Callers, Logoff(c)
    PROVE  KeepInv'
  <1>1. /\ sessions' = sessions \ {c} /\ doubt' = [doubt EXCEPT ![c] = {}]
        /\ UNCHANGED <<running, startup, call>>
    BY DEF Logoff
  <1>2. PICK e \in {"none", "logoff"} :
            /\ stray' \subseteq stray \cup doubt[c]
            /\ Take(c, Go("returned",
                          [Fresh({}) EXCEPT !.stage = loc[c].stage,
                                            !.err = IF loc[c].err = "none" THEN e ELSE loc[c].err]))
    BY DEF Logoff
  <1>3. pc'[c] = "returned" /\ \A d \in Callers \ {c} : pc'[d] = pc[d] /\ loc'[d] = loc[d]
    BY <1>2, TakeOther
  <1>4. /\ doubt'[c] = {} /\ \A d \in Callers \ {c} : doubt'[d] = doubt[d]
        /\ \A d \in Callers : pc[d] \in {"lock", "auth"} => loc[d].base = Idle
    BY <1>1 DEF Inv, TypeOK, KeepInv
  <1>5. UNION {doubt[d] : d \in {c}} = doubt[c]
    OBVIOUS
  <1>6. \A d \in Callers :
              /\ pc'[d] \in {"lock", "auth"} => loc'[d].base = Idle
              /\ d \notin {c} => pc'[d] = pc[d] /\ loc'[d] = loc[d]
              /\ doubt'[d] = IF d \in {c} THEN {} ELSE doubt[d]
    BY <1>3, <1>4
  <1> QED
    BY <1>1, <1>2, <1>5, <1>6, EndedKeep

LEMMA CrashKeep ==
    ASSUME Inv, CallShaped, KeepInv, NEW k \in Clients, Crash(k)
    PROVE  KeepInv'
  <1>1. \A d \in Callers : pc[d] \in {"lock", "auth"} => loc[d].base = Idle
    BY DEF KeepInv
  <1>2. /\ UNCHANGED <<running, startup, call>> /\ sessions' = sessions \ UsersOf(k)
        /\ \A d \in Callers : ClientOf[d] # k => pc'[d] = pc[d] /\ loc'[d] = loc[d]
        /\ \A d \in Callers : pc'[d] = "returned" \/ (pc'[d] = pc[d] /\ loc'[d] = loc[d])
        /\ \A d \in Callers : doubt'[d] = IF ClientOf[d] = k THEN {} ELSE doubt[d]
        /\ stray' = stray \cup UNION {doubt[c] : c \in UsersOf(k)}
    BY DEF Crash, UsersOf, Settle, DoubtOf
  <1>3. UsersOf(k) \in SUBSET Callers /\ \A d \in Callers : d \in UsersOf(k) <=> ClientOf[d] = k
    BY DEF UsersOf
  <1> QED
    BY <1>1, <1>2, <1>3, EndedKeep

LEMMA RebootKeep ==
    ASSUME Inv, KeepInv, Reboot
    PROVE  KeepInv'
  <1>1. /\ running' = startup /\ sessions' = {} /\ UNCHANGED <<startup, pc, call, loc>>
        /\ \A d \in Callers : doubt'[d] = {}
        /\ stray' = {}
    BY DEF Reboot
  <1>2. Whole(running)' /\ Whole(startup)' /\ Keeping'
    BY <1>1 DEF KeepInv, Whole, Keeping
  <1>3. \A d \in Callers : pc'[d] \in {"lock", "auth"} => loc'[d].base = Idle
    BY <1>1 DEF KeepInv
  <1>4. BoundBy(stray') = {}
    BY <1>1, BoundByUnion
  <1> QED
    BY <1>1, <1>2, <1>3, <1>4 DEF KeepInv

(* Two requests that bind the same are the same. *)
LEMMA SameBind ==
    ASSUME NEW m \in Message, NEW n \in Message, m.op = "bind", n.op = "bind",
           m.tmpl = n.tmpl, m.binding = n.binding
    PROVE  m = n
  BY DEF Message, WriteMemory

(* The appliance carries out what a call has given up on. *)
LEMMA DeliverOwn ==
    ASSUME Inv, CallShaped, KeepInv, NEW c \in sessions, NEW m \in doubt[c], Process(m)
    PROVE  /\ Owner(call[c], pc[c], loc[c], running', doubt[c] \ {m})
           /\ m.op = "delete" => m.files \cap Refs(running) = {}
  <1> DEFINE r == call[c]
             l == loc[c]
             at == pc[c]
             q == doubt[c]
             N == Claimed(r, at, l)
             B == TemplateFiles(l.base)
             A == Relied(r, at, l, q)
  <1>0. /\ c \in Callers /\ running \in Config /\ q \in SUBSET Message /\ Shape(r, at, l)
        /\ Owner(r, at, l, running, q)
    BY KeepFacts DEF Inv, TypeOK
  <1>1. m \in Message /\ Sent(r, l, m) /\ Effect(running, startup, m, running', startup')
    BY <1>0 DEF Owner, Process, Effect
  <1>2. /\ l.up \subseteq N /\ B \cap N = {} /\ A \subseteq running.files /\ OwnOnly(r, running, N)
        /\ \A n \in q : Sent(r, l, n)
        /\ Deleting(q) \/ ~ l.mutated \/ at \in Undoing \cup {"rbPersist"} => Spare(running, q, N)
        /\ Deleting(q) => at \in Backing
        /\ Hot(q, N) => at = "logoff" \/ at = "readBack"
    BY <1>0, ClaimedShaped DEF Owner
  <1>6. Deleting(q) => A = B \cup BoundBy(q)
    BY <1>2, BackingRelies
  <1> HIDE DEF N, B, A
  <1>3. m.op = "delete" => m.files \cap Refs(running) = {} /\ m.files \cap A = {}
    <2>1. m.op = "delete" => Deleting(q) /\ m.files \subseteq N
      BY <1>1, <1>2 DEF Sent, Deleting
    <2>2. Deleting(q) => N \cap Refs(running) = {} /\ BoundBy(q) \cap N = {}
      BY <1>2, NotHot DEF Spare
    <2> QED
      BY <1>2, <1>6, <2>1, <2>2
  <1>4. CASE m.op = "bind" => FilesOf(m.binding) \cap N = {}
    <2>1. Gentle(running, running', A, N)
      BY <1>0, <1>1, <1>3, <1>4, EffectGentle
    <2>2. Owner(r, at, l, running', q)
      BY <1>0, <2>1, GentleOwner DEF A, N
    <2> QED
      BY <1>3, <2>2, FewerOwner
  <1>5. CASE m.op = "bind" /\ FilesOf(m.binding) \cap N # {}
    <2>1. Hot(q, N)
      BY <1>5 DEF Hot
    <2>2. l.mutated /\ ~ Deleting(q) /\ at \notin Undoing \cup {"rbPersist"} /\ ~ Spare(running, q, N)
      BY <1>2, <2>1 DEF Spare
    <2>3. ~ r.create /\ m.tmpl = r.tmpl /\ m.binding = Desired(r)
      BY <1>1, <1>2, <1>5 DEF Sent, B
    <2>4. /\ OneTemplate(running, m.tmpl, running')
          /\ running'.tmpl[m.tmpl].certs \subseteq running.tmpl[m.tmpl].certs \cup {m.binding}
      BY <1>0, <1>1, <1>5, BindEffect
    <2>5. OwnOnly(r, running', N)
      BY <1>2, <2>3, <2>4 DEF OwnOnly, OneTemplate
    <2>6. ~ Hot(q \ {m}, N)
      <3>1. ASSUME NEW n \in q, n.op = "bind", FilesOf(n.binding) \cap N # {}
            PROVE  n = m
        <4>1. n \in Message /\ n.tmpl = r.tmpl /\ n.binding = Desired(r)
          BY <1>0, <1>2, <3>1 DEF Sent, B
        <4> QED
          BY <1>1, <1>5, <2>3, <3>1, <4>1, SameBind
      <3> QED
        BY <3>1 DEF Hot
    <2>7. ~ Deleting(q \ {m}) /\ A \subseteq running'.files
      BY <1>2, <2>2, <2>4 DEF Deleting, OneTemplate
    <2>9. Relied(r, at, l, q \ {m}) \subseteq running'.files
      BY <2>7, BoundByUnion DEF A, Relied
    <2>8. at \notin Opening \cup Listing
      BY <1>2, <2>1
    <2> QED
      BY <1>2, <1>5, <2>2, <2>5, <2>6, <2>7, <2>8, <2>9 DEF Owner, B, N
  <1> QED
    BY <1>4, <1>5

LEMMA DeliverKeep ==
    ASSUME Inv, CallShaped, KeepInv, NEW c \in Callers, Deliver(c)
    PROVE  KeepInv'
  <1>0. /\ running \in Config /\ startup \in Config /\ Whole(running) /\ Whole(startup)
        /\ doubt \in [Callers -> SUBSET Message] /\ sessions \subseteq Callers
    BY KeepFacts DEF Inv, TypeOK
  <1>1. PICK m \in doubt[c] : Process(m) /\ doubt' = [doubt EXCEPT ![c] = @ \ {m}]
    BY DEF Deliver
  <1>2. c \in sessions /\ UNCHANGED <<sessions, stray, pc, call, loc>>
    BY DEF Deliver
  <1>3. m \in Message /\ Effect(running, startup, m, running', startup')
    BY <1>0, <1>1 DEF Process, Effect
  <1>4. /\ Owner(call[c], pc[c], loc[c], running', doubt[c] \ {m})
        /\ m.op = "delete" => m.files \cap Refs(running) = {}
    BY <1>1, <1>2, DeliverOwn
  <1>5. Whole(running') /\ Whole(startup')
    BY <1>0, <1>3, <1>4, EffectWhole
  <1>6. Sent(call[c], loc[c], m)
    BY <1>1, <1>2, KeepFacts DEF Owner
  <1>7. \A d \in sessions \ {c} : Owner(call[d], pc[d], loc[d], running', doubt[d])
    BY <1>1, <1>2, <1>3, <1>6, OthersGentle
  <1>8. doubt'[c] = doubt[c] \ {m} /\ \A d \in Callers \ {c} : doubt'[d] = doubt[d]
    BY <1>0, <1>1
  <1>9. ASSUME NEW d \in Callers
        PROVE  /\ pc'[d] \in {"lock", "auth"} => loc'[d].base = Idle
               /\ d \in sessions' => Active(d)' /\ pc'[d] # "auth"
               /\ doubt'[d] # {} => d \in sessions'
               /\ d \in sessions' => Owner(call[d], pc[d], loc[d], running, doubt[d])'
    BY <1>2, <1>4, <1>7, <1>8 DEF KeepInv, Active
  <1>10. \A d, e \in sessions' :
            d # e => (TemplateFiles(loc[e].base) \cap Claimed(call[d], pc[d], loc[d]))' = {}
    BY <1>2 DEF KeepInv
  <1>11. Keeping' /\ (BoundBy(stray) \subseteq running.files)'
    BY <1>1, <1>2, <1>3, <1>6, StrayStays DEF KeepInv, Keeping
  <1>12. \A d \in sessions' : (BoundBy(stray) \cap Claimed(call[d], pc[d], loc[d]))' = {}
    BY <1>2 DEF KeepInv
  <1> QED
    BY <1>5, <1>9, <1>10, <1>11, <1>12 DEF KeepInv

(* Somebody else touches nothing the calls rely on or claim. *)
LEMMA GentleKeep ==
    ASSUME Inv, KeepInv, UNCHANGED <<sessions, doubt, pc, call, loc>>, stray' \subseteq stray,
           Whole(running'), Whole(startup'),
           \A B : Gentle(running, running', B, {}),
           \A c \in sessions : Gentle(running, running', Relied(call[c], pc[c], loc[c], doubt[c]),
                                      Claimed(call[c], pc[c], loc[c]))
    PROVE  KeepInv'
  <1>1. ASSUME NEW c \in Callers
        PROVE  /\ pc'[c] \in {"lock", "auth"} => loc'[c].base = Idle
               /\ c \in sessions' => Active(c)' /\ pc'[c] # "auth"
               /\ doubt'[c] # {} => c \in sessions'
    BY DEF KeepInv, Active
  <1>2. ASSUME NEW c \in Callers, c \in sessions
        PROVE  Owner(call[c], pc[c], loc[c], running', doubt[c])
    BY <1>2, GentleOwner DEF KeepInv
  <1>3. \A c, d \in sessions' :
            c # d => (TemplateFiles(loc[d].base) \cap Claimed(call[c], pc[c], loc[c]))' = {}
    BY DEF KeepInv
  <1>4. Keeping'
    BY DEF KeepInv, Keeping
  <1>5. BoundBy(stray') \subseteq BoundBy(stray)
    BY BoundByUnion
  <1>6. (BoundBy(stray) \subseteq running.files)'
    BY <1>5 DEF KeepInv, Gentle
  <1>7. \A c \in sessions' : (BoundBy(stray) \cap Claimed(call[c], pc[c], loc[c]))' = {}
    BY <1>5 DEF KeepInv
  <1> QED
    BY <1>1, <1>2, <1>3, <1>4, <1>6, <1>7 DEF KeepInv

(* A stray request that deletes nothing is carried out. *)
LEMMA LandKeep ==
    ASSUME Inv, CallShaped, KeepInv, Land, "delete" \notin landed'
    PROVE  KeepInv'
  <1>0. /\ running \in Config /\ startup \in Config /\ Whole(running) /\ Whole(startup)
        /\ sessions \subseteq Callers /\ stray \subseteq Message
    BY DEF Inv, TypeOK, KeepInv
  <1>1. PICK m \in stray : Process(m) /\ stray' = stray \ {m} /\ landed' = landed \cup {m.op}
    BY DEF Land
  <1>2. UNCHANGED <<sessions, doubt, pc, call, loc>>
    BY DEF Land
  <1>3. m \in Message /\ m.op # "delete" /\ Effect(running, startup, m, running', startup')
    BY <1>0, <1>1 DEF Process, Effect
  <1>4. Whole(running') /\ Whole(startup')
    BY <1>0, <1>3, EffectWhole
  <1>5. m.op = "bind" => FilesOf(m.binding) \subseteq BoundBy(stray)
    BY <1>1, BoundByIs
  <1>6. ASSUME NEW B, NEW N, N \cap BoundBy(stray) = {}
        PROVE  Gentle(running, running', B, N)
    BY <1>0, <1>3, <1>5, <1>6, EffectGentle
  <1>7. \A c \in sessions : Claimed(call[c], pc[c], loc[c]) \cap BoundBy(stray) = {}
    BY DEF KeepInv
  <1> QED
    BY <1>1, <1>2, <1>4, <1>6, <1>7, GentleKeep

LEMMA OperatorEditKeep ==
    ASSUME Inv, CallShaped, KeepInv, OperatorEdit
    PROVE  KeepInv'
  <1>0. /\ running \in Config /\ startup \in Config /\ Whole(running) /\ Whole(startup)
        /\ sessions \subseteq Callers
    BY DEF Inv, TypeOK, KeepInv
  <1>1. UNCHANGED <<sessions, doubt, stray, pc, call, loc>>
    BY DEF OperatorEdit
  <1>2. ASSUME NEW c \in sessions
        PROVE  Claimed(call[c], pc[c], loc[c]) \cap OperatorFiles = {}
    <2>1. call[c] \in Requests[c] /\ Shape(call[c], pc[c], loc[c])
      BY <1>0, KeepFacts
    <2>2. FilesOf(Desired(call[c])) \cap OperatorFiles = {}
      BY <1>0, <2>1 DEF KeepInv, Keeping
    <2> QED
      BY <2>1, <2>2, ClaimedShaped
  <1>3. ASSUME NEW m \in Message, running' \in Results(running, m), m.op \in Changing,
               m.op = "bind" => FilesOf(m.binding) \subseteq OperatorFiles, UNCHANGED startup
        PROVE  KeepInv'
    <2>1. Effect(running, startup, m, running', startup')
      BY <1>3 DEF Effect
    <2>2. Whole(running') /\ Whole(startup')
      BY <1>0, <1>3, <2>1, EffectWhole
    <2>3. ASSUME NEW B, NEW N, N \cap OperatorFiles = {}
          PROVE  Gentle(running, running', B, N)
      BY <1>0, <1>3, <2>1, <2>3, EffectGentle
    <2> QED
      BY <1>1, <1>2, <2>2, <2>3, GentleKeep
  <1>5. ASSUME NEW t \in Templates, NEW b \in OperatorBindings, UNCHANGED startup,
               running' \in Results(running, BindOf(t, b))
        PROVE  KeepInv'
    <2> DEFINE m == BindOf(t, b)
    <2>1. m \in Message /\ m.op = "bind" /\ m.binding = b
      BY OperatorAssumption, MessagesTyped DEF BindOf
    <2>2. FilesOf(b) \subseteq OperatorFiles
      BY DEF OperatorFiles
    <2> HIDE DEF m
    <2>3. running' \in Results(running, m)
      BY <1>5 DEF m
    <2> QED
      BY <1>3, <1>5, <2>1, <2>2, <2>3
  <1>6. ASSUME NEW t \in Templates, NEW n \in Names, UNCHANGED startup,
               running' \in Results(running, UnbindOf(t, n))
        PROVE  KeepInv'
    <2> DEFINE m == UnbindOf(t, n)
    <2>1. m \in Message /\ m.op = "unbind"
      BY MessagesTyped DEF UnbindOf
    <2> HIDE DEF m
    <2>2. running' \in Results(running, m)
      BY <1>6 DEF m
    <2> QED
      BY <1>3, <1>6, <2>1, <2>2
  <1>7. ASSUME NEW f \in OperatorFiles \cap running.files, UNCHANGED startup,
               \/ running' = [running EXCEPT !.server = @ \cup {f}]
               \/ \E t \in Templates : running' = [running EXCEPT !.tmpl[t].extra = @ \cup {f}]
        PROVE  KeepInv'
    <2>1. CASE running' = [running EXCEPT !.server = @ \cup {f}]
      <3>1. /\ running'.tmpl = running.tmpl /\ running'.files = running.files
            /\ running'.server = running.server \cup {f}
        BY <1>0, <2>1 DEF Config
      <3>2. Refs(running') \subseteq Refs(running) \cup {f}
        BY <3>1, InRefs
      <3>3. Whole(running') /\ Whole(startup')
        BY <1>0, <1>7, <3>1, <3>2 DEF Whole
      <3>4. ASSUME NEW B, NEW N, N \cap OperatorFiles = {}
            PROVE  Gentle(running, running', B, N)
        BY <1>7, <3>1, <3>4 DEF Gentle
      <3> QED
        BY <1>1, <1>2, <3>3, <3>4, GentleKeep
    <2>2. ASSUME NEW t \in Templates, running' = [running EXCEPT !.tmpl[t].extra = @ \cup {f}]
          PROVE  KeepInv'
      <3>1. running.tmpl \in [Templates -> Template]
        BY <1>0 DEF Config
      <3>2. /\ running'.server = running.server /\ running'.files = running.files
            /\ \A u \in Templates \ {t} : running'.tmpl[u] = running.tmpl[u]
            /\ running'.tmpl[t].certs = running.tmpl[t].certs
            /\ running'.tmpl[t].extra = running.tmpl[t].extra \cup {f}
        BY <1>0, <2>2, <3>1 DEF Config, Template
      <3>3. \A u \in Templates : TemplateFiles(running'.tmpl[u]) \subseteq TemplateFiles(running.tmpl[u]) \cup {f}
        BY <3>2 DEF TemplateFiles
      <3>4. Refs(running') \subseteq Refs(running) \cup {f}
        BY <3>2, <3>3, InRefs
      <3>5. Whole(running') /\ Whole(startup')
        BY <1>0, <1>7, <3>2, <3>4 DEF Whole
      <3>6. ASSUME NEW B, NEW N, N \cap OperatorFiles = {}
            PROVE  Gentle(running, running', B, N)
        BY <1>7, <3>2, <3>6 DEF Gentle
      <3> QED
        BY <1>1, <1>2, <3>5, <3>6, GentleKeep
    <2> QED
      BY <1>7, <2>1, <2>2
  <1>8. ASSUME startup' = running, UNCHANGED running
        PROVE  KeepInv'
    <2>1. Whole(running') /\ Whole(startup')
      BY <1>0, <1>8
    <2>2. ASSUME NEW B, NEW N
          PROVE  Gentle(running, running', B, N)
      BY <1>8 DEF Gentle
    <2> QED
      BY <1>1, <2>1, <2>2, GentleKeep
  <1> QED
    BY <1>5, <1>6, <1>7, <1>8 DEF OperatorEdit

LEMMA RotateKeep ==
    ASSUME Inv, CallShaped, KeepInv, NEW c \in Callers, Rotate(c)
    PROVE  KeepInv'
  BY VersionKeep, InspectKeep, ListCertsKeep, ListKeysKeep, ListInfoKeep, UpKeyKeep, UpCertKeep,
     UpChainKeep, PreBindKeep, BindKeep, ReadBackKeep, VerifyBoundKeep, PreUnbindKeep, UnbindKeep,
     PostUnbindKeep, PrePersistKeep, PersistKeep, CreatePersistKeep, NeverCleans
     DEF Rotate

LEMMA RollbackKeep ==
    ASSUME Inv, CallShaped, KeepInv, NEW c \in Callers, Rollback(c)
    PROVE  KeepInv'
  BY RbInspectKeep, RbBindKeep, RbRereadKeep, RbUnbindKeep, RbVerifyKeep, RbPersistKeep,
     UndoPairKeep, UndoChainKeep, UndoCertsKeep, UndoKeysKeep, UndoPersistKeep
     DEF Rollback

LEMMA NextKeep ==
    Inv /\ CallShaped /\ KeepInv /\ "delete" \notin landed' /\ [Next]_vars => KeepInv'
  <1> SUFFICES ASSUME Inv, CallShaped, KeepInv, "delete" \notin landed', [Next]_vars
               PROVE  KeepInv'
    OBVIOUS
  <1>1. ASSUME NEW c \in Callers, Invoke(c) \/ Retry(c) \/ Lock(c) \/ Auth(c)
        PROVE  KeepInv'
    BY <1>1, InvokeKeep, RetryKeep, LockKeep, AuthKeep
  <1>2. ASSUME NEW c \in Callers, Rotate(c) \/ Rollback(c) \/ Logoff(c)
        PROVE  KeepInv'
    BY <1>2, RotateKeep, RollbackKeep, LogoffKeep
  <1>3. ASSUME NEW c \in Callers, Unlock(c)
        PROVE  KeepInv'
    BY <1>3 DEF Unlock, OnSession, KeepInv, Keeping
  <1>4. CASE Environment
    <2>1. ASSUME NEW k \in Clients, CloseSession(k)
          PROVE  KeepInv'
      BY <2>1 DEF CloseSession, KeepInv, Keeping
    <2> QED
      BY <1>4, <2>1, OperatorEditKeep, RebootKeep, CrashKeep, DeliverKeep, LandKeep DEF Environment
  <1>5. CASE UNCHANGED vars
    BY <1>5 DEF vars, KeepInv, Keeping, Whole, Active
  <1> QED
    BY <1>1, <1>2, <1>3, <1>4, <1>5 DEF Next, Step, Finished

LEMMA InitKeep ==
    ASSUME Keeping, Init
    PROVE  KeepInv
  <1>1. running \in InitialConfigs /\ startup = running
    BY DEF Init
  <1>2. Whole(running) /\ Whole(startup)
    BY <1>1 DEF Keeping, Whole, Refs, Store!Closed
  <1>3. sessions = {}
    BY DEF Init, OnSession, Keeping
  <1>4. \A c \in Callers : doubt[c] = {} /\ pc[c] = "idle"
    BY DEF Init
  <1>5. BoundBy(stray) = {}
    BY BoundByUnion DEF Init
  <1> QED
    BY <1>2, <1>3, <1>4, <1>5 DEF KeepInv

LEMMA KeepInvHolds ==
    Keeping /\ Spec => [](Inv /\ CallShaped /\ ("delete" \notin landed => KeepInv))
  <1>1. Keeping /\ Init => Inv /\ CallShaped /\ ("delete" \notin landed => KeepInv)
    BY InitInv, InitShaped, InitKeep
  <1>2. Inv /\ CallShaped /\ ("delete" \notin landed => KeepInv) /\ [Next]_vars
          => (Inv /\ CallShaped /\ ("delete" \notin landed => KeepInv))'
    BY NextInv, NextShaped, NextKeep, LandedGrows
  <1> QED
    BY <1>1, <1>2, PTL DEF Spec

(* Callers that keep the old files need not keep GUI users away, nor be    *)
(* alone: with names of their own, whatever fails, crashes, is edited in   *)
(* between or comes late, even from a call that is over, their rollbacks   *)
(* delete only what nothing refers to.  The one exception is the delete of *)
(* such a call, carried out when a later one may have bound its files.     *)
THEOREM KeptMaterialStays == Keeping /\ Spec => []KeptReferencesStay
  <1>1. KeepInv => Store!Closed(running) /\ Store!Closed(startup)
    BY DEF KeepInv, Whole, Refs, Store!Closed
  <1>2. ("delete" \notin landed => KeepInv) => KeptReferencesStay
    BY <1>1 DEF KeptReferencesStay
  <1> QED
    BY <1>2, KeepInvHolds, PTL
====

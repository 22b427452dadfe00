---- MODULE CertSyncProofs ----
(***************************************************************************)
(* Theorems about CertSync for every set of callers, clients, templates,   *)
(* names and requests, whatever the appliance, other callers and GUI users *)
(* do: type correctness, that managedMu serialises the calls of a Client,  *)
(* and what the local variables of a call say at every label.              *)
(***************************************************************************)
EXTENDS CertSyncProperties, TLAPS

(* What the types of the requests rest on: a chain is uploaded only when   *)
(* there is one, a binding is retired only when there is one, and the      *)
(* rollback binds only what it found in the baseline.                      *)
Retiring == {"preUnbind", "unbind", "scanClient", "scanServer", "deletePair", "deleteChain"}

Fits(r, at, l) ==
    /\ at = "upChain" => r.chain # NoName
    /\ at \in Retiring => l.cur # NoBinding
    /\ at = "rbBind" => PreviousBinding(l.base, r.current) # {}

LocalsFit == \A c \in Callers : Fits(call[c], pc[c], loc[c])

(* The inductive invariant. *)
Inv == TypeOK /\ ManagedWritesExclusive /\ LocalsFit

(* What a caller may do next inside a call with the arguments r. *)
Outcome(r) == {o \in [at : InCall, loc : Local] : Fits(r, o.at, o.loc)}

LEMMA RequestsTyped ==
    ASSUME TypeOK, NEW c \in Callers
    PROVE  call[c] \in Request /\ loc[c] \in Local /\ running.tmpl[call[c].tmpl] \in Template
  BY DEF TypeOK, Request, Config

----------------------------------------------------------------------------
(* Every continuation of a call is a request that fits its locals.         *)

LEMMA GoOutcome ==
    ASSUME NEW r \in Request, NEW label \in InCall, NEW l \in Local, Fits(r, label, l)
    PROVE  Go(label, l) \in Outcome(r)
  BY DEF Go, Outcome

(* Most requests ask nothing of the locals. *)
LEMMA PlainFits ==
    ASSUME NEW r, NEW label \in InCall \ (Retiring \cup {"upChain", "rbBind"}), NEW l
    PROVE  label \in InCall /\ Fits(r, label, l)
  BY DEF Fits

LEMMA PlainOutcome ==
    ASSUME NEW r \in Request, NEW l \in Local,
           NEW label \in InCall \ (Retiring \cup {"upChain", "rbBind"})
    PROVE  Go(label, l) \in Outcome(r)
  BY PlainFits, GoOutcome

LEMMA UndoOutcome ==
    ASSUME NEW r \in Request, NEW l \in Local
    PROVE  Undo(r, l) \in Outcome(r)
  BY PlainOutcome DEF Undo, InCall, Retiring

LEMMA FailedOutcome ==
    ASSUME NEW r \in Request, NEW l \in Local, NEW err \in Errors
    PROVE  Failed(r, l, err) \in Outcome(r)
  <1> DEFINE e == [l EXCEPT !.err = err, !.full = FALSE]
  <1>1. e \in Local
    BY DEF Local
  <1>2. Go("logoff", e) \in Outcome(r)
    BY <1>1, PlainOutcome DEF InCall, Retiring
  <1> QED
    BY <1>1, <1>2, UndoOutcome DEF Failed

LEMMA RequireOutcome ==
    ASSUME NEW r \in Request, NEW l \in Local, NEW ok \in Outcome(r)
    PROVE  Require(r, l, ok) \in Outcome(r)
  BY FailedOutcome DEF Require, Errors

LEMMA CompleteOutcome ==
    ASSUME NEW r \in Request, NEW l \in Local
    PROVE  Complete(l) \in Outcome(r)
  <1>1. [l EXCEPT !.stage = "complete"] \in Local
    BY DEF Local, Stages
  <1> QED
    BY <1>1, PlainOutcome DEF Complete, InCall, Retiring

LEMMA AfterCleanupOutcome ==
    ASSUME NEW r \in Request, NEW l \in Local
    PROVE  AfterCleanup(r, l) \in Outcome(r)
  <1>1. [l EXCEPT !.stage = "cleanup-complete"] \in Local
    BY DEF Local, Stages
  <1> QED
    BY <1>1, PlainOutcome, CompleteOutcome DEF AfterCleanup, InCall, Retiring

LEMMA AfterPairOutcome ==
    ASSUME NEW r \in Request, NEW l \in Local, l.cur # NoBinding
    PROVE  AfterPair(r, l) \in Outcome(r)
  BY GoOutcome, AfterCleanupOutcome DEF AfterPair, Fits, InCall, Retiring

LEMMA AfterScanOutcome ==
    ASSUME NEW r \in Request, NEW l \in Local, l.cur # NoBinding
    PROVE  AfterScan(r, l) \in Outcome(r)
  BY GoOutcome, AfterPairOutcome DEF AfterScan, Fits, InCall, Retiring

LEMMA CleanupOutcome ==
    ASSUME NEW r \in Request, NEW l \in Local
    PROVE  Cleanup(r, l) \in Outcome(r)
  BY GoOutcome, CompleteOutcome DEF Cleanup, Replaces, Fits, InCall, Retiring

LEMMA AfterOldBindingOutcome ==
    ASSUME NEW r \in Request, NEW l \in Local
    PROVE  AfterOldBinding(r, l) \in Outcome(r)
  BY PlainOutcome, CleanupOutcome DEF AfterOldBinding, InCall, Retiring

LEMMA OldBindingRemovedOutcome ==
    ASSUME NEW r \in Request, NEW l \in Local
    PROVE  OldBindingRemoved(r, l) \in Outcome(r)
  <1>1. [l EXCEPT !.changed = TRUE, !.stage = "old-binding-removed"] \in Local
    BY DEF Local, Stages
  <1> QED
    BY <1>1, AfterOldBindingOutcome DEF OldBindingRemoved

LEMMA AfterBindingOutcome ==
    ASSUME NEW r \in Request, NEW l \in Local, NEW implicit \in BOOLEAN
    PROVE  AfterBinding(r, l, implicit) \in Outcome(r)
  BY GoOutcome, AfterOldBindingOutcome, OldBindingRemovedOutcome, FailedOutcome DEF AfterBinding, Replaces, Fits, Errors, InCall, Retiring

LEMMA ReadyOutcome ==
    ASSUME NEW r \in Request, NEW l \in Local
    PROVE  Ready(r, l) \in Outcome(r)
  <1>1. [l EXCEPT !.stage = "material-ready"] \in Local
    BY DEF Local, Stages
  <1> QED
    BY <1>1, PlainOutcome, CompleteOutcome DEF Ready, InCall, Retiring

LEMMA AfterCertOutcome ==
    ASSUME NEW r \in Request, NEW l \in Local
    PROVE  AfterCert(r, l) \in Outcome(r)
  BY GoOutcome, ReadyOutcome, FailedOutcome DEF AfterCert, Fits, Errors, InCall, Retiring

LEMMA AfterKeyOutcome ==
    ASSUME NEW r \in Request, NEW l \in Local
    PROVE  AfterKey(r, l) \in Outcome(r)
  BY PlainOutcome, AfterCertOutcome, FailedOutcome DEF AfterKey, Errors, InCall, Retiring

LEMMA AfterListingOutcome ==
    ASSUME NEW r \in Request, NEW l \in Local
    PROVE  AfterListing(r, l) \in Outcome(r)
  BY PlainOutcome, AfterKeyOutcome DEF AfterListing, InCall, Retiring

LEMMA RemoveDesiredOutcome ==
    ASSUME NEW r \in Request, NEW l \in Local
    PROVE  RemoveDesired(r, l) \in Outcome(r)
  BY PlainOutcome DEF RemoveDesired, InCall, Retiring

LEMMA UndoFailedOutcome ==
    ASSUME NEW r \in Request, NEW l \in Local
    PROVE  UndoFailed(r, l) \in Outcome(r)
  <1>1. [l EXCEPT !.err = "rollback"] \in Local
    BY DEF Local, Errors
  <1> QED
    BY <1>1, PlainOutcome, FailedOutcome DEF UndoFailed, Errors, InCall, Retiring

LEMMA UndoneOutcome ==
    ASSUME NEW r \in Request, NEW l \in Local
    PROVE  Undone(l) \in Outcome(r)
  <1>1. [l EXCEPT !.rolled = TRUE, !.stage = "rolled-back"] \in Local
    BY DEF Local, Stages
  <1> QED
    BY <1>1, PlainOutcome DEF Undone, InCall, Retiring

----------------------------------------------------------------------------
(* The appliance stays well-typed.                                         *)

LEMMA WithoutTyped ==
    ASSUME NEW t \in Template, NEW cert
    PROVE  WithoutCertificate(t, cert) \in Template
  BY DEF WithoutCertificate, Template

LEMMA ResultsTyped ==
    ASSUME NEW config \in Config, NEW m \in Message
    PROVE  Results(config, m) \subseteq Config
  <1>1. CASE m.op = "upload"
    <2>1. m.files \in SUBSET File
      BY <1>1 DEF Message, WriteMemory
    <2> QED
      BY <1>1, <2>1 DEF Results, Config
  <1>2. CASE m.op = "delete"
    <2>1. m.files \in SUBSET File
      BY <1>2 DEF Message, WriteMemory
    <2> QED
      BY <1>2, <2>1 DEF Results, Config
  <1>3. CASE m.op = "write"
    BY <1>3 DEF Results
  <1>4. CASE m.op = "bind"
    <2>1. m.tmpl \in Templates /\ m.binding \in Binding
      BY <1>4 DEF Message, WriteMemory
    <2>2. config.tmpl \in [Templates -> Template]
      BY DEF Config
    <2> DEFINE With(rest) == [config EXCEPT !.tmpl[m.tmpl].certs = rest \cup {m.binding}]
    <2>3. ASSUME NEW rest \in SUBSET Binding
          PROVE  With(rest) \in Config
      <3>1. [config.tmpl[m.tmpl] EXCEPT !.certs = rest \cup {m.binding}] \in Template
        BY <2>1, <2>2 DEF Template
      <3> QED
        BY <2>1, <2>2, <3>1 DEF Config
    <2> DEFINE others == {p \in config.tmpl[m.tmpl].certs : p.cert # m.binding.cert}
    <2>4. others \in SUBSET Binding /\ {} \in SUBSET Binding
      BY <2>1, <2>2 DEF Template
    <2>5. Results(config, m) \subseteq {With(others), With({})}
      BY <1>4 DEF Results
    <2> QED
      BY <2>3, <2>4, <2>5
  <1>5. CASE m.op = "unbind"
    <2>1. m.tmpl \in Templates
      BY <1>5 DEF Message, WriteMemory
    <2>2. config.tmpl[m.tmpl] \in Template
      BY <2>1 DEF Config
    <2> QED
      BY <1>5, <2>1, <2>2, WithoutTyped DEF Results, Config
  <1> QED
    BY <1>1, <1>2, <1>3, <1>4, <1>5 DEF Message, WriteMemory

LEMMA ProcessTyped ==
    ASSUME TypeOK, NEW m \in Message, Process(m)
    PROVE  running' \in Config /\ startup' \in Config
  BY ResultsTyped DEF TypeOK, Process

LEMMA PartsTyped ==
    ASSUME NEW m \in Message
    PROVE  Parts(m) \subseteq Message
  <1>1. CASE m.op = "delete"
    <2>1. m.files \in SUBSET File
      BY <1>1 DEF Message, WriteMemory
    <2> QED
      BY <1>1, <2>1 DEF Parts, DeleteOf, Message
  <1> QED
    BY <1>1 DEF Parts

----------------------------------------------------------------------------
(* A request of a call keeps the invariant when both of its outcomes are   *)
(* outcomes of the call.                                                   *)

LEMMA SpendTyped ==
    ASSUME TypeOK, NEW b \in Budget, Spend(b)
    PROVE  used' \in [Budget -> Nat]
  BY LimitAssumption DEF TypeOK, Spend

LEMMA BreaksTyped ==
    ASSUME TypeOK, NEW c \in Callers, Breaks(c)
    PROVE  used' \in [Budget -> Nat]
  BY SpendTyped DEF Breaks, Budget, TypeOK

LEMMA TakeTyped ==
    ASSUME TypeOK, NEW c \in Callers, NEW outcome, Take(c, outcome),
           outcome.at \in Labels, outcome.loc \in Local
    PROVE  pc' \in [Callers -> Labels] /\ loc' \in [Callers -> Local]
  BY DEF TypeOK, Take

LEMMA TakeFits ==
    ASSUME Inv, NEW c \in Callers, NEW outcome, Take(c, outcome), UNCHANGED call,
           Fits(call[c], outcome.at, outcome.loc)
    PROVE  LocalsFit'
  BY DEF Inv, TypeOK, LocalsFit, Take

(* The caller keeps the mutex. *)
LEMMA TakeInv ==
    ASSUME Inv, NEW c \in Callers, pc[c] \in InCall, UNCHANGED <<mu, call>>,
           NEW outcome \in Outcome(call[c]), Take(c, outcome)
    PROVE  /\ pc' \in [Callers -> Labels]
           /\ loc' \in [Callers -> Local]
           /\ ManagedWritesExclusive'
           /\ LocalsFit'
  <1>1. /\ outcome.at \in Labels /\ outcome.at \in InCall /\ outcome.loc \in Local
        /\ Fits(call[c], outcome.at, outcome.loc)
    BY DEF Outcome, Labels
  <1>2. ManagedWritesExclusive'
    BY <1>1 DEF Inv, TypeOK, ManagedWritesExclusive, Active, Take
  <1> QED
    BY <1>1, <1>2, TakeTyped, TakeFits DEF Inv

LEMMA QueryInv ==
    ASSUME Inv, NEW c \in Callers, NEW label \in InCall,
           NEW ok \in Outcome(call[c]), NEW bad \in Outcome(call[c]), Query(c, label, ok, bad)
    PROVE  Inv'
  <1>1. UNCHANGED <<running, startup, sessions, doubt, stray, landed, mu, call>> /\ pc[c] \in InCall
    BY DEF Query, appliance
  <1>2. used' \in [Budget -> Nat]
    BY BreaksTyped DEF Query, Inv, TypeOK
  <1>3. Take(c, ok) \/ Take(c, bad)
    BY DEF Query
  <1> QED
    BY <1>1, <1>2, <1>3, TakeInv DEF Inv, TypeOK

LEMMA SendInv ==
    ASSUME Inv, NEW c \in Callers, NEW label \in InCall, NEW m \in Message,
           NEW ok \in Outcome(call[c]), NEW bad \in Outcome(call[c]), Send(c, label, m, ok, bad)
    PROVE  Inv'
  <1>1. UNCHANGED <<sessions, stray, landed, mu, call>> /\ pc[c] \in InCall
    BY DEF Send
  <1>2. used' \in [Budget -> Nat]
    BY BreaksTyped DEF Send, Inv, TypeOK
  <1>3. Take(c, ok) \/ Take(c, bad)
    BY DEF Send
  <1>4. running' \in Config /\ startup' \in Config
    BY ProcessTyped DEF Send, Inv, TypeOK
  <1>5. doubt' \in [Callers -> SUBSET Message]
    BY PartsTyped DEF Send, Inv, TypeOK
  <1> QED
    BY <1>1, <1>2, <1>3, <1>4, <1>5, TakeInv DEF Inv, TypeOK

LEMMA FreshTyped ==
    ASSUME NEW pin \in SUBSET Template
    PROVE  Fresh(pin) \in Local
  BY DEF Fresh, Local, Idle, Template, Stages, Errors

LEMMA DesiredTyped ==
    ASSUME NEW r \in Request
    PROVE  Desired(r) \in Binding
  BY DEF Desired, Request, Binding

LEMMA StoreFilesTyped ==
    ASSUME TypeOK, NEW store
    PROVE  StoreFiles(store) \in SUBSET File
  BY DEF StoreFiles, TypeOK, Config

LEMMA MessagesTyped ==
    /\ \A F \in SUBSET File : UploadOf(F) \in Message /\ DeleteOf(F) \in Message
    /\ \A t \in Templates, b \in Binding : BindOf(t, b) \in Message
    /\ \A t \in Templates, n \in Names : UnbindOf(t, n) \in Message
    /\ WriteMemory \in Message
  BY DEF Message, UploadOf, DeleteOf, BindOf, UnbindOf, WriteMemory

LEMMA NamesTyped ==
    ASSUME NEW t \in Template
    PROVE  NamesIn(TemplateFiles(t)) \subseteq Names
  <1>1. \A b \in Binding : FilesOf(b) \subseteq File
    BY DEF FilesOf, PairOf, ChainOf, Binding, File
  <1>2. TemplateFiles(t) \subseteq File
    BY <1>1 DEF TemplateFiles, Template
  <1> QED
    BY <1>2 DEF NamesIn, File

(* Files a request deletes exist as files. *)
LEMMA DoomedTyped ==
    ASSUME NEW r \in Request, NEW l \in Local, l.cur # NoBinding
    PROVE  DoomedPair(r, l) \in SUBSET File /\ DoomedChain(r, l) \in SUBSET File
  <1>1. l.cur \in Binding
    BY DEF Local
  <1> QED
    BY <1>1 DEF DoomedPair, DoomedChain, PairOf, ChainOf, Binding, File

----------------------------------------------------------------------------
(* One lemma per request of a call. *)

LEMMA VersionInv ==
    ASSUME Inv, NEW c \in Callers, Version(c)
    PROVE  Inv'
  <1> DEFINE r == call[c]
             l == loc[c]
  <1>1. r \in Request /\ l \in Local /\ running.tmpl[r.tmpl] \in Template
    BY RequestsTyped DEF Inv
  <1>2. [l EXCEPT !.stage = "compatibility-verified"] \in Local
    BY <1>1 DEF Local, Stages
  <1>5. Go(IF r.create THEN "listCerts" ELSE "inspect",
           [l EXCEPT !.stage = "compatibility-verified"]) \in Outcome(r)
    BY <1>1, <1>2, PlainOutcome DEF InCall, Retiring
  <1>6. Failed(r, l, "failed") \in Outcome(r)
    BY <1>1, FailedOutcome DEF Errors
  <1>7. "version" \in InCall
    BY DEF InCall
  <1> QED
    BY <1>5, <1>6, <1>7, QueryInv DEF Version

LEMMA InspectInv ==
    ASSUME Inv, NEW c \in Callers, Inspect(c)
    PROVE  Inv'
  <1> DEFINE r == call[c]
             l == loc[c]
  <1>1. r \in Request /\ l \in Local /\ running.tmpl[r.tmpl] \in Template
    BY RequestsTyped DEF Inv
  <1> DEFINE T == running.tmpl[r.tmpl]
             choice == SelectCurrent(T, r.current, Desired(r))
             read == [l EXCEPT !.base = T, !.exp = T, !.stage = "state-inspected"]
             chosen == [read EXCEPT !.cur = CHOOSE b \in choice : TRUE]
             ok == IF Unexpected(l, T) THEN Failed(r, read, "conflict")
                   ELSE IF choice = {} THEN Failed(r, read, "slot")
                   ELSE Go("listCerts", chosen)
             bad == Failed(r, l, "failed")
  <1>2. read \in Local
    BY <1>1 DEF Local, Stages
  <1>3. choice \subseteq Binding \cup {NoBinding}
    BY <1>1, DesiredTyped DEF SelectCurrent, Template
  <1>4. choice # {} => chosen \in Local
    BY <1>2, <1>3 DEF Local
  <1>5. choice # {} => Go("listCerts", chosen) \in Outcome(r)
    BY <1>1, <1>4, PlainOutcome DEF InCall, Retiring
  <1>6. Failed(r, read, "conflict") \in Outcome(r) /\ Failed(r, read, "slot") \in Outcome(r)
    BY <1>1, <1>2, FailedOutcome DEF Errors
  <1>7. bad \in Outcome(r)
    BY <1>1, FailedOutcome DEF Errors
  <1>8. ok \in Outcome(r)
    BY <1>5, <1>6
  <1>9. Query(c, "inspect", ok, bad) /\ "inspect" \in InCall
    BY DEF Inspect, InCall
  <1> HIDE DEF ok, bad
  <1> QED
    BY <1>7, <1>8, <1>9, QueryInv

LEMMA ListCertsInv ==
    ASSUME Inv, NEW c \in Callers, ListCerts(c)
    PROVE  Inv'
  <1> DEFINE r == call[c]
             l == loc[c]
  <1>1. r \in Request /\ l \in Local /\ running.tmpl[r.tmpl] \in Template
    BY RequestsTyped DEF Inv
  <1>2. StoreFiles("cert") \in SUBSET File
    BY StoreFilesTyped DEF Inv
  <1>3. [l EXCEPT !.seen = StoreFiles("cert")] \in Local
    BY <1>1, <1>2 DEF Local
  <1>5. Go("listKeys", [l EXCEPT !.seen = StoreFiles("cert")]) \in Outcome(r)
    BY <1>1, <1>3, PlainOutcome DEF InCall, Retiring
  <1>6. Failed(r, l, "failed") \in Outcome(r)
    BY <1>1, FailedOutcome DEF Errors
  <1>7. "listCerts" \in InCall
    BY DEF InCall
  <1> QED
    BY <1>5, <1>6, <1>7, QueryInv DEF ListCerts

LEMMA ListKeysInv ==
    ASSUME Inv, NEW c \in Callers, ListKeys(c)
    PROVE  Inv'
  <1> DEFINE r == call[c]
             l == loc[c]
  <1>1. r \in Request /\ l \in Local /\ running.tmpl[r.tmpl] \in Template
    BY RequestsTyped DEF Inv
  <1>2. StoreFiles("key") \in SUBSET File
    BY StoreFilesTyped DEF Inv
  <1>3. [l EXCEPT !.seen = @ \cup StoreFiles("key")] \in Local
    BY <1>1, <1>2 DEF Local
  <1>5. Go("listInfo", [l EXCEPT !.seen = @ \cup StoreFiles("key")]) \in Outcome(r)
    BY <1>1, <1>3, PlainOutcome DEF InCall, Retiring
  <1>6. Failed(r, l, "failed") \in Outcome(r)
    BY <1>1, FailedOutcome DEF Errors
  <1>7. "listKeys" \in InCall
    BY DEF InCall
  <1> QED
    BY <1>5, <1>6, <1>7, QueryInv DEF ListKeys

LEMMA ListInfoInv ==
    ASSUME Inv, NEW c \in Callers, ListInfo(c)
    PROVE  Inv'
  <1> DEFINE r == call[c]
             l == loc[c]
  <1>1. r \in Request /\ l \in Local /\ running.tmpl[r.tmpl] \in Template
    BY RequestsTyped DEF Inv
  <1>2. StoreFiles("cert") \in SUBSET File
    BY StoreFilesTyped DEF Inv
  <1>3. [l EXCEPT !.info = StoreFiles("cert")] \in Local
    BY <1>1, <1>2 DEF Local
  <1>5. AfterListing(r, [l EXCEPT !.info = StoreFiles("cert")]) \in Outcome(r)
    BY <1>1, <1>3, AfterListingOutcome
  <1>6. Failed(r, l, "failed") \in Outcome(r)
    BY <1>1, FailedOutcome DEF Errors
  <1>7. "listInfo" \in InCall
    BY DEF InCall
  <1> QED
    BY <1>5, <1>6, <1>7, QueryInv DEF ListInfo

LEMMA UpKeyInv ==
    ASSUME Inv, NEW c \in Callers, UpKey(c)
    PROVE  Inv'
  <1> DEFINE r == call[c]
             l == loc[c]
  <1>1. r \in Request /\ l \in Local /\ running.tmpl[r.tmpl] \in Template
    BY RequestsTyped DEF Inv
  <1> DEFINE f == <<"key", r.name>>
             k == [l EXCEPT !.up = @ \cup {f}, !.changed = TRUE]
  <1>3. f \in File
    BY <1>1 DEF File, Request
  <1>4. k \in Local
    BY <1>1, <1>3 DEF Local
  <1>5. AfterKey(r, k) \in Outcome(r)
    BY <1>1, <1>4, AfterKeyOutcome
  <1>6. Failed(r, l, "failed") \in Outcome(r)
    BY <1>1, FailedOutcome DEF Errors
  <1>7. "upKey" \in InCall
    BY DEF InCall
  <1>8. UploadOf({f}) \in Message
    BY <1>3, MessagesTyped
  <1> QED
    BY <1>5, <1>6, <1>7, <1>8, SendInv DEF UpKey, Uploaded

LEMMA UpCertInv ==
    ASSUME Inv, NEW c \in Callers, UpCert(c)
    PROVE  Inv'
  <1> DEFINE r == call[c]
             l == loc[c]
  <1>1. r \in Request /\ l \in Local /\ running.tmpl[r.tmpl] \in Template
    BY RequestsTyped DEF Inv
  <1> DEFINE f == <<"cert", r.name>>
             k == [l EXCEPT !.up = @ \cup {f}, !.changed = TRUE]
  <1>3. f \in File
    BY <1>1 DEF File, Request
  <1>4. k \in Local
    BY <1>1, <1>3 DEF Local
  <1>5. AfterCert(r, k) \in Outcome(r)
    BY <1>1, <1>4, AfterCertOutcome
  <1>6. Failed(r, l, "failed") \in Outcome(r)
    BY <1>1, FailedOutcome DEF Errors
  <1>7. "upCert" \in InCall
    BY DEF InCall
  <1>8. UploadOf({f}) \in Message
    BY <1>3, MessagesTyped
  <1> QED
    BY <1>5, <1>6, <1>7, <1>8, SendInv DEF UpCert, Uploaded

LEMMA UpChainInv ==
    ASSUME Inv, NEW c \in Callers, UpChain(c)
    PROVE  Inv'
  <1> DEFINE r == call[c]
             l == loc[c]
  <1>1. r \in Request /\ l \in Local /\ running.tmpl[r.tmpl] \in Template
    BY RequestsTyped DEF Inv
  <1> DEFINE f == <<"cert", r.chain>>
             k == [l EXCEPT !.up = @ \cup {f}, !.changed = TRUE]
  <1>2. r.chain # NoName
    BY DEF Inv, LocalsFit, Fits, UpChain, Send
  <1>3. f \in File
    BY <1>1, <1>2 DEF File, Request
  <1>4. k \in Local
    BY <1>1, <1>3 DEF Local
  <1>5. Ready(r, k) \in Outcome(r)
    BY <1>1, <1>4, ReadyOutcome
  <1>6. Failed(r, l, "failed") \in Outcome(r)
    BY <1>1, FailedOutcome DEF Errors
  <1>7. "upChain" \in InCall
    BY DEF InCall
  <1>8. UploadOf({f}) \in Message
    BY <1>3, MessagesTyped
  <1> QED
    BY <1>5, <1>6, <1>7, <1>8, SendInv DEF UpChain, Uploaded

LEMMA PreBindInv ==
    ASSUME Inv, NEW c \in Callers, PreBind(c)
    PROVE  Inv'
  <1> DEFINE r == call[c]
             l == loc[c]
  <1>1. r \in Request /\ l \in Local /\ running.tmpl[r.tmpl] \in Template
    BY RequestsTyped DEF Inv
  <1> DEFINE next == Go(IF Desired(r) \in l.base.certs THEN "verifyBound" ELSE "bind", l)
  <1>2. next \in Outcome(r)
    BY <1>1, PlainOutcome DEF InCall, Retiring
  <1>5. Require(r, l, next) \in Outcome(r)
    BY <1>1, <1>2, RequireOutcome
  <1>6. Failed(r, l, "failed") \in Outcome(r)
    BY <1>1, FailedOutcome DEF Errors
  <1>7. "preBind" \in InCall
    BY DEF InCall
  <1> QED
    BY <1>5, <1>6, <1>7, QueryInv DEF PreBind

LEMMA BindInv ==
    ASSUME Inv, NEW c \in Callers, Bind(c)
    PROVE  Inv'
  <1> DEFINE r == call[c]
             l == loc[c]
  <1>1. r \in Request /\ l \in Local /\ running.tmpl[r.tmpl] \in Template
    BY RequestsTyped DEF Inv
  <1> DEFINE k == [l EXCEPT !.mutated = TRUE]
             b == [k EXCEPT !.bindFailed = TRUE]
  <1>2. k \in Local /\ b \in Local
    BY <1>1 DEF Local
  <1>5. Go("readBack", k) \in Outcome(r)
    BY <1>1, <1>2, PlainOutcome DEF InCall, Retiring
  <1>6. Go("readBack", b) \in Outcome(r)
    BY <1>1, <1>2, PlainOutcome DEF InCall, Retiring
  <1>7. "bind" \in InCall
    BY DEF InCall
  <1>8. BindOf(r.tmpl, Desired(r)) \in Message
    BY <1>1, DesiredTyped, MessagesTyped DEF Request
  <1> QED
    BY <1>5, <1>6, <1>7, <1>8, SendInv DEF Bind

LEMMA ReadBackInv ==
    ASSUME Inv, NEW c \in Callers, ReadBack(c)
    PROVE  Inv'
  <1> DEFINE r == call[c]
             l == loc[c]
  <1>1. r \in Request /\ l \in Local /\ running.tmpl[r.tmpl] \in Template
    BY RequestsTyped DEF Inv
  <1> DEFINE T == running.tmpl[r.tmpl]
             appended == WithBinding(l.base, Desired(r))
             replaced == WithoutCertificate(appended, l.cur.cert)
             bound == [l EXCEPT !.exp = T, !.changed = TRUE, !.stage = "bound"]
             ok == IF T = appended THEN AfterBinding(r, bound, FALSE)
                   ELSE IF Replaces(r, l) /\ T = replaced THEN AfterBinding(r, bound, TRUE)
                   ELSE IF ~ l.bindFailed THEN Failed(r, l, "conflict")
                   ELSE Failed(r, l, IF T = l.base THEN "failed" ELSE "ambiguous")
             bad == Failed(r, l, IF l.bindFailed THEN "ambiguous" ELSE "failed")
  <1>2. bound \in Local
    BY <1>1 DEF Local, Stages
  <1>3. AfterBinding(r, bound, FALSE) \in Outcome(r) /\ AfterBinding(r, bound, TRUE) \in Outcome(r)
    BY <1>1, <1>2, AfterBindingOutcome
  <1>4. \A err \in {"conflict", "failed", "ambiguous"} : Failed(r, l, err) \in Outcome(r)
    BY <1>1, FailedOutcome DEF Errors
  <1>5. ok \in Outcome(r) /\ bad \in Outcome(r)
    BY <1>3, <1>4
  <1>6. Query(c, "readBack", ok, bad) /\ "readBack" \in InCall
    BY DEF ReadBack, InCall
  <1> HIDE DEF ok, bad
  <1> QED
    BY <1>5, <1>6, QueryInv

LEMMA VerifyBoundInv ==
    ASSUME Inv, NEW c \in Callers, VerifyBound(c)
    PROVE  Inv'
  <1> DEFINE r == call[c]
             l == loc[c]
  <1>1. r \in Request /\ l \in Local /\ running.tmpl[r.tmpl] \in Template
    BY RequestsTyped DEF Inv
  <1>2. AfterBinding(r, l, FALSE) \in Outcome(r)
    BY <1>1, AfterBindingOutcome
  <1>5. Require(r, l, AfterBinding(r, l, FALSE)) \in Outcome(r)
    BY <1>1, <1>2, RequireOutcome
  <1>6. Failed(r, l, "failed") \in Outcome(r)
    BY <1>1, FailedOutcome DEF Errors
  <1>7. "verifyBound" \in InCall
    BY DEF InCall
  <1> QED
    BY <1>5, <1>6, <1>7, QueryInv DEF VerifyBound

LEMMA PreUnbindInv ==
    ASSUME Inv, NEW c \in Callers, PreUnbind(c)
    PROVE  Inv'
  <1> DEFINE r == call[c]
             l == loc[c]
  <1>1. r \in Request /\ l \in Local /\ running.tmpl[r.tmpl] \in Template
    BY RequestsTyped DEF Inv
  <1>2. l.cur # NoBinding
    BY DEF Inv, LocalsFit, Fits, Retiring, PreUnbind, Query
  <1>3. Go("unbind", l) \in Outcome(r)
    BY <1>1, <1>2, GoOutcome DEF InCall, Fits
  <1>5. Require(r, l, Go("unbind", l)) \in Outcome(r)
    BY <1>1, <1>3, RequireOutcome
  <1>6. Failed(r, l, "failed") \in Outcome(r)
    BY <1>1, FailedOutcome DEF Errors
  <1>7. "preUnbind" \in InCall
    BY DEF InCall
  <1> QED
    BY <1>5, <1>6, <1>7, QueryInv DEF PreUnbind

LEMMA UnbindInv ==
    ASSUME Inv, NEW c \in Callers, Unbind(c)
    PROVE  Inv'
  <1> DEFINE r == call[c]
             l == loc[c]
  <1>1. r \in Request /\ l \in Local /\ running.tmpl[r.tmpl] \in Template
    BY RequestsTyped DEF Inv
  <1> DEFINE k == [l EXCEPT !.exp = WithoutCertificate(@, l.cur.cert)]
  <1>2. l.cur # NoBinding
    BY DEF Inv, LocalsFit, Fits, Retiring, Unbind, Send
  <1>3. l.cur.cert \in Names
    BY <1>1, <1>2 DEF Local, Binding
  <1>4. k \in Local
    BY <1>1, WithoutTyped DEF Local
  <1>5. Go("postUnbind", k) \in Outcome(r)
    BY <1>1, <1>4, PlainOutcome DEF InCall, Retiring
  <1>6. Failed(r, l, "failed") \in Outcome(r)
    BY <1>1, FailedOutcome DEF Errors
  <1>7. "unbind" \in InCall
    BY DEF InCall
  <1>8. UnbindOf(r.tmpl, l.cur.cert) \in Message
    BY <1>1, <1>3, MessagesTyped DEF Request
  <1> QED
    BY <1>5, <1>6, <1>7, <1>8, SendInv DEF Unbind

LEMMA PostUnbindInv ==
    ASSUME Inv, NEW c \in Callers, PostUnbind(c)
    PROVE  Inv'
  <1> DEFINE r == call[c]
             l == loc[c]
  <1>1. r \in Request /\ l \in Local /\ running.tmpl[r.tmpl] \in Template
    BY RequestsTyped DEF Inv
  <1>2. OldBindingRemoved(r, l) \in Outcome(r)
    BY <1>1, OldBindingRemovedOutcome
  <1>5. Require(r, l, OldBindingRemoved(r, l)) \in Outcome(r)
    BY <1>1, <1>2, RequireOutcome
  <1>6. Failed(r, l, "failed") \in Outcome(r)
    BY <1>1, FailedOutcome DEF Errors
  <1>7. "postUnbind" \in InCall
    BY DEF InCall
  <1> QED
    BY <1>5, <1>6, <1>7, QueryInv DEF PostUnbind

LEMMA PrePersistInv ==
    ASSUME Inv, NEW c \in Callers, PrePersist(c)
    PROVE  Inv'
  <1> DEFINE r == call[c]
             l == loc[c]
  <1>1. r \in Request /\ l \in Local /\ running.tmpl[r.tmpl] \in Template
    BY RequestsTyped DEF Inv
  <1>2. Go("persist", l) \in Outcome(r)
    BY <1>1, PlainOutcome DEF InCall, Retiring
  <1>5. Require(r, l, Go("persist", l)) \in Outcome(r)
    BY <1>1, <1>2, RequireOutcome
  <1>6. Failed(r, l, "failed") \in Outcome(r)
    BY <1>1, FailedOutcome DEF Errors
  <1>7. "prePersist" \in InCall
    BY DEF InCall
  <1> QED
    BY <1>5, <1>6, <1>7, QueryInv DEF PrePersist

LEMMA PersistInv ==
    ASSUME Inv, NEW c \in Callers, Persist(c)
    PROVE  Inv'
  <1> DEFINE r == call[c]
             l == loc[c]
  <1>1. r \in Request /\ l \in Local /\ running.tmpl[r.tmpl] \in Template
    BY RequestsTyped DEF Inv
  <1> DEFINE k == [l EXCEPT !.wrote = TRUE, !.stage = "persisted"]
             b == [l EXCEPT !.full = TRUE]
  <1>2. k \in Local /\ b \in Local
    BY <1>1 DEF Local, Stages
  <1>5. Cleanup(r, k) \in Outcome(r)
    BY <1>1, <1>2, CleanupOutcome
  <1>6. Go("rbInspect", b) \in Outcome(r)
    BY <1>1, <1>2, PlainOutcome DEF InCall, Retiring
  <1>7. "persist" \in InCall
    BY DEF InCall
  <1>8. WriteMemory \in Message
    BY MessagesTyped
  <1> QED
    BY <1>5, <1>6, <1>7, <1>8, SendInv DEF Persist

LEMMA ScanClientInv ==
    ASSUME Inv, NEW c \in Callers, ScanClient(c)
    PROVE  Inv'
  <1> DEFINE r == call[c]
             l == loc[c]
  <1>1. r \in Request /\ l \in Local /\ running.tmpl[r.tmpl] \in Template
    BY RequestsTyped DEF Inv
  <1> DEFINE k == [l EXCEPT !.refs = ClientNames(c)]
  <1>2. l.cur # NoBinding
    BY DEF Inv, LocalsFit, Fits, Retiring, ScanClient, Query
  <1>3. ClientNames(c) \subseteq Names
    BY NamesTyped DEF ClientNames, Inv, TypeOK, Config
  <1>4. k \in Local /\ k.cur # NoBinding
    BY <1>1, <1>2, <1>3 DEF Local
  <1>5. Go("scanServer", k) \in Outcome(r)
    BY <1>1, <1>4, GoOutcome DEF InCall, Fits
  <1>6. Failed(r, l, "failed") \in Outcome(r)
    BY <1>1, FailedOutcome DEF Errors
  <1>7. "scanClient" \in InCall
    BY DEF InCall
  <1> QED
    BY <1>5, <1>6, <1>7, QueryInv DEF ScanClient

LEMMA ScanServerInv ==
    ASSUME Inv, NEW c \in Callers, ScanServer(c)
    PROVE  Inv'
  <1> DEFINE r == call[c]
             l == loc[c]
  <1>1. r \in Request /\ l \in Local /\ running.tmpl[r.tmpl] \in Template
    BY RequestsTyped DEF Inv
  <1> DEFINE k == [l EXCEPT !.refs = @ \cup NamesIn(running.server)]
  <1>2. l.cur # NoBinding
    BY DEF Inv, LocalsFit, Fits, Retiring, ScanServer, Query
  <1>3. NamesIn(running.server) \subseteq Names
    BY DEF NamesIn, Inv, TypeOK, Config, File
  <1>4. k \in Local /\ k.cur # NoBinding
    BY <1>1, <1>2, <1>3 DEF Local
  <1>5. AfterScan(r, k) \in Outcome(r)
    BY <1>1, <1>4, AfterScanOutcome
  <1>6. Failed(r, l, "failed") \in Outcome(r)
    BY <1>1, FailedOutcome DEF Errors
  <1>7. "scanServer" \in InCall
    BY DEF InCall
  <1> QED
    BY <1>5, <1>6, <1>7, QueryInv DEF ScanServer

LEMMA DeletePairInv ==
    ASSUME Inv, NEW c \in Callers, DeletePair(c)
    PROVE  Inv'
  <1> DEFINE r == call[c]
             l == loc[c]
  <1>1. r \in Request /\ l \in Local /\ running.tmpl[r.tmpl] \in Template
    BY RequestsTyped DEF Inv
  <1> DEFINE doomed == DoomedPair(r, l)
             k == [l EXCEPT !.deleted = doomed]
  <1>2. l.cur # NoBinding
    BY DEF Inv, LocalsFit, Fits, Retiring, DeletePair, Send
  <1>3. doomed \in SUBSET File
    BY <1>1, <1>2, DoomedTyped
  <1>4. k \in Local /\ k.cur # NoBinding
    BY <1>1, <1>2, <1>3 DEF Local
  <1>5. AfterPair(r, k) \in Outcome(r)
    BY <1>1, <1>4, AfterPairOutcome
  <1>6. Failed(r, l, "failed") \in Outcome(r)
    BY <1>1, FailedOutcome DEF Errors
  <1>7. "deletePair" \in InCall
    BY DEF InCall
  <1>8. DeleteOf(doomed) \in Message
    BY <1>3, MessagesTyped
  <1> QED
    BY <1>5, <1>6, <1>7, <1>8, SendInv DEF DeletePair

LEMMA DeleteChainInv ==
    ASSUME Inv, NEW c \in Callers, DeleteChain(c)
    PROVE  Inv'
  <1> DEFINE r == call[c]
             l == loc[c]
  <1>1. r \in Request /\ l \in Local /\ running.tmpl[r.tmpl] \in Template
    BY RequestsTyped DEF Inv
  <1> DEFINE doomed == DoomedChain(r, l)
             k == [l EXCEPT !.deleted = @ \cup doomed]
  <1>2. l.cur # NoBinding
    BY DEF Inv, LocalsFit, Fits, Retiring, DeleteChain, Send
  <1>3. doomed \in SUBSET File
    BY <1>1, <1>2, DoomedTyped
  <1>4. k \in Local /\ k.cur # NoBinding
    BY <1>1, <1>2, <1>3 DEF Local
  <1>5. AfterCleanup(r, k) \in Outcome(r)
    BY <1>1, <1>4, AfterCleanupOutcome
  <1>6. Failed(r, l, "failed") \in Outcome(r)
    BY <1>1, FailedOutcome DEF Errors
  <1>7. "deleteChain" \in InCall
    BY DEF InCall
  <1>8. DeleteOf(doomed) \in Message
    BY <1>3, MessagesTyped
  <1> QED
    BY <1>5, <1>6, <1>7, <1>8, SendInv DEF DeleteChain

LEMMA PersistCleanupInv ==
    ASSUME Inv, NEW c \in Callers, PersistCleanup(c)
    PROVE  Inv'
  <1> DEFINE r == call[c]
             l == loc[c]
  <1>1. r \in Request /\ l \in Local /\ running.tmpl[r.tmpl] \in Template
    BY RequestsTyped DEF Inv
  <1>2. Complete(l) \in Outcome(r)
    BY <1>1, CompleteOutcome
  <1>3. Failed(r, l, "failed") \in Outcome(r)
    BY <1>1, FailedOutcome DEF Errors
  <1>4. "persistCleanup" \in InCall
    BY DEF InCall
  <1>5. WriteMemory \in Message
    BY MessagesTyped
  <1> QED
    BY <1>2, <1>3, <1>4, <1>5, SendInv DEF PersistCleanup

LEMMA RbInspectInv ==
    ASSUME Inv, NEW c \in Callers, RbInspect(c)
    PROVE  Inv'
  <1> DEFINE r == call[c]
             l == loc[c]
  <1>1. r \in Request /\ l \in Local /\ running.tmpl[r.tmpl] \in Template
    BY RequestsTyped DEF Inv
  <1> DEFINE T == running.tmpl[r.tmpl]
             ok == IF T # l.exp THEN Failed(r, l, "rollback")
                   ELSE IF ~ Bound(l.base, r.name)
                     THEN IF PreviousBinding(l.base, r.current) \subseteq T.certs
                            THEN RemoveDesired(r, l)
                            ELSE Go("rbBind", l)
                   ELSE IF Desired(r) \in l.base.certs THEN Go("rbVerify", l)
                   ELSE Failed(r, l, "rollback")
             bad == Failed(r, l, "rollback")
  <1>2. bad \in Outcome(r)
    BY <1>1, FailedOutcome DEF Errors
  <1>3. Go("rbVerify", l) \in Outcome(r)
    BY <1>1, PlainOutcome DEF InCall, Retiring
  <1>4. PreviousBinding(l.base, r.current) # {} => Go("rbBind", l) \in Outcome(r)
    BY <1>1, GoOutcome DEF InCall, Retiring, Fits
  <1>5. RemoveDesired(r, l) \in Outcome(r)
    BY <1>1, RemoveDesiredOutcome
  <1>6. ok \in Outcome(r)
    BY <1>2, <1>3, <1>4, <1>5
  <1>7. Query(c, "rbInspect", ok, bad) /\ "rbInspect" \in InCall
    BY DEF RbInspect, InCall
  <1> HIDE DEF ok, bad
  <1> QED
    BY <1>2, <1>6, <1>7, QueryInv

LEMMA RbBindInv ==
    ASSUME Inv, NEW c \in Callers, RbBind(c)
    PROVE  Inv'
  <1> DEFINE r == call[c]
             l == loc[c]
  <1>1. r \in Request /\ l \in Local /\ running.tmpl[r.tmpl] \in Template
    BY RequestsTyped DEF Inv
  <1> DEFINE previous == CHOOSE b \in PreviousBinding(l.base, r.current) : TRUE
  <1>2. PreviousBinding(l.base, r.current) # {}
    BY DEF Inv, LocalsFit, Fits, RbBind, Send
  <1>3. PreviousBinding(l.base, r.current) \subseteq Binding
    BY <1>1 DEF PreviousBinding, Local, Template
  <1>4. previous \in Binding
    BY <1>2, <1>3
  <1>5. Go("rbReread", l) \in Outcome(r)
    BY <1>1, PlainOutcome DEF InCall, Retiring
  <1>6. Failed(r, l, "rollback") \in Outcome(r)
    BY <1>1, FailedOutcome DEF Errors
  <1>7. "rbBind" \in InCall
    BY DEF InCall
  <1>8. BindOf(r.tmpl, previous) \in Message
    BY <1>1, <1>4, MessagesTyped DEF Request
  <1> QED
    BY <1>5, <1>6, <1>7, <1>8, SendInv DEF RbBind

LEMMA RbRereadInv ==
    ASSUME Inv, NEW c \in Callers, RbReread(c)
    PROVE  Inv'
  <1> DEFINE r == call[c]
             l == loc[c]
  <1>1. r \in Request /\ l \in Local /\ running.tmpl[r.tmpl] \in Template
    BY RequestsTyped DEF Inv
  <1>2. RemoveDesired(r, l) \in Outcome(r)
    BY <1>1, RemoveDesiredOutcome
  <1>3. Failed(r, l, "rollback") \in Outcome(r)
    BY <1>1, FailedOutcome DEF Errors
  <1>4. "rbReread" \in InCall
    BY DEF InCall
  <1> QED
    BY <1>2, <1>3, <1>4, QueryInv DEF RbReread

LEMMA RbUnbindInv ==
    ASSUME Inv, NEW c \in Callers, RbUnbind(c)
    PROVE  Inv'
  <1> DEFINE r == call[c]
             l == loc[c]
  <1>1. r \in Request /\ l \in Local /\ running.tmpl[r.tmpl] \in Template
    BY RequestsTyped DEF Inv
  <1>2. Go("rbVerify", l) \in Outcome(r)
    BY <1>1, PlainOutcome DEF InCall, Retiring
  <1>3. Failed(r, l, "rollback") \in Outcome(r)
    BY <1>1, FailedOutcome DEF Errors
  <1>4. "rbUnbind" \in InCall
    BY DEF InCall
  <1>5. UnbindOf(r.tmpl, r.name) \in Message
    BY <1>1, MessagesTyped DEF Request
  <1> QED
    BY <1>2, <1>3, <1>4, <1>5, SendInv DEF RbUnbind

LEMMA RbVerifyInv ==
    ASSUME Inv, NEW c \in Callers, RbVerify(c)
    PROVE  Inv'
  <1> DEFINE r == call[c]
             l == loc[c]
  <1>1. r \in Request /\ l \in Local /\ running.tmpl[r.tmpl] \in Template
    BY RequestsTyped DEF Inv
  <1> DEFINE ok == IF running.tmpl[r.tmpl] = l.base THEN Undo(r, l) ELSE Failed(r, l, "rollback")
  <1>2. ok \in Outcome(r)
    BY <1>1, UndoOutcome, FailedOutcome DEF Errors
  <1>3. Failed(r, l, "rollback") \in Outcome(r)
    BY <1>1, FailedOutcome DEF Errors
  <1>4. "rbVerify" \in InCall
    BY DEF InCall
  <1> QED
    BY <1>2, <1>3, <1>4, QueryInv DEF RbVerify

LEMMA RbPersistInv ==
    ASSUME Inv, NEW c \in Callers, RbPersist(c)
    PROVE  Inv'
  <1> DEFINE r == call[c]
             l == loc[c]
  <1>1. r \in Request /\ l \in Local /\ running.tmpl[r.tmpl] \in Template
    BY RequestsTyped DEF Inv
  <1> DEFINE k == [l EXCEPT !.rolled = TRUE, !.stage = "rolled-back"]
  <1>2. k \in Local
    BY <1>1 DEF Local, Stages
  <1>5. Failed(r, k, "failed") \in Outcome(r)
    BY <1>1, <1>2, FailedOutcome DEF Errors
  <1>6. Failed(r, l, "rollback") \in Outcome(r)
    BY <1>1, FailedOutcome DEF Errors
  <1>7. "rbPersist" \in InCall
    BY DEF InCall
  <1>8. WriteMemory \in Message
    BY MessagesTyped
  <1> QED
    BY <1>5, <1>6, <1>7, <1>8, SendInv DEF RbPersist

LEMMA UndoPairInv ==
    ASSUME Inv, NEW c \in Callers, UndoPair(c)
    PROVE  Inv'
  <1> DEFINE r == call[c]
             l == loc[c]
  <1>1. r \in Request /\ l \in Local /\ running.tmpl[r.tmpl] \in Template
    BY RequestsTyped DEF Inv
  <1> DEFINE next == Go(IF l.up \subseteq PairOf(Desired(r)) THEN "undoCerts" ELSE "undoChain", l)
             files == l.up \cap PairOf(Desired(r))
  <1>2. files \in SUBSET File
    BY <1>1 DEF Local
  <1>5. next \in Outcome(r)
    BY <1>1, PlainOutcome DEF InCall, Retiring
  <1>6. UndoFailed(r, l) \in Outcome(r)
    BY <1>1, UndoFailedOutcome
  <1>7. "undoPair" \in InCall
    BY DEF InCall
  <1>8. DeleteOf(files) \in Message
    BY <1>2, MessagesTyped
  <1> QED
    BY <1>5, <1>6, <1>7, <1>8, SendInv DEF UndoPair

LEMMA UndoChainInv ==
    ASSUME Inv, NEW c \in Callers, UndoChain(c)
    PROVE  Inv'
  <1> DEFINE r == call[c]
             l == loc[c]
  <1>1. r \in Request /\ l \in Local /\ running.tmpl[r.tmpl] \in Template
    BY RequestsTyped DEF Inv
  <1> DEFINE files == l.up \ PairOf(Desired(r))
  <1>2. files \in SUBSET File
    BY <1>1 DEF Local
  <1>5. Go("undoCerts", l) \in Outcome(r)
    BY <1>1, PlainOutcome DEF InCall, Retiring
  <1>6. UndoFailed(r, l) \in Outcome(r)
    BY <1>1, UndoFailedOutcome
  <1>7. "undoChain" \in InCall
    BY DEF InCall
  <1>8. DeleteOf(files) \in Message
    BY <1>2, MessagesTyped
  <1> QED
    BY <1>5, <1>6, <1>7, <1>8, SendInv DEF UndoChain

LEMMA UndoCertsInv ==
    ASSUME Inv, NEW c \in Callers, UndoCerts(c)
    PROVE  Inv'
  <1> DEFINE r == call[c]
             l == loc[c]
  <1>1. r \in Request /\ l \in Local /\ running.tmpl[r.tmpl] \in Template
    BY RequestsTyped DEF Inv
  <1>2. StoreFiles("cert") \in SUBSET File
    BY StoreFilesTyped DEF Inv
  <1>3. [l EXCEPT !.info = StoreFiles("cert")] \in Local
    BY <1>1, <1>2 DEF Local
  <1>5. Go("undoKeys", [l EXCEPT !.info = StoreFiles("cert")]) \in Outcome(r)
    BY <1>1, <1>3, PlainOutcome DEF InCall, Retiring
  <1>6. UndoFailed(r, l) \in Outcome(r)
    BY <1>1, UndoFailedOutcome
  <1>7. "undoCerts" \in InCall
    BY DEF InCall
  <1> QED
    BY <1>5, <1>6, <1>7, QueryInv DEF UndoCerts

LEMMA UndoKeysInv ==
    ASSUME Inv, NEW c \in Callers, UndoKeys(c)
    PROVE  Inv'
  <1> DEFINE r == call[c]
             l == loc[c]
  <1>1. r \in Request /\ l \in Local /\ running.tmpl[r.tmpl] \in Template
    BY RequestsTyped DEF Inv
  <1> DEFINE ok == IF l.up \cap (l.info \cup StoreFiles("key")) = {}
                     THEN Undone(l) ELSE UndoFailed(r, l)
  <1>2. ok \in Outcome(r)
    BY <1>1, UndoneOutcome, UndoFailedOutcome
  <1>3. UndoFailed(r, l) \in Outcome(r)
    BY <1>1, UndoFailedOutcome
  <1>4. "undoKeys" \in InCall
    BY DEF InCall
  <1> QED
    BY <1>2, <1>3, <1>4, QueryInv DEF UndoKeys

LEMMA CreatePersistInv ==
    ASSUME Inv, NEW c \in Callers, CreatePersist(c)
    PROVE  Inv'
  <1> DEFINE r == call[c]
             l == loc[c]
  <1>1. r \in Request /\ l \in Local
    BY RequestsTyped DEF Inv
  <1>2. [l EXCEPT !.wrote = TRUE] \in Local /\ [l EXCEPT !.attempted = TRUE] \in Local
    BY <1>1 DEF Local
  <1>3. Complete([l EXCEPT !.wrote = TRUE]) \in Outcome(r)
    BY <1>1, <1>2, CompleteOutcome
  <1>4. Failed(r, [l EXCEPT !.attempted = TRUE], "failed") \in Outcome(r)
    BY <1>1, <1>2, FailedOutcome DEF Errors
  <1>5. "createPersist" \in InCall /\ WriteMemory \in Message
    BY MessagesTyped DEF InCall
  <1> QED
    BY <1>3, <1>4, <1>5, SendInv DEF CreatePersist

LEMMA UndoPersistInv ==
    ASSUME Inv, NEW c \in Callers, UndoPersist(c)
    PROVE  Inv'
  <1> DEFINE r == call[c]
             l == loc[c]
  <1>1. r \in Request /\ l \in Local
    BY RequestsTyped DEF Inv
  <1>2. /\ [l EXCEPT !.rolled = TRUE, !.stage = "rolled-back"] \in Local
        /\ [l EXCEPT !.err = "rollback"] \in Local
    BY <1>1 DEF Local, Stages, Errors
  <1>3. /\ Go("logoff", [l EXCEPT !.rolled = TRUE, !.stage = "rolled-back"]) \in Outcome(r)
        /\ Go("logoff", [l EXCEPT !.err = "rollback"]) \in Outcome(r)
    BY <1>1, <1>2, PlainOutcome DEF InCall, Retiring
  <1>4. "undoPersist" \in InCall /\ WriteMemory \in Message
    BY MessagesTyped DEF InCall
  <1> QED
    BY <1>3, <1>4, SendInv DEF UndoPersist

----------------------------------------------------------------------------
(* The steps around the requests. *)

LEMMA InvokeInv ==
    ASSUME Inv, NEW c \in Callers, Invoke(c)
    PROVE  Inv'
  <1>1. PICK r \in Requests[c] :
            /\ call' = [call EXCEPT ![c] = r]
            /\ Take(c, Go("lock", Fresh(IF r.pinned THEN {running.tmpl[r.tmpl]} ELSE {})))
    BY DEF Invoke
  <1>2. UNCHANGED <<running, startup, sessions, doubt, stray, landed, mu>> /\ Spend("call")
    BY DEF Invoke, appliance
  <1>3. r \in Request
    BY RequestAssumption
  <1> DEFINE l == Fresh(IF r.pinned THEN {running.tmpl[r.tmpl]} ELSE {})
  <1>4. l \in Local
    BY <1>3, FreshTyped DEF Inv, TypeOK, Config, Request
  <1>5. pc' \in [Callers -> Labels] /\ loc' \in [Callers -> Local]
    BY <1>1, <1>4, TakeTyped DEF Go, Labels, Inv
  <1>6. used' \in [Budget -> Nat]
    BY <1>2, SpendTyped DEF Inv, Budget
  <1>7. call' \in [Callers -> Request]
    BY <1>1, <1>3 DEF Inv, TypeOK
  <1>8. pc' = [pc EXCEPT ![c] = "lock"]
    BY <1>1 DEF Take, Go
  <1>9. ManagedWritesExclusive'
    BY <1>2, <1>8 DEF Inv, TypeOK, ManagedWritesExclusive, Active, InCall
  <1>10. LocalsFit'
    BY <1>1, <1>8 DEF Inv, TypeOK, LocalsFit, Fits, Retiring, Take
  <1> QED
    BY <1>2, <1>5, <1>6, <1>7, <1>9, <1>10 DEF Inv, TypeOK

LEMMA RetryInv ==
    ASSUME Inv, NEW c \in Callers, Retry(c)
    PROVE  Inv'
  <1>1. Take(c, Go("lock", Fresh({}))) /\ UNCHANGED <<running, startup, sessions, doubt, stray, landed, mu, call, used>>
    BY DEF Retry, appliance
  <1>2. Fresh({}) \in Local
    BY FreshTyped
  <1>3. pc' \in [Callers -> Labels] /\ loc' \in [Callers -> Local]
    BY <1>1, <1>2, TakeTyped DEF Go, Labels, Inv
  <1>4. pc' = [pc EXCEPT ![c] = "lock"]
    BY <1>1 DEF Take, Go
  <1>5. ManagedWritesExclusive'
    BY <1>1, <1>4 DEF Inv, TypeOK, ManagedWritesExclusive, Active, InCall
  <1>6. LocalsFit'
    BY <1>1, <1>4 DEF Inv, TypeOK, LocalsFit, Fits, Retiring, Take
  <1> QED
    BY <1>1, <1>3, <1>5, <1>6 DEF Inv, TypeOK

(* The mutex was free, so no other caller of the Client is inside a call.  *)
LEMMA LockInv ==
    ASSUME Inv, NEW c \in Callers, Lock(c)
    PROVE  Inv'
  <1> DEFINE first == IF OnSession(c) THEN "version" ELSE "auth"
  <1>1. /\ mu[ClientOf[c]] = NoCaller
        /\ mu' = [mu EXCEPT ![ClientOf[c]] = c]
        /\ Take(c, Go(first, loc[c]))
        /\ UNCHANGED <<running, startup, sessions, doubt, stray, landed, call, used>>
    BY DEF Lock, appliance
  <1>2. loc[c] \in Local
    BY DEF Inv, TypeOK
  <1>3. first \in {"version", "auth"}
    OBVIOUS
  <1> HIDE DEF first
  <1>4. pc' \in [Callers -> Labels] /\ loc' \in [Callers -> Local]
    BY <1>1, <1>2, <1>3, TakeTyped DEF Go, Labels, InCall, Inv
  <1>5. pc' = [pc EXCEPT ![c] = first]
    BY <1>1 DEF Take, Go
  <1>6. mu' \in [Clients -> Callers \cup {NoCaller}]
    BY <1>1 DEF Inv, TypeOK
  <1>7. ManagedWritesExclusive'
    BY <1>1, <1>5, ClientAssumption, NoCallerAssumption DEF Inv, TypeOK, ManagedWritesExclusive, Active
  <1>8. LocalsFit'
    BY <1>1, <1>3, <1>5 DEF Inv, TypeOK, LocalsFit, Fits, Retiring, Take, Go
  <1> QED
    BY <1>1, <1>4, <1>6, <1>7, <1>8 DEF Inv, TypeOK

(* The caller leaves its call and frees the mutex it held. *)
LEMMA ReturnInv ==
    ASSUME Inv, NEW c \in Callers, Active(c), UNCHANGED call, NEW l \in Local,
           mu' = [mu EXCEPT ![ClientOf[c]] = NoCaller], Take(c, Go("returned", l))
    PROVE  /\ pc' \in [Callers -> Labels]
           /\ loc' \in [Callers -> Local]
           /\ mu' \in [Clients -> Callers \cup {NoCaller}]
           /\ ManagedWritesExclusive'
           /\ LocalsFit'
  <1>1. pc' \in [Callers -> Labels] /\ loc' \in [Callers -> Local]
    BY TakeTyped DEF Go, Labels, Rest, Inv
  <1>2. pc' = [pc EXCEPT ![c] = "returned"]
    BY DEF Take, Go
  <1>3. mu' \in [Clients -> Callers \cup {NoCaller}]
    BY DEF Inv, TypeOK
  <1>4. ManagedWritesExclusive'
    <2> SUFFICES ASSUME NEW d \in Callers, pc'[d] \in InCall
                 PROVE  mu'[ClientOf[d]] = d
      BY DEF ManagedWritesExclusive, Active
    <2>1. d # c /\ pc[d] \in InCall
      BY <1>2 DEF Inv, TypeOK, InCall
    <2>2. mu[ClientOf[d]] = d /\ mu[ClientOf[c]] = c
      BY <2>1 DEF Inv, ManagedWritesExclusive, Active
    <2> QED
      BY <2>1, <2>2, ClientAssumption DEF Inv, TypeOK
  <1>5. LocalsFit'
    BY <1>2 DEF Inv, TypeOK, LocalsFit, Fits, Retiring, Take
  <1> QED
    BY <1>1, <1>3, <1>4, <1>5

LEMMA AuthInv ==
    ASSUME Inv, NEW c \in Callers, Auth(c)
    PROVE  Inv'
  <1>1. /\ pc[c] = "auth"
        /\ UNCHANGED <<running, startup, doubt, stray, landed, call>>
    BY DEF Auth
  <1>2. call[c] \in Request /\ loc[c] \in Local
    BY RequestsTyped DEF Inv
  <1>3. CASE /\ sessions' = sessions \cup {c}
             /\ Take(c, Go("version", loc[c]))
             /\ UNCHANGED <<mu, used>>
    <2>1. Go("version", loc[c]) \in Outcome(call[c])
      BY <1>2, PlainOutcome DEF InCall, Retiring
    <2>2. pc[c] \in InCall
      BY <1>1 DEF InCall
    <2> QED
      BY <1>1, <1>3, <2>1, <2>2, TakeInv DEF Inv, TypeOK
  <1>4. CASE /\ Spend("fault")
             /\ mu' = [mu EXCEPT ![ClientOf[c]] = NoCaller]
             /\ Take(c, Go("returned", [loc[c] EXCEPT !.err = "failed"]))
             /\ UNCHANGED sessions
    <2>1. [loc[c] EXCEPT !.err = "failed"] \in Local
      BY <1>2 DEF Local, Errors
    <2>2. Active(c)
      BY <1>1 DEF Active, InCall
    <2>3. used' \in [Budget -> Nat]
      BY <1>4, SpendTyped DEF Inv, Budget
    <2> QED
      BY <1>1, <1>4, <2>1, <2>2, <2>3, ReturnInv DEF Inv, TypeOK
  <1> QED
    BY <1>3, <1>4 DEF Auth

LEMMA LogoffInv ==
    ASSUME Inv, NEW c \in Callers, Logoff(c)
    PROVE  Inv'
  <1>1. /\ pc[c] = "logoff"
        /\ sessions' = sessions \ {c}
        /\ doubt' = [doubt EXCEPT ![c] = {}]
        /\ mu' = [mu EXCEPT ![ClientOf[c]] = NoCaller]
        /\ UNCHANGED <<running, startup, landed, call>>
        /\ stray' \in {stray, stray \cup doubt[c]}
    BY DEF Logoff
  <1> DEFINE left(e) == [Fresh({}) EXCEPT !.stage = loc[c].stage,
                                          !.err = IF loc[c].err = "none" THEN e ELSE loc[c].err]
  <1>2. PICK e \in {"none", "logoff"} :
            /\ Breaks(c) \/ UNCHANGED used
            /\ Take(c, Go("returned", left(e)))
    BY DEF Logoff
  <1>3. loc[c] \in Local /\ Fresh({}) \in Local
    BY FreshTyped DEF Inv, TypeOK
  <1>4. left(e) \in Local
    BY <1>3 DEF Local, Errors
  <1>5. Active(c)
    BY <1>1 DEF Active, InCall
  <1>6. used' \in [Budget -> Nat]
    BY <1>2, BreaksTyped DEF Inv, TypeOK
  <1> HIDE DEF left
  <1>7. /\ doubt' \in [Callers -> SUBSET Message] /\ sessions' \subseteq Callers
        /\ stray' \subseteq Message
    BY <1>1 DEF Inv, TypeOK
  <1> QED
    BY <1>1, <1>2, <1>4, <1>5, <1>6, <1>7, ReturnInv DEF Inv, TypeOK

LEMMA UnlockInv ==
    ASSUME Inv, NEW c \in Callers, Unlock(c)
    PROVE  Inv'
  <1> DEFINE left == [Fresh({}) EXCEPT !.stage = loc[c].stage, !.err = loc[c].err]
  <1>1. /\ pc[c] = "logoff"
        /\ mu' = [mu EXCEPT ![ClientOf[c]] = NoCaller]
        /\ Take(c, Go("returned", left))
        /\ UNCHANGED <<running, startup, sessions, doubt, stray, landed, call, used>>
    BY DEF Unlock, appliance
  <1>2. left \in Local
    <2>1. loc[c] \in Local /\ Fresh({}) \in Local
      BY FreshTyped DEF Inv, TypeOK
    <2> QED
      BY <2>1 DEF Local
  <1>3. Active(c)
    BY <1>1 DEF Active, InCall
  <1> HIDE DEF left
  <1> QED
    BY <1>1, <1>2, <1>3, ReturnInv DEF Inv, TypeOK

(* What a Client has in doubt becomes stray, or is over. *)
LEMMA SettleTyped ==
    ASSUME Inv, NEW k \in Clients, Settle(k),
           stray' = stray \/ stray' = stray \cup DoubtOf(k)
    PROVE  doubt' \in [Callers -> SUBSET Message] /\ stray' \subseteq Message
  <1>1. DoubtOf(k) \subseteq Message
    BY DEF DoubtOf, UsersOf, Inv, TypeOK
  <1> QED
    BY <1>1 DEF Settle, Inv, TypeOK

LEMMA CloseSessionInv ==
    ASSUME Inv, NEW k \in Clients, CloseSession(k)
    PROVE  Inv'
  <1>1. /\ sessions' = sessions \ UsersOf(k)
        /\ Settle(k)
        /\ stray' = stray \/ stray' = stray \cup DoubtOf(k)
        /\ UNCHANGED <<running, startup, landed, mu, pc, call, loc>>
    BY DEF CloseSession
  <1>2. sessions' \subseteq Callers
    BY <1>1 DEF Inv, TypeOK
  <1>3. doubt' \in [Callers -> SUBSET Message] /\ stray' \subseteq Message
    BY <1>1, SettleTyped
  <1>4. used' \in [Budget -> Nat]
    BY SpendTyped DEF CloseSession, Inv, TypeOK, Budget
  <1> QED
    BY <1>1, <1>2, <1>3, <1>4 DEF Inv, TypeOK, ManagedWritesExclusive, Active, LocalsFit

LEMMA DeliverInv ==
    ASSUME Inv, NEW c \in Callers, Deliver(c)
    PROVE  Inv'
  <1>1. PICK m \in doubt[c] : Process(m) /\ doubt' = [doubt EXCEPT ![c] = @ \ {m}]
    BY DEF Deliver
  <1>2. m \in Message
    BY DEF Inv, TypeOK
  <1>3. running' \in Config /\ startup' \in Config
    BY <1>1, <1>2, ProcessTyped DEF Inv
  <1>4. UNCHANGED <<sessions, stray, landed, mu, pc, call, loc, used>>
    BY DEF Deliver
  <1> QED
    BY <1>1, <1>3, <1>4 DEF Inv, TypeOK, ManagedWritesExclusive, Active, LocalsFit

LEMMA LandInv ==
    ASSUME Inv, Land
    PROVE  Inv'
  <1>1. PICK m \in stray :
            Process(m) /\ stray' = stray \ {m} /\ landed' = landed \cup {m.op}
    BY DEF Land
  <1>2. m \in Message
    BY DEF Inv, TypeOK
  <1>3. running' \in Config /\ startup' \in Config
    BY <1>1, <1>2, ProcessTyped DEF Inv
  <1>4. m.op \in {"upload", "delete", "bind", "unbind", "write"}
    BY <1>2 DEF Message, WriteMemory
  <1>5. UNCHANGED <<sessions, doubt, mu, pc, call, loc, used>>
    BY DEF Land
  <1> QED
    BY <1>1, <1>3, <1>4, <1>5 DEF Inv, TypeOK, ManagedWritesExclusive, Active, LocalsFit

(* Whoever dies gives up the mutex; of the other Clients nobody holds it.  *)
LEMMA CrashInv ==
    ASSUME Inv, NEW k \in Clients, Crash(k)
    PROVE  Inv'
  <1> DEFINE dead == {c \in UsersOf(k) : pc[c] \notin Rest}
             ended == [Fresh({}) EXCEPT !.err = "crashed"]
  <1>1. /\ mu' = [mu EXCEPT ![k] = NoCaller]
        /\ sessions' = sessions \ UsersOf(k)
        /\ Settle(k)
        /\ stray' = stray \cup DoubtOf(k)
        /\ pc' = [c \in Callers |-> IF c \in dead THEN "returned" ELSE pc[c]]
        /\ loc' = [c \in Callers |-> IF c \in dead THEN ended ELSE loc[c]]
        /\ UNCHANGED <<running, startup, landed, call>>
        /\ Spend("crash")
    BY DEF Crash
  <1>2. ended \in Local
    BY FreshTyped DEF Local, Errors
  <1>3. used' \in [Budget -> Nat]
    BY <1>1, SpendTyped DEF Inv, Budget
  <1> HIDE DEF ended
  <1>4. pc' \in [Callers -> Labels] /\ loc' \in [Callers -> Local]
    BY <1>1, <1>2 DEF Inv, TypeOK, Labels, Rest
  <1>5. ManagedWritesExclusive'
    <2> SUFFICES ASSUME NEW d \in Callers, pc'[d] \in InCall
                 PROVE  mu'[ClientOf[d]] = d
      BY DEF ManagedWritesExclusive, Active
    <2>1. d \notin dead /\ pc[d] \in InCall
      BY <1>1 DEF InCall
    <2>2. ClientOf[d] # k
      BY <2>1 DEF InCall, Rest, UsersOf
    <2> QED
      BY <1>1, <2>1, <2>2, ClientAssumption DEF Inv, TypeOK, ManagedWritesExclusive, Active
  <1>6. LocalsFit'
    BY <1>1 DEF Inv, TypeOK, LocalsFit, Fits, Retiring
  <1>7. doubt' \in [Callers -> SUBSET Message] /\ stray' \subseteq Message
    BY <1>1, SettleTyped
  <1> QED
    BY <1>1, <1>3, <1>4, <1>5, <1>6, <1>7 DEF Inv, TypeOK

LEMMA RebootInv ==
    ASSUME Inv, Reboot
    PROVE  Inv'
  <1>1. used' \in [Budget -> Nat]
    BY SpendTyped DEF Inv, Reboot, Budget
  <1> QED
    BY <1>1 DEF Inv, TypeOK, ManagedWritesExclusive, Active, LocalsFit, Reboot

LEMMA OperatorEditInv ==
    ASSUME Inv, OperatorEdit
    PROVE  Inv'
  <1>1. running \in Config /\ startup \in Config
    BY DEF Inv, TypeOK
  <1>2. running' \in Config /\ startup' \in Config
    <2>1. CASE \E t \in Templates, b \in OperatorBindings :
                  running' \in Results(running, BindOf(t, b)) /\ UNCHANGED startup
      BY <1>1, <2>1, OperatorAssumption, MessagesTyped, ResultsTyped
    <2>2. CASE \E t \in Templates, n \in Names :
                  running' \in Results(running, UnbindOf(t, n)) /\ UNCHANGED startup
      BY <1>1, <2>2, MessagesTyped, ResultsTyped
    <2>3. CASE \E f \in running.files :
                  /\ \/ running' = [running EXCEPT !.server = @ \cup {f}]
                     \/ \E t \in Templates :
                           running' = [running EXCEPT !.tmpl[t].extra = @ \cup {f}]
                  /\ UNCHANGED startup
      <3>1. PICK f \in running.files :
                  \/ running' = [running EXCEPT !.server = @ \cup {f}]
                  \/ \E t \in Templates : running' = [running EXCEPT !.tmpl[t].extra = @ \cup {f}]
        BY <2>3
      <3>2. f \in File
        BY <1>1 DEF Config
      <3>3. CASE running' = [running EXCEPT !.server = @ \cup {f}]
        BY <1>1, <2>3, <3>2, <3>3 DEF Config
      <3>4. CASE \E t \in Templates : running' = [running EXCEPT !.tmpl[t].extra = @ \cup {f}]
        <4>1. PICK t \in Templates : running' = [running EXCEPT !.tmpl[t].extra = @ \cup {f}]
          BY <3>4
        <4>2. [running.tmpl[t] EXCEPT !.extra = @ \cup {f}] \in Template
          BY <1>1, <3>2 DEF Config, Template
        <4> QED
          BY <1>1, <2>3, <4>1, <4>2 DEF Config
      <3> QED
        BY <3>1, <3>3, <3>4
    <2>4. CASE startup' = running /\ UNCHANGED running
      BY <1>1, <2>4
    <2> QED
      BY <2>1, <2>2, <2>3, <2>4 DEF OperatorEdit
  <1>3. used' \in [Budget -> Nat]
    BY SpendTyped DEF Inv, OperatorEdit, Budget
  <1>4. UNCHANGED <<sessions, doubt, stray, landed, mu, pc, call, loc>>
    BY DEF OperatorEdit
  <1> QED
    BY <1>2, <1>3, <1>4 DEF Inv, TypeOK, ManagedWritesExclusive, Active, LocalsFit

----------------------------------------------------------------------------
(* The invariant holds initially and every step keeps it. *)

LEMMA InitInv == Init => Inv
  <1> SUFFICES ASSUME Init PROVE Inv
    OBVIOUS
  <1>1. running \in Config /\ startup \in Config
    BY ConfigAssumption DEF Init
  <1>2. call \in [Callers -> Request]
    BY RequestAssumption DEF Init
  <1>3. loc \in [Callers -> Local]
    BY FreshTyped DEF Init
  <1>4. pc \in [Callers -> Labels] /\ \A c \in Callers : pc[c] = "idle"
    BY DEF Init, Labels, Rest
  <1>5. ManagedWritesExclusive /\ LocalsFit
    BY <1>4 DEF ManagedWritesExclusive, Active, InCall, LocalsFit, Fits, Retiring
  <1> QED
    BY <1>1, <1>2, <1>3, <1>4, <1>5 DEF Init, Inv, TypeOK

LEMMA RotateInv ==
    ASSUME Inv, NEW c \in Callers, Rotate(c)
    PROVE  Inv'
  BY VersionInv, InspectInv, ListCertsInv, ListKeysInv, ListInfoInv, UpKeyInv, UpCertInv,
     UpChainInv, PreBindInv, BindInv, ReadBackInv, VerifyBoundInv, PreUnbindInv, UnbindInv,
     PostUnbindInv, PrePersistInv, PersistInv, ScanClientInv, ScanServerInv, DeletePairInv,
     DeleteChainInv, PersistCleanupInv, CreatePersistInv
  DEF Rotate

LEMMA RollbackInv ==
    ASSUME Inv, NEW c \in Callers, Rollback(c)
    PROVE  Inv'
  BY RbInspectInv, RbBindInv, RbRereadInv, RbUnbindInv, RbVerifyInv, RbPersistInv,
     UndoPairInv, UndoChainInv, UndoCertsInv, UndoKeysInv, UndoPersistInv
  DEF Rollback

LEMMA NextInv == Inv /\ [Next]_vars => Inv'
  <1> SUFFICES ASSUME Inv, [Next]_vars PROVE Inv'
    OBVIOUS
  <1>1. ASSUME NEW c \in Callers, Invoke(c) \/ Retry(c) \/ Lock(c) PROVE Inv'
    BY <1>1, InvokeInv, RetryInv, LockInv
  <1>2. ASSUME NEW c \in Callers, Step(c) PROVE Inv'
    BY <1>2, AuthInv, RotateInv, RollbackInv, LogoffInv, UnlockInv DEF Step
  <1>3. CASE Environment
    BY <1>3, OperatorEditInv, RebootInv, CrashInv, CloseSessionInv, DeliverInv, LandInv DEF Environment
  <1>4. CASE UNCHANGED vars
    BY <1>4 DEF vars, Inv, TypeOK, ManagedWritesExclusive, Active, LocalsFit
  <1> QED
    BY <1>1, <1>2, <1>3, <1>4 DEF Next, Finished

THEOREM InvHolds == Spec => []Inv
  BY InitInv, NextInv, PTL DEF Spec

(* Type correctness: whatever callers, faults, reboots, crashes and GUI    *)
(* users do, the locals of a call and the configuration stay well-formed.  *)
THEOREM TypeCorrect == Spec => []TypeOK
  BY InvHolds, PTL DEF Inv

(* managedMu: a caller between the Lock and the deferred Unlock of         *)
(* SyncCertificate holds the mutex of its Client, so the managed writes of *)
(* one Client never interleave.                                            *)
THEOREM MutualExclusion == Spec => []ManagedWritesExclusive
  BY InvHolds, PTL DEF Inv

----------------------------------------------------------------------------
(* The single call of SyncCertificate or CreateManagedCertificate: what    *)
(* its local variables say at every label.                                 *)

Undoing == {"undoPair", "undoChain", "undoCerts", "undoKeys"}
Restoring == {"rbInspect", "rbBind", "rbReread", "rbUnbind", "rbVerify", "rbPersist"}
Opening == {"idle", "returned", "lock", "auth", "version", "inspect"}
Listing == {"listCerts", "listKeys", "listInfo"}
Uploading == {"upKey", "upCert", "upChain"}
Cleaning == {"scanClient", "scanServer", "deletePair", "deleteChain", "persistCleanup"}
Settled == {"postUnbind", "prePersist", "persist"} \cup Cleaning

(* Labels of a call that has met no error yet, or is about to restore the  *)
(* baseline after the write failed.                                        *)
Forward == (InCall \cup {"lock"}) \ (Undoing \cup {"undoPersist", "logoff"})

(* Those a pre-staging call never comes to, and those only it comes to. *)
Rotating ==
    {"inspect", "preBind", "bind", "readBack", "verifyBound", "preUnbind", "unbind"}
        \cup Settled \cup Restoring
Staging == {"createPersist", "undoPersist"}

Untouched(l) == l.up = {} /\ ~ l.mutated
Pinned(l) == l.pin # {} => l.base \in l.pin
Calm(l) == l.err = "none" /\ ~ l.attempted /\ ~ l.rolled

(* What holds at every label. *)
Common(r, l) ==
    /\ l.attempted => r.create
    /\ l.err = "conflict" => ~ l.attempted
    /\ l.full => ~ r.create /\ Calm(l) /\ ~ l.wrote
    /\ r.create => l.pin = {} /\ ~ l.mutated
    /\ l.up \subseteq FilesOf(Desired(r)) \ l.seen
    /\ Untouched(l) \/ Pinned(l)

(* The errors, the rollbacks and the writes of a call. *)
Course(r, at, l) ==
    /\ at \in Opening \cup Listing => Untouched(l)
    /\ at \in Rest => ~ l.full
    /\ at \in Forward => Calm(l) /\ (l.full <=> at \in Restoring)
    /\ at \in Forward \ Cleaning => ~ l.wrote
    /\ at \in Undoing => l.full \/ (l.err # "none" /\ ~ l.mutated)
    /\ at = "undoPersist" => l.err # "none" /\ ~ l.full /\ l.attempted
    /\ at = "logoff" => ~ l.full /\ (l.err = "none" => l.stage = "complete" /\ ~ l.rolled)
    /\ r.create => at \notin Rotating
    /\ ~ r.create => at \notin Staging
    /\ at \in Cleaning => r.cleanup /\ (r.noWrite \/ l.wrote)

(* The files of the bundle: found, or uploaded by this call. *)
Material(r, at, l) ==
    LET have == l.seen \cup l.up
        key == <<"key", r.name>>
        cert == <<"cert", r.name>>
        chain == <<"cert", r.chain>>
    IN  /\ at = "upKey" => key \notin l.seen /\ l.up = {}
        /\ at = "upCert" => cert \notin l.seen /\ l.up \subseteq {key} /\ key \in have
        /\ at = "upChain" => chain \notin l.seen /\ l.up \subseteq {key, cert} /\ {key, cert} \subseteq have
        /\ at \in {"preBind", "bind", "createPersist"} => FilesOf(Desired(r)) \subseteq have
        /\ at = "logoff" /\ l.err = "none" /\ r.create => FilesOf(Desired(r)) \subseteq have

(* The baseline, the binding to replace, and the template expected next. *)
Expected(r, at, l) ==
    ~ r.create =>
        /\ at \in Forward \ Opening \/ l.full =>
              Pinned(l) /\ l.cur \in SelectCurrent(l.base, r.current, Desired(r))
        /\ at \in Listing \cup Uploading \cup {"preBind", "bind", "verifyBound"} =>
              ~ l.mutated /\ l.exp = l.base
        /\ at \in {"bind", "readBack"} => Desired(r) \notin l.base.certs
        /\ at = "verifyBound" => Desired(r) \in l.base.certs
        /\ at = "readBack" => l.mutated
        /\ at \in {"preUnbind", "unbind"} => l.exp = WithBinding(l.base, Desired(r))
        /\ at \in {"preUnbind", "unbind", "postUnbind"} \cup Cleaning => Replaces(r, l)
        /\ at \in Settled => l.exp = Rotated(r, l)
        /\ at = "logoff" /\ l.err = "none" => l.exp = Rotated(r, l)
        /\ at \in {"preUnbind", "unbind"} \cup Settled \cup Restoring =>
              l.mutated \/ Desired(r) \in l.base.certs
        /\ at \in {"rbBind", "rbReread", "rbUnbind"} => ~ Bound(l.base, r.name)
        /\ at \in Undoing /\ l.full => l.mutated \/ Desired(r) \in l.base.certs

Shape(r, at, l) == Common(r, l) /\ Course(r, at, l) /\ Material(r, at, l) /\ Expected(r, at, l)

CallShaped == \A c \in Callers : call[c] \in Requests[c] /\ Shape(call[c], pc[c], loc[c])

(* An outcome that keeps a call in shape. *)
Fine(r, o) == Shape(r, o.at, o.loc)

(* What an error return needs. *)
Owed(r, l) ==
    /\ l.attempted => r.create
    /\ r.create => l.pin = {} /\ ~ l.mutated
    /\ l.up \subseteq FilesOf(Desired(r)) \ l.seen
    /\ Untouched(l) \/ Pinned(l)

(* Where a label stands is a matter of computation. *)
USE DEF Undoing, Restoring, Opening, Listing, Uploading, Cleaning, Settled, Forward, Rotating,
        Staging, InCall, Rest, Fine, Go

----------------------------------------------------------------------------
(* The continuations of a call.                                            *)

LEMMA UndoFine ==
    ASSUME NEW r \in Request, NEW l \in Local, Shape(r, "undoPair", l)
    PROVE  Fine(r, Undo(r, l)) /\ \A at \in Undoing : Shape(r, at, l)
  <1>1. \A at \in Undoing : Shape(r, at, l)
    BY DEF Shape, Course, Material, Expected
  <1> QED
    BY <1>1 DEF Undo

LEMMA FailedFine ==
    ASSUME NEW r \in Request, NEW l \in Local, Owed(r, l),
           NEW err \in Errors \ {"none"}, err = "conflict" => ~ l.attempted
    PROVE  Fine(r, Failed(r, l, err))
  <1> DEFINE e == [l EXCEPT !.err = err, !.full = FALSE]
  <1>1. e \in Local
    BY DEF Local
  <1>2. /\ e.err = err /\ e.full = FALSE /\ e.up = l.up /\ e.mutated = l.mutated
        /\ e.attempted = l.attempted /\ e.pin = l.pin /\ e.base = l.base /\ e.seen = l.seen
    BY DEF Local
  <1>3. Failed(r, l, err) = IF e.up # {} /\ ~ e.mutated THEN Undo(r, e) ELSE Go("logoff", e)
    BY <1>2 DEF Failed
  <1> HIDE DEF e
  <1>4. Common(r, e)
    BY <1>2 DEF Common, Owed, Untouched, Pinned
  <1>5. ~ e.mutated => Shape(r, "undoPair", e)
    BY <1>2, <1>4 DEF Shape, Course, Material, Expected
  <1>6. Shape(r, "logoff", e)
    BY <1>2, <1>4 DEF Shape, Course, Material, Expected
  <1> QED
    BY <1>1, <1>3, <1>5, <1>6, UndoFine

LEMMA Owes ==
    ASSUME NEW r \in Request, NEW l \in Local, Common(r, l)
    PROVE  Owed(r, l)
  BY DEF Common, Owed

LEMMA CompleteFine ==
    ASSUME NEW r \in Request, NEW l \in Local, Common(r, l), Calm(l), ~ l.full,
           IF r.create THEN FilesOf(Desired(r)) \subseteq l.seen \cup l.up
                       ELSE l.exp = Rotated(r, l)
    PROVE  Fine(r, Complete(l))
  <1> DEFINE e == [l EXCEPT !.stage = "complete"]
  <1>1. /\ e.err = l.err /\ e.full = l.full /\ e.up = l.up /\ e.mutated = l.mutated
        /\ e.attempted = l.attempted /\ e.pin = l.pin /\ e.base = l.base /\ e.seen = l.seen
        /\ e.cur = l.cur /\ e.exp = l.exp /\ e.rolled = l.rolled /\ e.stage = "complete"
    BY DEF Local
  <1>2. Complete(l) = Go("logoff", e)
    BY DEF Complete
  <1> HIDE DEF e
  <1> QED
    BY <1>1, <1>2 DEF Shape, Common, Course, Material, Expected, Calm, Untouched, Pinned, Rotated, Replaces

(* Every label of the cleanup asks for the same. *)
LEMMA CleaningFine ==
    ASSUME NEW r \in Request, NEW l \in Local, NEW at \in Cleaning, Shape(r, at, l)
    PROVE  /\ \A next \in Cleaning : Shape(r, next, l)
           /\ ~ r.create /\ Common(r, l) /\ Calm(l) /\ ~ l.full /\ l.exp = Rotated(r, l)
  BY DEF Shape, Course, Material, Expected

LEMMA AfterCleanupFine ==
    ASSUME NEW r \in Request, NEW l \in Local, NEW at \in Cleaning, Shape(r, at, l)
    PROVE  Fine(r, AfterCleanup(r, l))
  <1> DEFINE e == [l EXCEPT !.stage = "cleanup-complete"]
  <1>1. e \in Local
    BY DEF Local, Stages
  <1>2. Shape(r, at, e)
    BY DEF Local, Shape, Common, Course, Material, Expected, Calm, Untouched, Pinned, Rotated, Replaces
  <1>3. Fine(r, Complete(e))
    BY <1>1, <1>2, CleaningFine, CompleteFine
  <1>4. Shape(r, "persistCleanup", e)
    BY <1>1, <1>2, CleaningFine
  <1> QED
    BY <1>3, <1>4 DEF AfterCleanup

LEMMA AfterPairFine ==
    ASSUME NEW r \in Request, NEW l \in Local, NEW at \in Cleaning, Shape(r, at, l)
    PROVE  Fine(r, AfterPair(r, l))
  BY CleaningFine, AfterCleanupFine DEF AfterPair

LEMMA AfterScanFine ==
    ASSUME NEW r \in Request, NEW l \in Local, NEW at \in Cleaning, Shape(r, at, l)
    PROVE  Fine(r, AfterScan(r, l))
  BY CleaningFine, AfterPairFine DEF AfterScan

LEMMA WithOf ==
    ASSUME NEW t \in Template, NEW b \in Binding
    PROVE  /\ WithBinding(t, b) \in Template
           /\ WithBinding(t, b).certs = t.certs \cup {b}
           /\ WithBinding(t, b).extra = t.extra
  BY DEF WithBinding, Template

LEMMA WithoutOf ==
    ASSUME NEW t \in Template, NEW cert
    PROVE  /\ WithoutCertificate(t, cert) \in Template
           /\ WithoutCertificate(t, cert).certs = {p \in t.certs : p.cert # cert}
           /\ WithoutCertificate(t, cert).extra = t.extra
  BY DEF WithoutCertificate, Template

(* The template is as the rotation wants it. *)
OnCourse(r, l) ==
    /\ Common(r, l) /\ Calm(l) /\ ~ l.full /\ ~ r.create
    /\ Pinned(l) /\ l.cur \in SelectCurrent(l.base, r.current, Desired(r))
    /\ l.mutated \/ Desired(r) \in l.base.certs

InPlace(r, l) == OnCourse(r, l) /\ l.exp = Rotated(r, l)

LEMMA CleanupFine ==
    ASSUME NEW r \in Request, NEW l \in Local, InPlace(r, l),
           Replaces(r, l) => r.noWrite \/ l.wrote
    PROVE  Fine(r, Cleanup(r, l))
  <1>1. Replaces(r, l) /\ r.cleanup => Shape(r, "scanClient", l)
    BY DEF InPlace, OnCourse, Shape, Course, Material, Expected
  <1>2. Fine(r, Complete(l))
    BY CompleteFine DEF InPlace, OnCourse
  <1> QED
    BY <1>1, <1>2 DEF Cleanup

LEMMA AfterOldBindingFine ==
    ASSUME NEW r \in Request, NEW l \in Local, InPlace(r, l), ~ l.wrote,
           Replaces(r, l) => l.changed
    PROVE  Fine(r, AfterOldBinding(r, l))
  <1>1. Shape(r, "prePersist", l)
    BY DEF InPlace, OnCourse, Shape, Course, Material, Expected
  <1>2. (l.changed /\ ~ r.noWrite) \/ Fine(r, Cleanup(r, l))
    BY CleanupFine
  <1> QED
    BY <1>1, <1>2 DEF AfterOldBinding

LEMMA OldBindingRemovedFine ==
    ASSUME NEW r \in Request, NEW l \in Local, InPlace(r, l), ~ l.wrote
    PROVE  Fine(r, OldBindingRemoved(r, l))
  <1> DEFINE e == [l EXCEPT !.changed = TRUE, !.stage = "old-binding-removed"]
  <1>1. e \in Local /\ e.changed /\ ~ e.wrote
    BY DEF Local, Stages
  <1>2. InPlace(r, e)
    BY DEF Local, InPlace, OnCourse, Common, Calm, Untouched, Pinned, Rotated, Replaces
  <1> QED
    BY <1>1, <1>2, AfterOldBindingFine DEF OldBindingRemoved

LEMMA AfterBindingFine ==
    ASSUME NEW r \in Request, NEW l \in Local, NEW implicit \in BOOLEAN,
           OnCourse(r, l), ~ l.wrote,
           \/ l.exp = WithBinding(l.base, Desired(r))
           \/ Replaces(r, l) /\ l.exp = Rotated(r, l)
    PROVE  Fine(r, AfterBinding(r, l, implicit))
  <1>1. ~ Replaces(r, l) => InPlace(r, l)
    BY DEF InPlace, Rotated
  <1>2. ~ Replaces(r, l) => Fine(r, AfterOldBinding(r, l))
    BY <1>1, AfterOldBindingFine
  <1>3. Replaces(r, l) /\ l.cur \in l.exp.certs => Shape(r, "preUnbind", l)
    <2>1. l.cur \in l.exp.certs => l.exp = WithBinding(l.base, Desired(r))
      <3>1. WithBinding(l.base, Desired(r)) \in Template
        BY WithOf, DesiredTyped DEF Local
      <3> QED BY <3>1, WithoutOf DEF Rotated
    <2> QED
      BY <2>1 DEF OnCourse, Shape, Course, Material, Expected
  <1>4. Replaces(r, l) /\ ~ Bound(l.exp, l.cur.cert) => l.exp = Rotated(r, l)
    <2>1. l.exp \in Template
      BY DEF Local
    <2>2. ~ Bound(l.exp, l.cur.cert) => WithoutCertificate(l.exp, l.cur.cert) = l.exp
      BY <2>1 DEF Bound, WithoutCertificate, Template
    <2> QED
      BY <2>2 DEF Rotated
  <1>5. Replaces(r, l) /\ ~ Bound(l.exp, l.cur.cert) => Fine(r, OldBindingRemoved(r, l))
    BY <1>4, OldBindingRemovedFine DEF InPlace
  <1>6. Fine(r, Failed(r, l, "conflict"))
    BY Owes, FailedFine DEF OnCourse, Calm, Errors
  <1> QED
    BY <1>2, <1>3, <1>5, <1>6 DEF AfterBinding

(* Nothing but files has been changed. *)
Preparing(r, l) ==
    /\ Common(r, l) /\ Calm(l) /\ ~ l.full /\ ~ l.mutated /\ ~ l.wrote
    /\ ~ r.create => /\ l.exp = l.base /\ Pinned(l)
                     /\ l.cur \in SelectCurrent(l.base, r.current, Desired(r))

LEMMA ReadyFine ==
    ASSUME NEW r \in Request, NEW l \in Local, Preparing(r, l),
           FilesOf(Desired(r)) \subseteq l.seen \cup l.up
    PROVE  Fine(r, Ready(r, l))
  <1> DEFINE e == [l EXCEPT !.stage = "material-ready"]
  <1>1. e \in Local
    BY DEF Local, Stages
  <1>2. Preparing(r, e) /\ FilesOf(Desired(r)) \subseteq e.seen \cup e.up
    BY DEF Local, Preparing, Common, Calm, Untouched, Pinned
  <1>3. Ready(r, l) = IF ~ r.create THEN Go("preBind", e)
                      ELSE IF e.changed /\ ~ r.noWrite THEN Go("createPersist", e)
                      ELSE Complete(e)
    BY DEF Ready, Local
  <1> HIDE DEF e
  <1>4. ~ r.create => Shape(r, "preBind", e)
    BY <1>2 DEF Preparing, Shape, Course, Material, Expected
  <1>5. r.create => Shape(r, "createPersist", e)
    BY <1>2 DEF Preparing, Shape, Course, Material, Expected
  <1>6. r.create => Fine(r, Complete(e))
    BY <1>1, <1>2, CompleteFine DEF Preparing
  <1> QED
    BY <1>3, <1>4, <1>5, <1>6

LEMMA AfterCertFine ==
    ASSUME NEW r \in Request, NEW l \in Local, Preparing(r, l),
           l.up \subseteq PairOf(Desired(r)), PairOf(Desired(r)) \subseteq l.seen \cup l.up
    PROVE  Fine(r, AfterCert(r, l))
  <1> DEFINE chain == <<"cert", r.chain>>
  <1>1. FilesOf(Desired(r)) = IF r.chain = NoName THEN PairOf(Desired(r))
                              ELSE PairOf(Desired(r)) \cup {chain}
    BY DEF FilesOf, ChainOf, Desired
  <1>2. PairOf(Desired(r)) = {<<"cert", r.name>>, <<"key", r.name>>}
    BY DEF PairOf, Desired
  <1>3. r.chain = NoName \/ chain \in l.seen => Fine(r, Ready(r, l))
    BY <1>1, ReadyFine
  <1>4. chain \notin l.seen => Shape(r, "upChain", l)
    BY <1>2 DEF Preparing, Shape, Course, Material, Expected
  <1>5. Fine(r, Failed(r, l, "failed"))
    BY Owes, FailedFine DEF Preparing, Errors
  <1> QED
    BY <1>3, <1>4, <1>5 DEF AfterCert

LEMMA AfterKeyFine ==
    ASSUME NEW r \in Request, NEW l \in Local, Preparing(r, l),
           l.up \subseteq {<<"key", r.name>>}, <<"key", r.name>> \in l.seen \cup l.up
    PROVE  Fine(r, AfterKey(r, l))
  <1> DEFINE cert == <<"cert", r.name>>
  <1>1. PairOf(Desired(r)) = {<<"cert", r.name>>, <<"key", r.name>>}
    BY DEF PairOf, Desired
  <1>2. cert \in l.seen => Fine(r, AfterCert(r, l))
    BY <1>1, AfterCertFine
  <1>3. cert \notin l.seen => Shape(r, "upCert", l)
    BY DEF Preparing, Shape, Course, Material, Expected
  <1>4. Fine(r, Failed(r, l, "failed"))
    BY Owes, FailedFine DEF Preparing, Errors
  <1> QED
    BY <1>2, <1>3, <1>4 DEF AfterKey

LEMMA AfterListingFine ==
    ASSUME NEW r \in Request, NEW l \in Local, Preparing(r, l), l.up = {}
    PROVE  Fine(r, AfterListing(r, l))
  <1>1. <<"key", r.name>> \notin l.seen => Shape(r, "upKey", l)
    BY DEF Preparing, Shape, Course, Material, Expected
  <1>2. <<"key", r.name>> \in l.seen => Fine(r, AfterKey(r, l))
    BY AfterKeyFine
  <1> QED
    BY <1>1, <1>2 DEF AfterListing

(* The rollbacks. *)
LEMMA RemoveDesiredFine ==
    ASSUME NEW r \in Request, NEW l \in Local, Shape(r, "rbReread", l)
    PROVE  Fine(r, RemoveDesired(r, l))
  <1>1. Shape(r, "rbUnbind", l) /\ Shape(r, "rbVerify", l)
    BY DEF Shape, Course, Material, Expected
  <1> QED
    BY <1>1 DEF RemoveDesired

LEMMA UndoFailedFine ==
    ASSUME NEW r \in Request, NEW l \in Local, NEW at \in Undoing, Shape(r, at, l)
    PROVE  Fine(r, UndoFailed(r, l))
  <1> DEFINE e == [l EXCEPT !.err = "rollback"]
  <1>1. l.full => Fine(r, Failed(r, l, "rollback"))
    BY Owes, FailedFine DEF Shape, Errors
  <1>2. /\ e.err = "rollback" /\ e.full = l.full /\ e.up = l.up /\ e.mutated = l.mutated
        /\ e.attempted = l.attempted /\ e.pin = l.pin /\ e.base = l.base /\ e.seen = l.seen
    BY DEF Local
  <1> HIDE DEF e
  <1>3. ~ l.full => Shape(r, "logoff", e)
    BY <1>2 DEF Shape, Common, Course, Material, Expected, Untouched, Pinned
  <1> QED
    BY <1>1, <1>3 DEF UndoFailed, e

LEMMA UndoneFine ==
    ASSUME NEW r \in Request, NEW l \in Local, NEW at \in Undoing, Shape(r, at, l)
    PROVE  Fine(r, Undone(l))
  <1> DEFINE e == [l EXCEPT !.rolled = TRUE, !.stage = "rolled-back"]
  <1>1. l.full => Shape(r, "rbPersist", l)
    BY DEF Shape, Common, Course, Material, Expected
  <1>2. l.attempted => Shape(r, "undoPersist", l) \/ l.full
    BY DEF Shape, Common, Course, Material, Expected
  <1>3. /\ e.err = l.err /\ e.full = l.full /\ e.up = l.up /\ e.mutated = l.mutated
        /\ e.attempted = l.attempted /\ e.pin = l.pin /\ e.base = l.base /\ e.seen = l.seen
    BY DEF Local
  <1> HIDE DEF e
  <1>4. ~ l.full => Shape(r, "logoff", e)
    BY <1>3 DEF Shape, Common, Course, Material, Expected, Untouched, Pinned
  <1> QED
    BY <1>1, <1>2, <1>4 DEF Undone, e

----------------------------------------------------------------------------
(* One lemma per request of a call.                                        *)

LEMMA ErrorFine ==
    ASSUME NEW r \in Request, NEW l \in Local, NEW at, Shape(r, at, l),
           NEW err \in Errors \ {"none"}, err = "conflict" => at \in Forward
    PROVE  Fine(r, Failed(r, l, err))
  BY Owes, FailedFine DEF Shape, Course, Calm

LEMMA RequireFine ==
    ASSUME NEW r \in Request, NEW l \in Local, NEW at \in Forward, Shape(r, at, l),
           NEW ok, Fine(r, ok)
    PROVE  Fine(r, Require(r, l, ok))
  BY ErrorFine DEF Require, Errors

LEMMA CallFacts ==
    ASSUME Inv, CallShaped, NEW c \in Callers
    PROVE  /\ call[c] \in Request /\ loc[c] \in Local /\ running.tmpl[call[c].tmpl] \in Template
           /\ call[c] \in Requests[c] /\ Shape(call[c], pc[c], loc[c])
  BY RequestsTyped DEF Inv, CallShaped

LEMMA TakeShaped ==
    ASSUME Inv, CallShaped, NEW c \in Callers, NEW o, Take(c, o), UNCHANGED call, Fine(call[c], o)
    PROVE  CallShaped'
  BY DEF CallShaped, Take, Inv, TypeOK

LEMMA QueryShaped ==
    ASSUME Inv, CallShaped, NEW c \in Callers, NEW label, NEW ok, NEW bad,
           Fine(call[c], ok), Fine(call[c], bad), Query(c, label, ok, bad)
    PROVE  CallShaped'
  BY TakeShaped DEF Query

LEMMA SendShaped ==
    ASSUME Inv, CallShaped, NEW c \in Callers, NEW label, NEW m, NEW ok, NEW bad,
           Fine(call[c], ok), Fine(call[c], bad), Send(c, label, m, ok, bad)
    PROVE  CallShaped'
  BY TakeShaped DEF Send

LEMMA VersionShaped ==
    ASSUME Inv, CallShaped, NEW c \in Callers, Version(c)
    PROVE  CallShaped'
  <1> DEFINE r == call[c]
             l == loc[c]
  <1>0. /\ r \in Request /\ l \in Local /\ running.tmpl[r.tmpl] \in Template
        /\ Shape(r, pc[c], l)
    BY CallFacts
  <1>1. pc[c] = "version"
    BY DEF Version, Query
  <1> DEFINE e == [l EXCEPT !.stage = "compatibility-verified"]
  <1>2. Shape(r, IF r.create THEN "listCerts" ELSE "inspect", e)
    BY <1>0, <1>1 DEF Local, Shape, Common, Course, Material, Expected, Calm, Untouched, Pinned
  <1>3. Fine(r, Failed(r, l, "failed"))
    BY <1>0, ErrorFine DEF Errors
  <1> QED
    BY <1>2, <1>3, QueryShaped DEF Version

LEMMA InspectShaped ==
    ASSUME Inv, CallShaped, NEW c \in Callers, Inspect(c)
    PROVE  CallShaped'
  <1> DEFINE r == call[c]
             l == loc[c]
  <1>0. /\ r \in Request /\ l \in Local /\ running.tmpl[r.tmpl] \in Template
        /\ Shape(r, pc[c], l)
    BY CallFacts
  <1>1. pc[c] = "inspect"
    BY DEF Inspect, Query
  <1> DEFINE T == running.tmpl[r.tmpl]
             choice == SelectCurrent(T, r.current, Desired(r))
             read == [l EXCEPT !.base = T, !.exp = T, !.stage = "state-inspected"]
             chosen == [read EXCEPT !.cur = CHOOSE b \in choice : TRUE]
             ok == IF Unexpected(l, T) THEN Failed(r, read, "conflict")
                   ELSE IF choice = {} THEN Failed(r, read, "slot")
                   ELSE Go("listCerts", chosen)
  <1>2. read \in Local
    BY <1>0 DEF Local, Stages
  <1>3. ~ r.create /\ l.up = {} /\ ~ l.mutated /\ Calm(l) /\ ~ l.full /\ ~ l.wrote
    BY <1>0, <1>1 DEF Shape, Course, Untouched
  <1>4. /\ read.up = l.up /\ read.mutated = l.mutated /\ read.err = l.err /\ read.seen = l.seen
        /\ read.attempted = l.attempted /\ read.rolled = l.rolled /\ read.full = l.full
        /\ read.wrote = l.wrote /\ read.pin = l.pin /\ read.base = T /\ read.exp = T
    BY <1>0 DEF Local
  <1>5. Owed(r, read)
    BY <1>3, <1>4 DEF Owed, Untouched, Calm
  <1>6. Fine(r, Failed(r, read, "conflict")) /\ Fine(r, Failed(r, read, "slot"))
    BY <1>0, <1>2, <1>3, <1>4, <1>5, FailedFine DEF Errors, Calm
  <1>7. choice \subseteq Binding \cup {NoBinding}
    BY <1>0, DesiredTyped DEF SelectCurrent, Template
  <1>8. ASSUME ~ Unexpected(l, T), choice # {}
        PROVE  Shape(r, "listCerts", chosen)
    <2>1. /\ chosen.up = l.up /\ chosen.mutated = l.mutated /\ chosen.err = l.err
          /\ chosen.seen = l.seen /\ chosen.attempted = l.attempted /\ chosen.rolled = l.rolled
          /\ chosen.full = l.full /\ chosen.wrote = l.wrote /\ chosen.pin = l.pin
          /\ chosen.base = T /\ chosen.exp = T /\ chosen.cur \in choice
      BY <1>0, <1>8 DEF Local
    <2>2. Pinned(chosen)
      BY <1>8, <2>1 DEF Pinned, Unexpected
    <2> HIDE DEF chosen
    <2> QED
      BY <1>0, <1>3, <2>1, <2>2 DEF Shape, Common, Course, Material, Expected, Calm, Untouched
  <1>9. Fine(r, ok)
    BY <1>6, <1>8
  <1>10. Fine(r, Failed(r, l, "failed"))
    BY <1>0, ErrorFine DEF Errors
  <1>11. Query(c, "inspect", ok, Failed(r, l, "failed"))
    BY DEF Inspect
  <1> HIDE DEF ok
  <1> QED
    BY <1>9, <1>10, <1>11, QueryShaped

LEMMA ListCertsShaped ==
    ASSUME Inv, CallShaped, NEW c \in Callers, ListCerts(c)
    PROVE  CallShaped'
  <1> DEFINE r == call[c]
             l == loc[c]
  <1>0. /\ r \in Request /\ l \in Local /\ running.tmpl[r.tmpl] \in Template
        /\ Shape(r, pc[c], l)
    BY CallFacts
  <1>1. pc[c] = "listCerts"
    BY DEF ListCerts, Query
  <1> DEFINE e == [l EXCEPT !.seen = StoreFiles("cert")]
  <1>2. Shape(r, "listKeys", e)
    BY <1>0, <1>1 DEF Local, Shape, Common, Course, Material, Expected, Calm, Untouched, Pinned
  <1>3. Fine(r, Failed(r, l, "failed"))
    BY <1>0, ErrorFine DEF Errors
  <1> QED
    BY <1>2, <1>3, QueryShaped DEF ListCerts

LEMMA ListKeysShaped ==
    ASSUME Inv, CallShaped, NEW c \in Callers, ListKeys(c)
    PROVE  CallShaped'
  <1> DEFINE r == call[c]
             l == loc[c]
  <1>0. /\ r \in Request /\ l \in Local /\ running.tmpl[r.tmpl] \in Template
        /\ Shape(r, pc[c], l)
    BY CallFacts
  <1>1. pc[c] = "listKeys"
    BY DEF ListKeys, Query
  <1> DEFINE e == [l EXCEPT !.seen = @ \cup StoreFiles("key")]
  <1>2. Shape(r, "listInfo", e)
    BY <1>0, <1>1 DEF Local, Shape, Common, Course, Material, Expected, Calm, Untouched, Pinned
  <1>3. Fine(r, Failed(r, l, "failed"))
    BY <1>0, ErrorFine DEF Errors
  <1> QED
    BY <1>2, <1>3, QueryShaped DEF ListKeys

LEMMA ListInfoShaped ==
    ASSUME Inv, CallShaped, NEW c \in Callers, ListInfo(c)
    PROVE  CallShaped'
  <1> DEFINE r == call[c]
             l == loc[c]
  <1>0. /\ r \in Request /\ l \in Local /\ running.tmpl[r.tmpl] \in Template
        /\ Shape(r, pc[c], l)
    BY CallFacts
  <1>1. pc[c] = "listInfo"
    BY DEF ListInfo, Query
  <1> DEFINE e == [l EXCEPT !.info = StoreFiles("cert")]
  <1>2. e \in Local
    BY <1>0, StoreFilesTyped DEF Local, Inv
  <1>3. Preparing(r, e) /\ e.up = {}
    BY <1>0, <1>1 DEF Local, Preparing, Shape, Common, Course, Expected, Calm, Untouched, Pinned
  <1>4. Fine(r, AfterListing(r, e))
    BY <1>0, <1>2, <1>3, AfterListingFine
  <1>5. Fine(r, Failed(r, l, "failed"))
    BY <1>0, ErrorFine DEF Errors
  <1> QED
    BY <1>4, <1>5, QueryShaped DEF ListInfo

(* What an acknowledged upload adds.  The file was not listed. *)
LEMMA UploadedPreparing ==
    ASSUME NEW r \in Request, NEW l \in Local, NEW at \in Uploading, Shape(r, at, l),
           NEW f \in FilesOf(Desired(r)) \ l.seen
    PROVE  /\ Uploaded(l, f) \in Local
           /\ Preparing(r, Uploaded(l, f))
           /\ Uploaded(l, f).up = l.up \cup {f}
           /\ Uploaded(l, f).seen = l.seen
  <1>1. f \in File
    BY DEF FilesOf, PairOf, ChainOf, Desired, Request, File
  <1>2. Uploaded(l, f) \in Local
    BY <1>1 DEF Uploaded, Local
  <1>3. Untouched(l) \/ Pinned(l)
    BY DEF Shape, Common
  <1>4. ~ r.create => Pinned(l)
    BY DEF Shape, Expected
  <1>5. r.create => l.pin = {}
    BY DEF Shape, Common
  <1>6. Pinned(l)
    BY <1>4, <1>5 DEF Pinned
  <1> QED
    BY <1>2, <1>6 DEF Uploaded, Local, Preparing, Shape, Common, Course, Expected, Calm, Untouched, Pinned

LEMMA UpKeyShaped ==
    ASSUME Inv, CallShaped, NEW c \in Callers, UpKey(c)
    PROVE  CallShaped'
  <1> DEFINE r == call[c]
             l == loc[c]
  <1>0. /\ r \in Request /\ l \in Local /\ running.tmpl[r.tmpl] \in Template
        /\ Shape(r, pc[c], l)
    BY CallFacts
  <1>1. pc[c] = "upKey"
    BY DEF UpKey, Send
  <1> DEFINE f == <<"key", r.name>>
  <1>2. f \in FilesOf(Desired(r)) \ l.seen
    BY <1>0, <1>1 DEF Shape, Material, FilesOf, PairOf, ChainOf, Desired
  <1>3. Fine(r, AfterKey(r, Uploaded(l, f)))
    <2>1. /\ Uploaded(l, f) \in Local /\ Preparing(r, Uploaded(l, f))
          /\ Uploaded(l, f).up = l.up \cup {f} /\ Uploaded(l, f).seen = l.seen
      BY <1>0, <1>1, <1>2, UploadedPreparing
    <2> QED
      BY <1>0, <1>1, <2>1, AfterKeyFine DEF Shape, Material
  <1>4. Fine(r, Failed(r, l, "failed"))
    BY <1>0, ErrorFine DEF Errors
  <1> QED
    BY <1>3, <1>4, SendShaped DEF UpKey

LEMMA UpCertShaped ==
    ASSUME Inv, CallShaped, NEW c \in Callers, UpCert(c)
    PROVE  CallShaped'
  <1> DEFINE r == call[c]
             l == loc[c]
  <1>0. /\ r \in Request /\ l \in Local /\ running.tmpl[r.tmpl] \in Template
        /\ Shape(r, pc[c], l)
    BY CallFacts
  <1>1. pc[c] = "upCert"
    BY DEF UpCert, Send
  <1> DEFINE f == <<"cert", r.name>>
  <1>2. f \in FilesOf(Desired(r)) \ l.seen
    BY <1>0, <1>1 DEF Shape, Material, FilesOf, PairOf, ChainOf, Desired
  <1>3. Fine(r, AfterCert(r, Uploaded(l, f)))
    <2>1. /\ Uploaded(l, f) \in Local /\ Preparing(r, Uploaded(l, f))
          /\ Uploaded(l, f).up = l.up \cup {f} /\ Uploaded(l, f).seen = l.seen
      BY <1>0, <1>1, <1>2, UploadedPreparing
    <2>2. PairOf(Desired(r)) = {<<"cert", r.name>>, <<"key", r.name>>}
      BY DEF PairOf, Desired
    <2>3. l.up \subseteq {<<"key", r.name>>} /\ <<"key", r.name>> \in l.seen \cup l.up
      BY <1>0, <1>1 DEF Shape, Material
    <2>4. /\ Uploaded(l, f).up \subseteq PairOf(Desired(r))
          /\ PairOf(Desired(r)) \subseteq Uploaded(l, f).seen \cup Uploaded(l, f).up
      BY <2>1, <2>2, <2>3
    <2> QED
      BY <1>0, <2>1, <2>4, AfterCertFine
  <1>4. Fine(r, Failed(r, l, "failed"))
    BY <1>0, ErrorFine DEF Errors
  <1> QED
    BY <1>3, <1>4, SendShaped DEF UpCert

LEMMA UpChainShaped ==
    ASSUME Inv, CallShaped, NEW c \in Callers, UpChain(c)
    PROVE  CallShaped'
  <1> DEFINE r == call[c]
             l == loc[c]
  <1>0. /\ r \in Request /\ l \in Local /\ running.tmpl[r.tmpl] \in Template
        /\ Shape(r, pc[c], l)
    BY CallFacts
  <1>1. pc[c] = "upChain"
    BY DEF UpChain, Send
  <1> DEFINE f == <<"cert", r.chain>>
  <1>2. r.chain # NoName
    BY <1>1 DEF Inv, LocalsFit, Fits
  <1>3. FilesOf(Desired(r)) = {<<"cert", r.name>>, <<"key", r.name>>, f}
    BY <1>2 DEF FilesOf, PairOf, ChainOf, Desired
  <1>4. f \in FilesOf(Desired(r)) \ l.seen
    BY <1>0, <1>1, <1>3 DEF Shape, Material
  <1>5. Fine(r, Ready(r, Uploaded(l, f)))
    <2>1. /\ Uploaded(l, f) \in Local /\ Preparing(r, Uploaded(l, f))
          /\ Uploaded(l, f).up = l.up \cup {f} /\ Uploaded(l, f).seen = l.seen
      BY <1>0, <1>1, <1>4, UploadedPreparing
    <2>2. FilesOf(Desired(r)) \subseteq Uploaded(l, f).seen \cup Uploaded(l, f).up
      BY <1>0, <1>1, <1>3, <2>1 DEF Shape, Material
    <2> QED
      BY <1>0, <2>1, <2>2, ReadyFine
  <1>6. Fine(r, Failed(r, l, "failed"))
    BY <1>0, ErrorFine DEF Errors
  <1> QED
    BY <1>5, <1>6, SendShaped DEF UpChain

LEMMA PreBindShaped ==
    ASSUME Inv, CallShaped, NEW c \in Callers, PreBind(c)
    PROVE  CallShaped'
  <1> DEFINE r == call[c]
             l == loc[c]
  <1>0. /\ r \in Request /\ l \in Local /\ running.tmpl[r.tmpl] \in Template
        /\ Shape(r, pc[c], l)
    BY CallFacts
  <1>1. pc[c] = "preBind"
    BY DEF PreBind, Query
  <1> DEFINE next == IF Desired(r) \in l.base.certs THEN "verifyBound" ELSE "bind"
  <1>2. Shape(r, next, l)
    BY <1>0, <1>1 DEF Shape, Course, Material, Expected
  <1>3. Fine(r, Require(r, l, Go(next, l)))
    BY <1>0, <1>1, <1>2, RequireFine
  <1>4. Fine(r, Failed(r, l, "failed"))
    BY <1>0, ErrorFine DEF Errors
  <1> QED
    BY <1>3, <1>4, QueryShaped DEF PreBind

LEMMA BindShaped ==
    ASSUME Inv, CallShaped, NEW c \in Callers, Bind(c)
    PROVE  CallShaped'
  <1> DEFINE r == call[c]
             l == loc[c]
  <1>0. /\ r \in Request /\ l \in Local /\ running.tmpl[r.tmpl] \in Template
        /\ Shape(r, pc[c], l)
    BY CallFacts
  <1>1. pc[c] = "bind"
    BY DEF Bind, Send
  <1> DEFINE e == [l EXCEPT !.mutated = TRUE]
             f == [e EXCEPT !.bindFailed = TRUE]
  <1>2. ~ r.create /\ Pinned(l)
    BY <1>0, <1>1 DEF Shape, Course, Expected
  <1>3. Shape(r, "readBack", e) /\ Shape(r, "readBack", f)
    BY <1>0, <1>1, <1>2 DEF Local, Shape, Common, Course, Material, Expected, Calm, Untouched, Pinned
  <1> HIDE DEF e, f
  <1>4. Send(c, "bind", BindOf(r.tmpl, Desired(r)), Go("readBack", e), Go("readBack", f))
    BY DEF Bind, e, f
  <1> QED
    BY <1>3, <1>4, SendShaped

LEMMA ReadBackShaped ==
    ASSUME Inv, CallShaped, NEW c \in Callers, ReadBack(c)
    PROVE  CallShaped'
  <1> DEFINE r == call[c]
             l == loc[c]
  <1>0. /\ r \in Request /\ l \in Local /\ running.tmpl[r.tmpl] \in Template
        /\ Shape(r, pc[c], l)
    BY CallFacts
  <1>1. pc[c] = "readBack"
    BY DEF ReadBack, Query
  <1> DEFINE T == running.tmpl[r.tmpl]
             appended == WithBinding(l.base, Desired(r))
             replaced == WithoutCertificate(appended, l.cur.cert)
             bound == [l EXCEPT !.exp = T, !.changed = TRUE, !.stage = "bound"]
             ok == IF T = appended THEN AfterBinding(r, bound, FALSE)
                   ELSE IF Replaces(r, l) /\ T = replaced THEN AfterBinding(r, bound, TRUE)
                   ELSE IF ~ l.bindFailed THEN Failed(r, l, "conflict")
                   ELSE Failed(r, l, IF T = l.base THEN "failed" ELSE "ambiguous")
             bad == Failed(r, l, IF l.bindFailed THEN "ambiguous" ELSE "failed")
  <1>2. bound \in Local
    BY <1>0 DEF Local, Stages
  <1>3. /\ bound.cur = l.cur /\ bound.base = l.base /\ bound.exp = T /\ bound.mutated = l.mutated
        /\ bound.wrote = l.wrote
    BY <1>0 DEF Local
  <1>4. OnCourse(r, bound) /\ ~ bound.wrote
    BY <1>0, <1>1 DEF Local, OnCourse, Shape, Common, Course, Expected, Calm, Untouched, Pinned
  <1>5. T = appended => Fine(r, AfterBinding(r, bound, FALSE))
    BY <1>0, <1>2, <1>3, <1>4, AfterBindingFine
  <1>6. Replaces(r, l) /\ T = replaced => Fine(r, AfterBinding(r, bound, TRUE))
    <2>1. Replaces(r, l) /\ T = replaced => Replaces(r, bound) /\ bound.exp = Rotated(r, bound)
      BY <1>3 DEF Replaces, Rotated
    <2> QED
      BY <1>0, <1>2, <1>4, <2>1, AfterBindingFine
  <1>7. \A e \in {"failed", "conflict", "ambiguous"} : Fine(r, Failed(r, l, e))
    BY <1>0, <1>1, ErrorFine DEF Errors
  <1>8. Fine(r, ok) /\ Fine(r, bad)
    BY <1>5, <1>6, <1>7
  <1>9. Query(c, "readBack", ok, bad)
    BY DEF ReadBack
  <1> HIDE DEF ok, bad
  <1> QED
    BY <1>8, <1>9, QueryShaped

LEMMA VerifyBoundShaped ==
    ASSUME Inv, CallShaped, NEW c \in Callers, VerifyBound(c)
    PROVE  CallShaped'
  <1> DEFINE r == call[c]
             l == loc[c]
  <1>0. /\ r \in Request /\ l \in Local /\ running.tmpl[r.tmpl] \in Template
        /\ Shape(r, pc[c], l)
    BY CallFacts
  <1>1. pc[c] = "verifyBound"
    BY DEF VerifyBound, Query
  <1>2. OnCourse(r, l) /\ ~ l.wrote
    BY <1>0, <1>1 DEF OnCourse, Shape, Course, Expected
  <1>3. l.exp = WithBinding(l.base, Desired(r))
    <2>1. l.exp = l.base /\ Desired(r) \in l.base.certs /\ l.base \in Template
      BY <1>0, <1>1 DEF Shape, Course, Expected, Local
    <2> QED
      BY <2>1 DEF WithBinding, Template
  <1>4. Fine(r, AfterBinding(r, l, FALSE))
    BY <1>0, <1>2, <1>3, AfterBindingFine
  <1>5. Fine(r, Require(r, l, AfterBinding(r, l, FALSE)))
    BY <1>0, <1>1, <1>4, RequireFine
  <1>6. Fine(r, Failed(r, l, "failed"))
    BY <1>0, ErrorFine DEF Errors
  <1> QED
    BY <1>5, <1>6, QueryShaped DEF VerifyBound

LEMMA PreUnbindShaped ==
    ASSUME Inv, CallShaped, NEW c \in Callers, PreUnbind(c)
    PROVE  CallShaped'
  <1> DEFINE r == call[c]
             l == loc[c]
  <1>0. /\ r \in Request /\ l \in Local /\ running.tmpl[r.tmpl] \in Template
        /\ Shape(r, pc[c], l)
    BY CallFacts
  <1>1. pc[c] = "preUnbind"
    BY DEF PreUnbind, Query
  <1>2. Shape(r, "unbind", l)
    BY <1>0, <1>1 DEF Shape, Course, Material, Expected
  <1>3. Fine(r, Require(r, l, Go("unbind", l)))
    BY <1>0, <1>1, <1>2, RequireFine
  <1>4. Fine(r, Failed(r, l, "failed"))
    BY <1>0, ErrorFine DEF Errors
  <1> QED
    BY <1>3, <1>4, QueryShaped DEF PreUnbind

LEMMA UnbindShaped ==
    ASSUME Inv, CallShaped, NEW c \in Callers, Unbind(c)
    PROVE  CallShaped'
  <1> DEFINE r == call[c]
             l == loc[c]
  <1>0. /\ r \in Request /\ l \in Local /\ running.tmpl[r.tmpl] \in Template
        /\ Shape(r, pc[c], l)
    BY CallFacts
  <1>1. pc[c] = "unbind"
    BY DEF Unbind, Send
  <1> DEFINE e == [l EXCEPT !.exp = WithoutCertificate(@, l.cur.cert)]
  <1>2. ~ r.create /\ Replaces(r, l) /\ l.exp = WithBinding(l.base, Desired(r))
    BY <1>0, <1>1 DEF Shape, Course, Expected
  <1>3. /\ e.exp = WithoutCertificate(l.exp, l.cur.cert) /\ e.cur = l.cur /\ e.base = l.base
    BY <1>0 DEF Local
  <1>4. e.exp = Rotated(r, e) /\ Replaces(r, e)
    BY <1>2, <1>3 DEF Rotated, Replaces
  <1>5. Shape(r, "postUnbind", e)
    <2>1. Common(r, e) /\ Course(r, "postUnbind", e) /\ Material(r, "postUnbind", e)
      BY <1>0, <1>1 DEF Local, Shape, Common, Course, Material, Expected, Calm, Untouched, Pinned
    <2>2. Expected(r, "postUnbind", e)
      <3>1. /\ e.cur = l.cur /\ e.base = l.base /\ e.pin = l.pin /\ e.mutated = l.mutated
            /\ e.full = l.full
        BY <1>0 DEF Local
      <3> HIDE DEF e
      <3> QED
        BY <1>0, <1>1, <1>4, <3>1 DEF Shape, Expected, Pinned
    <2> QED
      BY <2>1, <2>2 DEF Shape
  <1>6. Fine(r, Failed(r, l, "failed"))
    BY <1>0, ErrorFine DEF Errors
  <1> QED
    BY <1>5, <1>6, SendShaped DEF Unbind

LEMMA PostUnbindShaped ==
    ASSUME Inv, CallShaped, NEW c \in Callers, PostUnbind(c)
    PROVE  CallShaped'
  <1> DEFINE r == call[c]
             l == loc[c]
  <1>0. /\ r \in Request /\ l \in Local /\ running.tmpl[r.tmpl] \in Template
        /\ Shape(r, pc[c], l)
    BY CallFacts
  <1>1. pc[c] = "postUnbind"
    BY DEF PostUnbind, Query
  <1>2. InPlace(r, l) /\ ~ l.wrote
    BY <1>0, <1>1 DEF InPlace, OnCourse, Shape, Course, Expected
  <1>3. Fine(r, OldBindingRemoved(r, l))
    BY <1>0, <1>2, OldBindingRemovedFine
  <1>4. Fine(r, Require(r, l, OldBindingRemoved(r, l)))
    BY <1>0, <1>1, <1>3, RequireFine
  <1>5. Fine(r, Failed(r, l, "failed"))
    BY <1>0, ErrorFine DEF Errors
  <1> QED
    BY <1>4, <1>5, QueryShaped DEF PostUnbind

LEMMA PrePersistShaped ==
    ASSUME Inv, CallShaped, NEW c \in Callers, PrePersist(c)
    PROVE  CallShaped'
  <1> DEFINE r == call[c]
             l == loc[c]
  <1>0. /\ r \in Request /\ l \in Local /\ running.tmpl[r.tmpl] \in Template
        /\ Shape(r, pc[c], l)
    BY CallFacts
  <1>1. pc[c] = "prePersist"
    BY DEF PrePersist, Query
  <1>2. Shape(r, "persist", l)
    BY <1>0, <1>1 DEF Shape, Course, Material, Expected
  <1>3. Fine(r, Require(r, l, Go("persist", l)))
    BY <1>0, <1>1, <1>2, RequireFine
  <1>4. Fine(r, Failed(r, l, "failed"))
    BY <1>0, ErrorFine DEF Errors
  <1> QED
    BY <1>3, <1>4, QueryShaped DEF PrePersist

LEMMA PersistShaped ==
    ASSUME Inv, CallShaped, NEW c \in Callers, Persist(c)
    PROVE  CallShaped'
  <1> DEFINE r == call[c]
             l == loc[c]
  <1>0. /\ r \in Request /\ l \in Local /\ running.tmpl[r.tmpl] \in Template
        /\ Shape(r, pc[c], l)
    BY CallFacts
  <1>1. pc[c] = "persist"
    BY DEF Persist, Send
  <1> DEFINE e == [l EXCEPT !.wrote = TRUE, !.stage = "persisted"]
             f == [l EXCEPT !.full = TRUE]
  <1>2. e \in Local /\ e.wrote
    BY <1>0 DEF Local, Stages
  <1>3. InPlace(r, e)
    BY <1>0, <1>1 DEF Local, InPlace, OnCourse, Shape, Common, Course, Expected, Calm, Untouched, Pinned, Rotated, Replaces
  <1>4. Fine(r, Cleanup(r, e))
    BY <1>0, <1>2, <1>3, CleanupFine
  <1>5. Shape(r, "rbInspect", f)
    BY <1>0, <1>1 DEF Local, Shape, Common, Course, Material, Expected, Calm, Untouched, Pinned
  <1> HIDE DEF e, f
  <1>6. Send(c, "persist", WriteMemory, Cleanup(r, e), Go("rbInspect", f))
    BY DEF Persist, e, f
  <1> QED
    BY <1>4, <1>5, <1>6, SendShaped

LEMMA ScanClientShaped ==
    ASSUME Inv, CallShaped, NEW c \in Callers, ScanClient(c)
    PROVE  CallShaped'
  <1> DEFINE r == call[c]
             l == loc[c]
  <1>0. /\ r \in Request /\ l \in Local /\ running.tmpl[r.tmpl] \in Template
        /\ Shape(r, pc[c], l)
    BY CallFacts
  <1>1. pc[c] = "scanClient"
    BY DEF ScanClient, Query
  <1> DEFINE e == [l EXCEPT !.refs = ClientNames(c)]
  <1>2. Shape(r, "scanServer", e)
    BY <1>0, <1>1 DEF Local, Shape, Common, Course, Material, Expected, Calm, Untouched, Pinned, Rotated, Replaces
  <1>3. Fine(r, Failed(r, l, "failed"))
    BY <1>0, ErrorFine DEF Errors
  <1> QED
    BY <1>2, <1>3, QueryShaped DEF ScanClient

LEMMA ScanServerShaped ==
    ASSUME Inv, CallShaped, NEW c \in Callers, ScanServer(c)
    PROVE  CallShaped'
  <1> DEFINE r == call[c]
             l == loc[c]
  <1>0. /\ r \in Request /\ l \in Local /\ running.tmpl[r.tmpl] \in Template
        /\ Shape(r, pc[c], l)
    BY CallFacts
  <1>1. pc[c] = "scanServer"
    BY DEF ScanServer, Query
  <1> DEFINE e == [l EXCEPT !.refs = @ \cup NamesIn(running.server)]
  <1>2. e \in Local
    <2>1. NamesIn(running.server) \subseteq Names
      BY DEF Inv, TypeOK, Config, NamesIn, File
    <2> QED
      BY <1>0, <2>1 DEF Local
  <1>3. Shape(r, "scanServer", e)
    BY <1>0, <1>1 DEF Local, Shape, Common, Course, Material, Expected, Calm, Untouched, Pinned, Rotated, Replaces
  <1>4. Fine(r, AfterScan(r, e))
    BY <1>0, <1>2, <1>3, AfterScanFine
  <1>5. Fine(r, Failed(r, l, "failed"))
    BY <1>0, ErrorFine DEF Errors
  <1> QED
    BY <1>4, <1>5, QueryShaped DEF ScanServer

LEMMA DeletePairShaped ==
    ASSUME Inv, CallShaped, NEW c \in Callers, DeletePair(c)
    PROVE  CallShaped'
  <1> DEFINE r == call[c]
             l == loc[c]
  <1>0. /\ r \in Request /\ l \in Local /\ running.tmpl[r.tmpl] \in Template
        /\ Shape(r, pc[c], l)
    BY CallFacts
  <1>1. pc[c] = "deletePair"
    BY DEF DeletePair, Send
  <1> DEFINE doomed == DoomedPair(r, l)
             e == [l EXCEPT !.deleted = doomed]
  <1>2. e \in Local
    <2>1. l.cur # NoBinding
      BY <1>1 DEF Inv, LocalsFit, Fits, Retiring
    <2>2. doomed \in SUBSET File
      BY <1>0, <2>1, DoomedTyped
    <2> HIDE DEF doomed
    <2> QED
      BY <1>0, <2>2 DEF Local
  <1>3. Shape(r, "deletePair", e)
    BY <1>0, <1>1 DEF Local, Shape, Common, Course, Material, Expected, Calm, Untouched, Pinned, Rotated, Replaces
  <1>4. Fine(r, AfterPair(r, e))
    BY <1>0, <1>2, <1>3, AfterPairFine
  <1>5. Fine(r, Failed(r, l, "failed"))
    BY <1>0, ErrorFine DEF Errors
  <1> QED
    BY <1>4, <1>5, SendShaped DEF DeletePair

LEMMA DeleteChainShaped ==
    ASSUME Inv, CallShaped, NEW c \in Callers, DeleteChain(c)
    PROVE  CallShaped'
  <1> DEFINE r == call[c]
             l == loc[c]
  <1>0. /\ r \in Request /\ l \in Local /\ running.tmpl[r.tmpl] \in Template
        /\ Shape(r, pc[c], l)
    BY CallFacts
  <1>1. pc[c] = "deleteChain"
    BY DEF DeleteChain, Send
  <1> DEFINE doomed == DoomedChain(r, l)
             e == [l EXCEPT !.deleted = @ \cup doomed]
  <1>2. e \in Local
    <2>1. l.cur # NoBinding
      BY <1>1 DEF Inv, LocalsFit, Fits, Retiring
    <2>2. doomed \in SUBSET File
      BY <1>0, <2>1, DoomedTyped
    <2> HIDE DEF doomed
    <2> QED
      BY <1>0, <2>2 DEF Local
  <1>3. Shape(r, "deleteChain", e)
    BY <1>0, <1>1 DEF Local, Shape, Common, Course, Material, Expected, Calm, Untouched, Pinned, Rotated, Replaces
  <1>4. Fine(r, AfterCleanup(r, e))
    BY <1>0, <1>2, <1>3, AfterCleanupFine
  <1>5. Fine(r, Failed(r, l, "failed"))
    BY <1>0, ErrorFine DEF Errors
  <1> QED
    BY <1>4, <1>5, SendShaped DEF DeleteChain

LEMMA PersistCleanupShaped ==
    ASSUME Inv, CallShaped, NEW c \in Callers, PersistCleanup(c)
    PROVE  CallShaped'
  <1> DEFINE r == call[c]
             l == loc[c]
  <1>0. /\ r \in Request /\ l \in Local /\ running.tmpl[r.tmpl] \in Template
        /\ Shape(r, pc[c], l)
    BY CallFacts
  <1>1. pc[c] = "persistCleanup"
    BY DEF PersistCleanup, Send
  <1>2. Fine(r, Complete(l))
    BY <1>0, <1>1, CleaningFine, CompleteFine
  <1>3. Fine(r, Failed(r, l, "failed"))
    BY <1>0, ErrorFine DEF Errors
  <1> QED
    BY <1>2, <1>3, SendShaped DEF PersistCleanup

LEMMA CreatePersistShaped ==
    ASSUME Inv, CallShaped, NEW c \in Callers, CreatePersist(c)
    PROVE  CallShaped'
  <1> DEFINE r == call[c]
             l == loc[c]
  <1>0. /\ r \in Request /\ l \in Local /\ running.tmpl[r.tmpl] \in Template
        /\ Shape(r, pc[c], l)
    BY CallFacts
  <1>1. pc[c] = "createPersist"
    BY DEF CreatePersist, Send
  <1> DEFINE e == [l EXCEPT !.wrote = TRUE]
             f == [l EXCEPT !.attempted = TRUE]
  <1>2. r.create
    BY <1>0, <1>1 DEF Shape, Course
  <1>3. e \in Local /\ f \in Local
    BY <1>0 DEF Local
  <1>4. /\ Common(r, e) /\ Calm(e) /\ ~ e.full /\ FilesOf(Desired(r)) \subseteq e.seen \cup e.up
    BY <1>0, <1>1 DEF Local, Shape, Common, Course, Material, Calm, Untouched, Pinned
  <1>5. Fine(r, Complete(e))
    BY <1>0, <1>2, <1>3, <1>4, CompleteFine
  <1>6. Owed(r, f)
    BY <1>0, <1>1, <1>2 DEF Local, Owed, Shape, Common, Untouched, Pinned
  <1>7. Fine(r, Failed(r, f, "failed"))
    BY <1>0, <1>3, <1>6, FailedFine DEF Errors
  <1> HIDE DEF e, f
  <1>8. Send(c, "createPersist", WriteMemory, Complete(e), Failed(r, f, "failed"))
    BY DEF CreatePersist, e, f
  <1> QED
    BY <1>5, <1>7, <1>8, SendShaped

LEMMA RbInspectShaped ==
    ASSUME Inv, CallShaped, NEW c \in Callers, RbInspect(c)
    PROVE  CallShaped'
  <1> DEFINE r == call[c]
             l == loc[c]
  <1>0. /\ r \in Request /\ l \in Local /\ running.tmpl[r.tmpl] \in Template
        /\ Shape(r, pc[c], l)
    BY CallFacts
  <1>1. pc[c] = "rbInspect"
    BY DEF RbInspect, Query
  <1> DEFINE T == running.tmpl[r.tmpl]
             ok == IF T # l.exp THEN Failed(r, l, "rollback")
                   ELSE IF ~ Bound(l.base, r.name)
                     THEN IF PreviousBinding(l.base, r.current) \subseteq T.certs
                            THEN RemoveDesired(r, l)
                            ELSE Go("rbBind", l)
                   ELSE IF Desired(r) \in l.base.certs THEN Go("rbVerify", l)
                   ELSE Failed(r, l, "rollback")
  <1>2. ~ Bound(l.base, r.name) => Shape(r, "rbReread", l) /\ Shape(r, "rbBind", l)
    BY <1>0, <1>1 DEF Shape, Course, Material, Expected
  <1>3. ~ Bound(l.base, r.name) => Fine(r, RemoveDesired(r, l))
    BY <1>0, <1>2, RemoveDesiredFine
  <1>4. Shape(r, "rbVerify", l)
    BY <1>0, <1>1 DEF Shape, Course, Material, Expected
  <1>5. Fine(r, Failed(r, l, "rollback"))
    BY <1>0, ErrorFine DEF Errors
  <1>6. Fine(r, ok)
    BY <1>2, <1>3, <1>4, <1>5
  <1>7. Query(c, "rbInspect", ok, Failed(r, l, "rollback"))
    BY DEF RbInspect
  <1> HIDE DEF ok
  <1> QED
    BY <1>5, <1>6, <1>7, QueryShaped

LEMMA RbBindShaped ==
    ASSUME Inv, CallShaped, NEW c \in Callers, RbBind(c)
    PROVE  CallShaped'
  <1> DEFINE r == call[c]
             l == loc[c]
  <1>0. /\ r \in Request /\ l \in Local /\ running.tmpl[r.tmpl] \in Template
        /\ Shape(r, pc[c], l)
    BY CallFacts
  <1>1. pc[c] = "rbBind"
    BY DEF RbBind, Send
  <1>2. Shape(r, "rbReread", l)
    BY <1>0, <1>1 DEF Shape, Course, Material, Expected
  <1>3. Fine(r, Failed(r, l, "rollback"))
    BY <1>0, ErrorFine DEF Errors
  <1> QED
    BY <1>2, <1>3, SendShaped DEF RbBind

LEMMA RbRereadShaped ==
    ASSUME Inv, CallShaped, NEW c \in Callers, RbReread(c)
    PROVE  CallShaped'
  <1> DEFINE r == call[c]
             l == loc[c]
  <1>0. /\ r \in Request /\ l \in Local /\ running.tmpl[r.tmpl] \in Template
        /\ Shape(r, pc[c], l)
    BY CallFacts
  <1>1. pc[c] = "rbReread"
    BY DEF RbReread, Query
  <1>2. Fine(r, RemoveDesired(r, l))
    BY <1>0, <1>1, RemoveDesiredFine
  <1>3. Fine(r, Failed(r, l, "rollback"))
    BY <1>0, ErrorFine DEF Errors
  <1> QED
    BY <1>2, <1>3, QueryShaped DEF RbReread

LEMMA RbUnbindShaped ==
    ASSUME Inv, CallShaped, NEW c \in Callers, RbUnbind(c)
    PROVE  CallShaped'
  <1> DEFINE r == call[c]
             l == loc[c]
  <1>0. /\ r \in Request /\ l \in Local /\ running.tmpl[r.tmpl] \in Template
        /\ Shape(r, pc[c], l)
    BY CallFacts
  <1>1. pc[c] = "rbUnbind"
    BY DEF RbUnbind, Send
  <1>2. Shape(r, "rbVerify", l)
    BY <1>0, <1>1 DEF Shape, Course, Material, Expected
  <1>3. Fine(r, Failed(r, l, "rollback"))
    BY <1>0, ErrorFine DEF Errors
  <1> QED
    BY <1>2, <1>3, SendShaped DEF RbUnbind

LEMMA RbVerifyShaped ==
    ASSUME Inv, CallShaped, NEW c \in Callers, RbVerify(c)
    PROVE  CallShaped'
  <1> DEFINE r == call[c]
             l == loc[c]
  <1>0. /\ r \in Request /\ l \in Local /\ running.tmpl[r.tmpl] \in Template
        /\ Shape(r, pc[c], l)
    BY CallFacts
  <1>1. pc[c] = "rbVerify"
    BY DEF RbVerify, Query
  <1>2. Shape(r, "undoPair", l)
    BY <1>0, <1>1 DEF Shape, Course, Material, Expected
  <1>3. Fine(r, Undo(r, l))
    BY <1>0, <1>2, UndoFine
  <1>4. Fine(r, Failed(r, l, "rollback"))
    BY <1>0, ErrorFine DEF Errors
  <1> QED
    BY <1>3, <1>4, QueryShaped DEF RbVerify

LEMMA RbPersistShaped ==
    ASSUME Inv, CallShaped, NEW c \in Callers, RbPersist(c)
    PROVE  CallShaped'
  <1> DEFINE r == call[c]
             l == loc[c]
  <1>0. /\ r \in Request /\ l \in Local /\ running.tmpl[r.tmpl] \in Template
        /\ Shape(r, pc[c], l)
    BY CallFacts
  <1>1. pc[c] = "rbPersist"
    BY DEF RbPersist, Send
  <1> DEFINE e == [l EXCEPT !.rolled = TRUE, !.stage = "rolled-back"]
  <1>2. e \in Local
    BY <1>0 DEF Local, Stages
  <1>3. Owed(r, e)
    BY <1>0, <1>1 DEF Local, Owed, Shape, Common, Untouched, Pinned
  <1>4. Fine(r, Failed(r, e, "failed"))
    BY <1>0, <1>2, <1>3, FailedFine DEF Errors
  <1>5. Fine(r, Failed(r, l, "rollback"))
    BY <1>0, ErrorFine DEF Errors
  <1> HIDE DEF e
  <1>6. Send(c, "rbPersist", WriteMemory, Failed(r, e, "failed"), Failed(r, l, "rollback"))
    BY DEF RbPersist, e
  <1> QED
    BY <1>4, <1>5, <1>6, SendShaped

LEMMA UndoPairShaped ==
    ASSUME Inv, CallShaped, NEW c \in Callers, UndoPair(c)
    PROVE  CallShaped'
  <1> DEFINE r == call[c]
             l == loc[c]
  <1>0. /\ r \in Request /\ l \in Local /\ running.tmpl[r.tmpl] \in Template
        /\ Shape(r, pc[c], l)
    BY CallFacts
  <1>1. pc[c] = "undoPair"
    BY DEF UndoPair, Send
  <1>2. \A next \in Undoing : Shape(r, next, l)
    BY <1>0, <1>1, UndoFine
  <1>3. Fine(r, UndoFailed(r, l))
    BY <1>0, <1>1, UndoFailedFine
  <1> QED
    BY <1>2, <1>3, SendShaped DEF UndoPair

LEMMA UndoChainShaped ==
    ASSUME Inv, CallShaped, NEW c \in Callers, UndoChain(c)
    PROVE  CallShaped'
  <1> DEFINE r == call[c]
             l == loc[c]
  <1>0. /\ r \in Request /\ l \in Local /\ running.tmpl[r.tmpl] \in Template
        /\ Shape(r, pc[c], l)
    BY CallFacts
  <1>1. pc[c] = "undoChain"
    BY DEF UndoChain, Send
  <1>4. Shape(r, "undoPair", l)
    BY <1>0, <1>1 DEF Shape, Course, Material, Expected
  <1>2. \A next \in Undoing : Shape(r, next, l)
    BY <1>0, <1>4, UndoFine
  <1>3. Fine(r, UndoFailed(r, l))
    BY <1>0, <1>1, UndoFailedFine
  <1> QED
    BY <1>2, <1>3, SendShaped DEF UndoChain

LEMMA UndoCertsShaped ==
    ASSUME Inv, CallShaped, NEW c \in Callers, UndoCerts(c)
    PROVE  CallShaped'
  <1> DEFINE r == call[c]
             l == loc[c]
  <1>0. /\ r \in Request /\ l \in Local /\ running.tmpl[r.tmpl] \in Template
        /\ Shape(r, pc[c], l)
    BY CallFacts
  <1>1. pc[c] = "undoCerts"
    BY DEF UndoCerts, Query
  <1> DEFINE e == [l EXCEPT !.info = StoreFiles("cert")]
  <1>2. Shape(r, "undoKeys", e)
    BY <1>0, <1>1 DEF Local, Shape, Common, Course, Material, Expected, Calm, Untouched, Pinned
  <1>3. Fine(r, UndoFailed(r, l))
    BY <1>0, <1>1, UndoFailedFine
  <1> HIDE DEF e
  <1>4. Query(c, "undoCerts", Go("undoKeys", e), UndoFailed(r, l))
    BY DEF UndoCerts, e
  <1> QED
    BY <1>2, <1>3, <1>4, QueryShaped

LEMMA UndoKeysShaped ==
    ASSUME Inv, CallShaped, NEW c \in Callers, UndoKeys(c)
    PROVE  CallShaped'
  <1> DEFINE r == call[c]
             l == loc[c]
  <1>0. /\ r \in Request /\ l \in Local /\ running.tmpl[r.tmpl] \in Template
        /\ Shape(r, pc[c], l)
    BY CallFacts
  <1>1. pc[c] = "undoKeys"
    BY DEF UndoKeys, Query
  <1>2. Fine(r, Undone(l))
    BY <1>0, <1>1, UndoneFine
  <1>3. Fine(r, UndoFailed(r, l))
    BY <1>0, <1>1, UndoFailedFine
  <1> QED
    BY <1>2, <1>3, QueryShaped DEF UndoKeys

LEMMA UndoPersistShaped ==
    ASSUME Inv, CallShaped, NEW c \in Callers, UndoPersist(c)
    PROVE  CallShaped'
  <1> DEFINE r == call[c]
             l == loc[c]
  <1>0. /\ r \in Request /\ l \in Local /\ running.tmpl[r.tmpl] \in Template
        /\ Shape(r, pc[c], l)
    BY CallFacts
  <1>1. pc[c] = "undoPersist"
    BY DEF UndoPersist, Send
  <1> DEFINE e == [l EXCEPT !.rolled = TRUE, !.stage = "rolled-back"]
             f == [l EXCEPT !.err = "rollback"]
  <1>2. Shape(r, "logoff", e) /\ Shape(r, "logoff", f)
    BY <1>0, <1>1 DEF Local, Shape, Common, Course, Material, Expected, Calm, Untouched, Pinned
  <1> HIDE DEF e, f
  <1>3. Send(c, "undoPersist", WriteMemory, Go("logoff", e), Go("logoff", f))
    BY DEF UndoPersist, e, f
  <1> QED
    BY <1>2, <1>3, SendShaped

----------------------------------------------------------------------------
(* The beginning and the end of a call, and what happens around it.        *)

LEMMA FreshShaped ==
    ASSUME NEW c \in Callers, NEW r \in Requests[c], NEW at \in {"idle", "lock"}
    PROVE  /\ Shape(r, at, Fresh({}))
           /\ Shape(r, at, Fresh(IF r.pinned THEN {running.tmpl[r.tmpl]} ELSE {}))
  <1>1. r.create => ~ r.pinned
    BY PinAssumption
  <1> QED
    BY <1>1 DEF Fresh, Shape, Common, Course, Material, Expected, Calm, Untouched, Pinned

LEMMA InvokeShaped ==
    ASSUME Inv, CallShaped, NEW c \in Callers, Invoke(c)
    PROVE  CallShaped'
  <1>1. PICK r \in Requests[c] :
            /\ call' = [call EXCEPT ![c] = r]
            /\ Take(c, Go("lock", Fresh(IF r.pinned THEN {running.tmpl[r.tmpl]} ELSE {})))
    BY DEF Invoke
  <1> DEFINE f == Fresh(IF r.pinned THEN {running.tmpl[r.tmpl]} ELSE {})
  <1>2. Shape(r, "lock", f)
    BY FreshShaped
  <1> HIDE DEF f
  <1>3. call'[c] = r /\ pc'[c] = "lock" /\ loc'[c] = f
    BY <1>1 DEF Take, Inv, TypeOK, f
  <1>4. \A d \in Callers \ {c} : call'[d] = call[d] /\ pc'[d] = pc[d] /\ loc'[d] = loc[d]
    BY <1>1 DEF Take, Inv, TypeOK
  <1> QED
    BY <1>2, <1>3, <1>4 DEF CallShaped

LEMMA RetryShaped ==
    ASSUME Inv, CallShaped, NEW c \in Callers, Retry(c)
    PROVE  CallShaped'
  <1>1. Fine(call[c], Go("lock", Fresh({})))
    BY FreshShaped DEF CallShaped
  <1> QED
    BY <1>1, TakeShaped DEF Retry

LEMMA LockShaped ==
    ASSUME Inv, CallShaped, NEW c \in Callers, Lock(c)
    PROVE  CallShaped'
  <1>1. Shape(call[c], "auth", loc[c]) /\ Shape(call[c], "version", loc[c])
    BY CallFacts DEF Lock, Shape, Course, Material, Expected
  <1> QED
    BY <1>1, TakeShaped DEF Lock

(* The locals are gone with the call. *)
LEMMA ReturnedShaped ==
    ASSUME NEW r, NEW l \in Local, l.up = {}, ~ l.mutated, l.pin = {}, ~ l.attempted, ~ l.full
    PROVE  Shape(r, "returned", l)
  BY DEF Shape, Common, Course, Material, Expected, Untouched

LEMMA AuthShaped ==
    ASSUME Inv, CallShaped, NEW c \in Callers, Auth(c)
    PROVE  CallShaped'
  <1> DEFINE r == call[c]
             l == loc[c]
             e == [l EXCEPT !.err = "failed"]
  <1>0. r \in Request /\ l \in Local /\ Shape(r, pc[c], l) /\ pc[c] = "auth"
    BY CallFacts DEF Auth
  <1>1. Shape(r, "version", l)
    BY <1>0 DEF Shape, Course, Material, Expected
  <1>2. Shape(r, "returned", e)
    BY <1>0 DEF Local, Shape, Common, Course, Material, Expected, Calm, Untouched, Pinned
  <1> HIDE DEF e
  <1>3. UNCHANGED call /\ (Take(c, Go("version", l)) \/ Take(c, Go("returned", e)))
    BY DEF Auth, e
  <1>4. CASE Take(c, Go("version", l))
    BY <1>1, <1>3, <1>4, TakeShaped
  <1>5. CASE Take(c, Go("returned", e))
    BY <1>2, <1>3, <1>5, TakeShaped
  <1> QED
    BY <1>3, <1>4, <1>5

LEMMA LogoffShaped ==
    ASSUME Inv, CallShaped, NEW c \in Callers, Logoff(c)
    PROVE  CallShaped'
  <1>0. loc[c] \in Local
    BY CallFacts
  <1>1. PICK e \in {"none", "logoff"} :
            Take(c, Go("returned",
                       [Fresh({}) EXCEPT !.stage = loc[c].stage,
                                         !.err = IF loc[c].err = "none" THEN e ELSE loc[c].err]))
    BY DEF Logoff
  <1> DEFINE f == [Fresh({}) EXCEPT !.stage = loc[c].stage,
                                    !.err = IF loc[c].err = "none" THEN e ELSE loc[c].err]
  <1>2. f.up = {} /\ ~ f.mutated /\ f.pin = {} /\ ~ f.attempted /\ ~ f.full /\ f \in Local
    <2>1. (IF loc[c].err = "none" THEN e ELSE loc[c].err) \in Errors /\ loc[c].stage \in Stages
      BY <1>0 DEF Local, Errors
    <2>2. Fresh({}) \in Local
      BY FreshTyped
    <2> QED
      BY <2>1, <2>2 DEF Fresh, Local
  <1>3. Take(c, Go("returned", f))
    BY <1>1
  <1> HIDE DEF f
  <1>4. Shape(call[c], "returned", f)
    BY <1>2, ReturnedShaped
  <1> QED
    BY <1>3, <1>4, TakeShaped DEF Logoff

LEMMA UnlockShaped ==
    ASSUME Inv, CallShaped, NEW c \in Callers, Unlock(c)
    PROVE  CallShaped'
  <1>0. loc[c] \in Local
    BY CallFacts
  <1> DEFINE f == [Fresh({}) EXCEPT !.stage = loc[c].stage, !.err = loc[c].err]
  <1>2. f.up = {} /\ ~ f.mutated /\ f.pin = {} /\ ~ f.attempted /\ ~ f.full /\ f \in Local
    BY <1>0, FreshTyped DEF Fresh, Local
  <1>3. Take(c, Go("returned", f)) /\ UNCHANGED call
    BY DEF Unlock
  <1> HIDE DEF f
  <1>4. Shape(call[c], "returned", f)
    BY <1>2, ReturnedShaped
  <1> QED
    BY <1>3, <1>4, TakeShaped

LEMMA CrashShaped ==
    ASSUME Inv, CallShaped, NEW k \in Clients, Crash(k)
    PROVE  CallShaped'
  <1> DEFINE f == [Fresh({}) EXCEPT !.err = "crashed"]
             dead == {c \in UsersOf(k) : pc[c] \notin Rest}
  <1>1. f.up = {} /\ ~ f.mutated /\ f.pin = {} /\ ~ f.attempted /\ ~ f.full /\ f \in Local
    BY FreshTyped DEF Fresh, Local, Errors
  <1>2. pc' = [c \in Callers |-> IF c \in dead THEN "returned" ELSE pc[c]]
    BY DEF Crash
  <1>3. loc' = [c \in Callers |-> IF c \in dead THEN f ELSE loc[c]]
    BY DEF Crash
  <1>4. UNCHANGED call
    BY DEF Crash
  <1> HIDE DEF f, dead
  <1>5. \A c \in Callers : Shape(call[c], "returned", f)
    BY <1>1, ReturnedShaped
  <1> QED
    BY <1>2, <1>3, <1>4, <1>5 DEF CallShaped

LEMMA InitShaped == Init => CallShaped
  <1> SUFFICES ASSUME Init, NEW c \in Callers
               PROVE  call[c] \in Requests[c] /\ Shape(call[c], pc[c], loc[c])
    BY DEF CallShaped
  <1>1. Requests[c] # {}
    BY RequestAssumption
  <1>2. call[c] \in Requests[c] /\ pc[c] = "idle" /\ loc[c] = Fresh({})
    BY <1>1 DEF Init
  <1> QED
    BY <1>2, FreshShaped

LEMMA RotateShaped ==
    ASSUME Inv, CallShaped, NEW c \in Callers, Rotate(c)
    PROVE  CallShaped'
  BY VersionShaped, InspectShaped, ListCertsShaped, ListKeysShaped, ListInfoShaped,
     UpKeyShaped, UpCertShaped, UpChainShaped, PreBindShaped, BindShaped, ReadBackShaped,
     VerifyBoundShaped, PreUnbindShaped, UnbindShaped, PostUnbindShaped, PrePersistShaped,
     PersistShaped, ScanClientShaped, ScanServerShaped, DeletePairShaped, DeleteChainShaped,
     PersistCleanupShaped, CreatePersistShaped DEF Rotate

LEMMA RollbackShaped ==
    ASSUME Inv, CallShaped, NEW c \in Callers, Rollback(c)
    PROVE  CallShaped'
  BY RbInspectShaped, RbBindShaped, RbRereadShaped, RbUnbindShaped, RbVerifyShaped,
     RbPersistShaped, UndoPairShaped, UndoChainShaped, UndoCertsShaped, UndoKeysShaped,
     UndoPersistShaped DEF Rollback

LEMMA NextShaped == Inv /\ CallShaped /\ [Next]_vars => CallShaped'
  <1> SUFFICES ASSUME Inv, CallShaped, [Next]_vars
               PROVE  CallShaped'
    OBVIOUS
  <1>1. CASE \E c \in Callers : Invoke(c) \/ Retry(c) \/ Lock(c) \/ Step(c)
    BY <1>1, InvokeShaped, RetryShaped, LockShaped, AuthShaped, RotateShaped, RollbackShaped,
       LogoffShaped, UnlockShaped DEF Step
  <1>2. CASE \E k \in Clients : Crash(k)
    BY <1>2, CrashShaped
  <1>3. CASE UNCHANGED <<pc, call, loc>>
    BY <1>3 DEF CallShaped
  <1> QED
    BY <1>1, <1>2, <1>3 DEF Next, Environment, OperatorEdit, Reboot, CloseSession, Deliver, Land, Finished, vars

(* The locals of every call have their shape, always. *)
THEOREM CallShapedHolds == Spec => [](Inv /\ CallShaped)
  <1>1. Init => Inv /\ CallShaped
    BY InitInv, InitShaped
  <1>2. Inv /\ CallShaped /\ [Next]_vars => (Inv /\ CallShaped)'
    BY NextInv, NextShaped
  <1> QED
    BY <1>1, <1>2, PTL DEF Spec

----------------------------------------------------------------------------
(* What follows for every call.                                            *)

(* Only its own steps and the death of its process take a call further.    *)
LEMMA OwnSteps ==
    ASSUME Inv, [Next]_vars, NEW c \in Callers, pc'[c] # pc[c]
    PROVE  Invoke(c) \/ Retry(c) \/ Lock(c) \/ Step(c) \/ \E k \in Clients : Crash(k)
  <1>1. ASSUME NEW d \in Callers \ {c}, Invoke(d) \/ Retry(d) \/ Lock(d) \/ Step(d)
        PROVE  FALSE
    <2>1. \A o : Take(d, o) => pc'[c] = pc[c]
      BY DEF Take, Inv, TypeOK
    <2>2. ASSUME NEW label, NEW m, NEW ok, NEW bad,
                 Query(d, label, ok, bad) \/ Send(d, label, m, ok, bad)
          PROVE  pc'[c] = pc[c]
      BY <2>1, <2>2 DEF Query, Send
    <2>3. CASE Rotate(d)
      BY <2>2, <2>3 DEF Rotate, Version, Inspect, ListCerts, ListKeys, ListInfo, UpKey, UpCert,
           UpChain, PreBind, Bind, ReadBack, VerifyBound, PreUnbind, Unbind, PostUnbind, PrePersist,
           Persist, ScanClient, ScanServer, DeletePair, DeleteChain, PersistCleanup, CreatePersist
    <2>4. CASE Rollback(d)
      BY <2>2, <2>4 DEF Rollback, RbInspect, RbBind, RbReread, RbUnbind, RbVerify, RbPersist,
           UndoPair, UndoChain, UndoCerts, UndoKeys, UndoPersist
    <2>5. CASE Auth(d) \/ Logoff(d) \/ Unlock(d) \/ Invoke(d) \/ Retry(d) \/ Lock(d)
      BY <2>1, <2>5 DEF Auth, Logoff, Unlock, Invoke, Retry, Lock
    <2> QED
      BY <1>1, <2>3, <2>4, <2>5 DEF Step
  <1> QED
    BY <1>1 DEF Next, Environment, OperatorEdit, Reboot, CloseSession, Deliver, Land, Finished, vars

(* The three requests that follow a check of the whole template.           *)
Watched == {"bind", "unbind", "persist"}

(* No other continuation of a call leads there. *)
LEMMA FailedElsewhere ==
    \A r, l, e : Failed(r, l, e).at \notin Watched /\ UndoFailed(r, l).at \notin Watched
  BY DEF Failed, UndoFailed, Undo, Watched

LEMMA CleanupElsewhere ==
    \A r, l : /\ Complete(l).at \notin Watched
              /\ AfterCleanup(r, l).at \notin Watched
              /\ AfterPair(r, l).at \notin Watched
              /\ AfterScan(r, l).at \notin Watched
              /\ Cleanup(r, l).at \notin Watched
              /\ AfterOldBinding(r, l).at \notin Watched
              /\ OldBindingRemoved(r, l).at \notin Watched
  BY DEF Complete, AfterCleanup, AfterPair, AfterScan, Cleanup, AfterOldBinding,
         OldBindingRemoved, Watched

LEMMA BindingElsewhere ==
    \A r, l, i : AfterBinding(r, l, i).at \notin Watched
  BY FailedElsewhere, CleanupElsewhere DEF AfterBinding, Watched

LEMMA MaterialElsewhere ==
    \A r, l : /\ Ready(r, l).at \notin Watched
              /\ AfterCert(r, l).at \notin Watched
              /\ AfterKey(r, l).at \notin Watched
              /\ AfterListing(r, l).at \notin Watched
  <1>1. \A r, l : Ready(r, l).at \notin Watched
    BY CleanupElsewhere DEF Ready, Watched
  <1>2. \A r, l : AfterCert(r, l).at \notin Watched
    BY <1>1, FailedElsewhere DEF AfterCert, Watched
  <1>3. \A r, l : AfterKey(r, l).at \notin Watched
    BY <1>2, FailedElsewhere DEF AfterKey, Watched
  <1> QED
    BY <1>1, <1>2, <1>3 DEF AfterListing, Watched

LEMMA RollbackElsewhere ==
    \A r, l : /\ RemoveDesired(r, l).at \notin Watched
              /\ Undo(r, l).at \notin Watched
              /\ Undone(l).at \notin Watched
  BY DEF RemoveDesired, Undo, Undone, Watched

LEMMA RequireElsewhere ==
    ASSUME NEW r, NEW l, NEW o, Require(r, l, o).at \in Watched
    PROVE  running.tmpl[r.tmpl] = l.exp /\ o.at \in Watched
  BY FailedElsewhere DEF Require

Checked(from, to) ==
    <<from, to>> \in {<<"preBind", "bind">>, <<"preUnbind", "unbind">>, <<"prePersist", "persist">>}

(* So a call gets there by a check that holds. *)
LEMMA WatchedSteps ==
    ASSUME Inv, NEW c \in Callers, Step(c), pc'[c] \in Watched
    PROVE  /\ Checked(pc[c], pc'[c])
           /\ running.tmpl[call[c].tmpl] = loc[c].exp
  <1> DEFINE r == call[c]
             l == loc[c]
  <1>1. \A o : Take(c, o) => pc'[c] = o.at
    BY DEF Take, Inv, TypeOK
  <1>2. ASSUME NEW label, NEW ok, NEW bad, Query(c, label, ok, bad)
        PROVE  pc[c] = label /\ (pc'[c] = ok.at \/ pc'[c] = bad.at)
    BY <1>1, <1>2 DEF Query
  <1>3. ASSUME NEW label, NEW m, NEW ok, NEW bad, Send(c, label, m, ok, bad)
        PROVE  pc[c] = label /\ (pc'[c] = ok.at \/ pc'[c] = bad.at)
    BY <1>1, <1>3 DEF Send
  <1>4. ASSUME NEW at, NEW k, at \notin Watched
        PROVE  Go(at, k).at \notin Watched
    BY <1>4
  <1>5. \A x, e : Failed(r, x, e).at \notin Watched
    BY FailedElsewhere
  <1>6. CASE Auth(c) \/ Logoff(c) \/ Unlock(c)
    BY <1>1, <1>6 DEF Auth, Logoff, Unlock, Watched
  <1>7. CASE Version(c)
    BY <1>2, <1>5, <1>7 DEF Version, Watched
  <1>8. CASE Inspect(c)
    BY <1>2, <1>5, <1>8 DEF Inspect, Watched
  <1>9. CASE ListCerts(c) \/ ListKeys(c)
    BY <1>2, <1>5, <1>9 DEF ListCerts, ListKeys, Watched
  <1>10. CASE ListInfo(c)
    BY <1>2, <1>5, <1>10, MaterialElsewhere DEF ListInfo
  <1>11. CASE UpKey(c)
    BY <1>3, <1>5, <1>11, MaterialElsewhere DEF UpKey
  <1>12. CASE UpCert(c)
    BY <1>3, <1>5, <1>12, MaterialElsewhere DEF UpCert
  <1>13. CASE UpChain(c)
    BY <1>3, <1>5, <1>13, MaterialElsewhere DEF UpChain
  <1>14. CASE PreBind(c)
    <2> DEFINE o == Go(IF Desired(r) \in l.base.certs THEN "verifyBound" ELSE "bind", l)
    <2>1. pc[c] = "preBind" /\ pc'[c] = Require(r, l, o).at
      BY <1>2, <1>5, <1>14 DEF PreBind
    <2>2. o.at \in {"verifyBound", "bind"}
      OBVIOUS
    <2> HIDE DEF o
    <2>3. running.tmpl[r.tmpl] = l.exp
      BY <2>1, RequireElsewhere
    <2>4. pc'[c] = o.at
      BY <2>1, <2>3 DEF Require
    <2> QED
      BY <2>1, <2>2, <2>3, <2>4 DEF Watched, Checked
  <1>15. CASE Bind(c)
    BY <1>3, <1>15 DEF Bind, Watched
  <1>16. CASE ReadBack(c)
    <2> DEFINE T == running.tmpl[r.tmpl]
               appended == WithBinding(l.base, Desired(r))
               replaced == WithoutCertificate(appended, l.cur.cert)
               bound == [l EXCEPT !.exp = T, !.changed = TRUE, !.stage = "bound"]
               ok == IF T = appended THEN AfterBinding(r, bound, FALSE)
                     ELSE IF Replaces(r, l) /\ T = replaced THEN AfterBinding(r, bound, TRUE)
                     ELSE IF ~ l.bindFailed THEN Failed(r, l, "conflict")
                     ELSE Failed(r, l, IF T = l.base THEN "failed" ELSE "ambiguous")
               bad == Failed(r, l, IF l.bindFailed THEN "ambiguous" ELSE "failed")
    <2>1. Query(c, "readBack", ok, bad)
      BY <1>16 DEF ReadBack
    <2>2. AfterBinding(r, bound, FALSE).at \notin Watched /\ AfterBinding(r, bound, TRUE).at \notin Watched
      BY BindingElsewhere
    <2> HIDE DEF T, appended, replaced, bound
    <2>3. ok.at \notin Watched
      <3>1. CASE T = appended
        BY <2>2, <3>1
      <3>2. CASE T # appended /\ Replaces(r, l) /\ T = replaced
        BY <2>2, <3>2
      <3>3. CASE T # appended /\ ~ (Replaces(r, l) /\ T = replaced) /\ ~ l.bindFailed
        BY <1>5, <3>3
      <3>4. CASE T # appended /\ ~ (Replaces(r, l) /\ T = replaced) /\ l.bindFailed
        BY <1>5, <3>4
      <3> QED
        BY <3>1, <3>2, <3>3, <3>4
    <2>4. bad.at \notin Watched
      BY <1>5
    <2> HIDE DEF ok, bad
    <2> QED
      BY <1>2, <2>1, <2>3, <2>4
  <1>17. CASE VerifyBound(c)
    <2>1. AfterBinding(r, l, FALSE).at \notin Watched
      BY BindingElsewhere
    <2>2. Require(r, l, AfterBinding(r, l, FALSE)).at \notin Watched
      BY <2>1, RequireElsewhere
    <2>3. Query(c, "verifyBound", Require(r, l, AfterBinding(r, l, FALSE)), Failed(r, l, "failed"))
      BY <1>17 DEF VerifyBound
    <2> QED
      BY <1>2, <1>5, <2>2, <2>3
  <1>18. CASE PreUnbind(c)
    <2>1. pc[c] = "preUnbind" /\ pc'[c] = Require(r, l, Go("unbind", l)).at
      BY <1>2, <1>5, <1>18 DEF PreUnbind
    <2>2. running.tmpl[r.tmpl] = l.exp
      BY <2>1, RequireElsewhere
    <2> QED
      BY <2>1, <2>2 DEF Require, Checked
  <1>19. CASE Unbind(c)
    BY <1>3, <1>5, <1>19 DEF Unbind, Watched
  <1>20. CASE PostUnbind(c)
    BY <1>2, <1>5, <1>20, CleanupElsewhere DEF PostUnbind, Require
  <1>21. CASE PrePersist(c)
    <2>1. pc[c] = "prePersist" /\ pc'[c] = Require(r, l, Go("persist", l)).at
      BY <1>2, <1>5, <1>21 DEF PrePersist
    <2>2. running.tmpl[r.tmpl] = l.exp
      BY <2>1, RequireElsewhere
    <2> QED
      BY <2>1, <2>2 DEF Require, Checked
  <1>22. CASE Persist(c)
    <2>1. Go("rbInspect", [l EXCEPT !.full = TRUE]).at \notin Watched
      BY DEF Watched
    <2> QED
      BY <1>3, <1>22, <2>1, CleanupElsewhere DEF Persist
  <1>23. CASE ScanClient(c)
    BY <1>2, <1>5, <1>23 DEF ScanClient, Watched
  <1>24. CASE ScanServer(c)
    BY <1>2, <1>5, <1>24, CleanupElsewhere DEF ScanServer
  <1>25. CASE DeletePair(c)
    BY <1>3, <1>5, <1>25, CleanupElsewhere DEF DeletePair
  <1>26. CASE DeleteChain(c)
    BY <1>3, <1>5, <1>26, CleanupElsewhere DEF DeleteChain
  <1>27. CASE PersistCleanup(c)
    BY <1>3, <1>5, <1>27, CleanupElsewhere DEF PersistCleanup
  <1>28. CASE CreatePersist(c)
    BY <1>3, <1>5, <1>28, CleanupElsewhere DEF CreatePersist
  <1>29. CASE RbInspect(c)
    <2>1. Go("rbBind", l).at \notin Watched /\ Go("rbVerify", l).at \notin Watched
      BY DEF Watched
    <2> QED
      BY <1>2, <1>5, <1>29, <2>1, RollbackElsewhere DEF RbInspect
  <1>30. CASE RbBind(c)
    BY <1>3, <1>5, <1>30 DEF RbBind, Watched
  <1>31. CASE RbReread(c)
    BY <1>2, <1>5, <1>31, RollbackElsewhere DEF RbReread
  <1>32. CASE RbUnbind(c)
    BY <1>3, <1>5, <1>32 DEF RbUnbind, Watched
  <1>33. CASE RbVerify(c)
    BY <1>2, <1>5, <1>33, RollbackElsewhere DEF RbVerify
  <1>34. CASE RbPersist(c)
    BY <1>3, <1>5, <1>34 DEF RbPersist
  <1>35. CASE UndoPair(c)
    BY <1>3, <1>35, FailedElsewhere DEF UndoPair, Watched
  <1>36. CASE UndoChain(c)
    BY <1>3, <1>36, FailedElsewhere DEF UndoChain, Watched
  <1>37. CASE UndoCerts(c)
    BY <1>2, <1>37, FailedElsewhere DEF UndoCerts, Watched
  <1>38. CASE UndoKeys(c)
    BY <1>2, <1>38, FailedElsewhere, RollbackElsewhere DEF UndoKeys
  <1>39. CASE UndoPersist(c)
    BY <1>3, <1>39 DEF UndoPersist, Watched
  <1> QED
    BY <1>6, <1>7, <1>8, <1>9, <1>10, <1>11, <1>12, <1>13, <1>14, <1>15, <1>16, <1>17, <1>18,
       <1>19, <1>20, <1>21, <1>22, <1>23, <1>24, <1>25, <1>26, <1>27, <1>28, <1>29, <1>30,
       <1>31, <1>32, <1>33, <1>34, <1>35, <1>36, <1>37, <1>38, <1>39 DEF Step, Rotate, Rollback

(* An expected revision is honoured (sync.go:360-363) to the end: whatever *)
(* others do, and whenever they do it, a call that was given one goes on   *)
(* to bind, to unbind and to write only while the template is what its own *)
(* requests make of exactly the expected state.                            *)
THEOREM ExpectedRevisionHonoured == Spec => PinnedCourse
  <1>1. ASSUME Inv, CallShaped, [Next]_vars, NEW c \in Callers, loc[c].pin # {},
               pc'[c] # pc[c], pc'[c] \in Watched
        PROVE  \E P \in loc[c].pin :
                 /\ pc'[c] = "bind" => running.tmpl[call[c].tmpl] = P
                 /\ pc'[c] = "unbind" => running.tmpl[call[c].tmpl] = WithBinding(P, Desired(call[c]))
                 /\ pc'[c] = "persist" =>
                      running.tmpl[call[c].tmpl] = Rotated(call[c], [loc[c] EXCEPT !.base = P])
    <2> DEFINE r == call[c]
               l == loc[c]
    <2>1. l \in Local /\ Shape(r, pc[c], l)
      BY <1>1, CallFacts
    <2>2. Step(c)
      <3>1. ~ (Invoke(c) \/ Retry(c) \/ Lock(c))
        BY <1>1 DEF Invoke, Retry, Lock, Take, Inv, TypeOK, Watched
      <3>2. ASSUME NEW k \in Clients, Crash(k) PROVE FALSE
        BY <1>1, <3>2 DEF Crash, Watched
      <3> QED
        BY <1>1, <3>1, <3>2, OwnSteps
    <2>3. Checked(pc[c], pc'[c]) /\ running.tmpl[r.tmpl] = l.exp
      BY <1>1, <2>2, WatchedSteps
    <2> USE DEF Checked
    <2>4. ~ r.create
      BY <1>1, <2>1 DEF Shape, Common
    <2>5. l.base \in l.pin
      BY <1>1, <2>1, <2>3, <2>4 DEF Shape, Expected, Pinned
    <2>6. pc[c] = "preBind" => l.exp = l.base
      BY <2>1, <2>4 DEF Shape, Expected
    <2>7. pc[c] = "preUnbind" => l.exp = WithBinding(l.base, Desired(r))
      BY <2>1, <2>4 DEF Shape, Expected
    <2>8. pc[c] = "prePersist" => l.exp = Rotated(r, [l EXCEPT !.base = l.base])
      <3>1. [l EXCEPT !.base = l.base] = l
        BY <2>1 DEF Local
      <3>2. pc[c] = "prePersist" => l.exp = Rotated(r, l)
        BY <2>1, <2>4 DEF Shape, Expected
      <3> QED
        BY <3>1, <3>2
    <2> QED
      BY <2>3, <2>5, <2>6, <2>7, <2>8
  <1>2. ASSUME Inv, CallShaped, [Next]_vars, NEW c \in Callers, loc[c].pin # {}
        PROVE  \E P \in loc[c].pin :
                 /\ pc'[c] = "bind" /\ pc[c] # "bind" => running.tmpl[call[c].tmpl] = P
                 /\ pc'[c] = "unbind" /\ pc[c] # "unbind" =>
                      running.tmpl[call[c].tmpl] = WithBinding(P, Desired(call[c]))
                 /\ pc'[c] = "persist" /\ pc[c] # "persist" =>
                      running.tmpl[call[c].tmpl] = Rotated(call[c], [loc[c] EXCEPT !.base = P])
    <2>1. CASE pc'[c] # pc[c] /\ pc'[c] \in Watched
      BY <1>1, <1>2, <2>1
    <2>2. CASE ~ (pc'[c] # pc[c] /\ pc'[c] \in Watched)
      BY <1>2, <2>2 DEF Watched
    <2> QED
      BY <2>1, <2>2
  <1>3. Inv /\ CallShaped /\ [Next]_vars =>
          [\A c \in Callers : loc[c].pin # {} =>
             \E P \in loc[c].pin :
               /\ pc'[c] = "bind" /\ pc[c] # "bind" => running.tmpl[call[c].tmpl] = P
               /\ pc'[c] = "unbind" /\ pc[c] # "unbind" =>
                    running.tmpl[call[c].tmpl] = WithBinding(P, Desired(call[c]))
               /\ pc'[c] = "persist" /\ pc[c] # "persist" =>
                    running.tmpl[call[c].tmpl] = Rotated(call[c], [loc[c] EXCEPT !.base = P])]_vars
    BY <1>2
  <1> QED
    BY <1>3, CallShapedHolds, PTL DEF Spec, PinnedCourse

(* What a call still does once it is about to end. *)
LEMMA LastSteps ==
    ASSUME NEW c \in Callers, Step(c), pc[c] \in Undoing \cup {"logoff"}
    PROVE  UndoPair(c) \/ UndoChain(c) \/ UndoCerts(c) \/ UndoKeys(c) \/ Logoff(c) \/ Unlock(c)
  <1>1. ~ Auth(c)
    BY DEF Auth
  <1>2. ~ Rotate(c)
    BY DEF Rotate, Query, Send, Version, Inspect, ListCerts, ListKeys, ListInfo, UpKey, UpCert,
           UpChain, PreBind, Bind, ReadBack, VerifyBound, PreUnbind, Unbind, PostUnbind, PrePersist,
           Persist, ScanClient, ScanServer, DeletePair, DeleteChain, PersistCleanup, CreatePersist
  <1>3. ~ (RbInspect(c) \/ RbBind(c) \/ RbReread(c) \/ RbUnbind(c) \/ RbVerify(c) \/ RbPersist(c)
             \/ UndoPersist(c))
    BY DEF Query, Send, RbInspect, RbBind, RbReread, RbUnbind, RbVerify, RbPersist, UndoPersist
  <1> QED
    BY <1>1, <1>2, <1>3 DEF Step, Rollback

(* A request to delete touches the named files and nothing else. *)
LEMMA DeleteOnly ==
    ASSUME Inv, NEW c, NEW label, NEW files, NEW ok, NEW bad,
           Send(c, label, DeleteOf(files), ok, bad)
    PROVE  /\ startup' = startup /\ running'.tmpl = running.tmpl
           /\ running.files \ running'.files \subseteq files
  <1>1. CASE Process(DeleteOf(files))
    <2>1. running' = [running EXCEPT !.files = @ \ files] /\ startup' = startup
      BY <1>1 DEF Process, Results, DeleteOf
    <2> QED
      BY <2>1 DEF Inv, TypeOK, Config
  <1>2. CASE UNCHANGED <<running, startup>>
    BY <1>2
  <1> QED
    BY <1>1, <1>2 DEF Send

(* Once a call has found a conflict, its rollback may take back what it    *)
(* uploaded itself; it changes no template and writes nothing.             *)
THEOREM ConflictsStopTheCall == Spec => ConflictStops
  <1>1. ASSUME Inv, CallShaped, [Next]_vars, NEW c \in Callers,
               loc[c].err = "conflict", Active(c), pc'[c] # pc[c]
        PROVE  /\ startup' = startup
               /\ running'.tmpl = running.tmpl
               /\ running.files \ running'.files \subseteq loc[c].up
    <2>0. /\ Shape(call[c], pc[c], loc[c]) /\ pc \in [Callers -> Labels]
      BY <1>1, CallFacts DEF Inv, TypeOK
    <2>1. pc[c] \in Undoing \cup {"logoff"}
      BY <1>1, <2>0 DEF Active, Shape, Common, Course, Calm
    <2>2. CASE \E k \in Clients : Crash(k)
      BY <2>2 DEF Crash
    <2>3. CASE Step(c)
      <3>1. CASE UndoPair(c)
        <4>1. /\ startup' = startup /\ running'.tmpl = running.tmpl
              /\ running.files \ running'.files \subseteq loc[c].up \cap PairOf(Desired(call[c]))
          BY <1>1, <3>1, DeleteOnly DEF UndoPair
        <4> QED BY <4>1
      <3>2. CASE UndoChain(c)
        <4>1. /\ startup' = startup /\ running'.tmpl = running.tmpl
              /\ running.files \ running'.files \subseteq loc[c].up \ PairOf(Desired(call[c]))
          BY <1>1, <3>2, DeleteOnly DEF UndoChain
        <4> QED BY <4>1
      <3>3. CASE UndoCerts(c) \/ UndoKeys(c) \/ Logoff(c) \/ Unlock(c)
        <4>1. running' = running /\ startup' = startup
          BY <3>3 DEF UndoCerts, UndoKeys, Query, Logoff, Unlock, appliance
        <4> QED BY <4>1
      <3> QED
        BY <2>1, <2>3, <3>1, <3>2, <3>3, LastSteps
    <2>4. ~ (Invoke(c) \/ Retry(c) \/ Lock(c))
      BY <2>1 DEF Invoke, Retry, Lock
    <2> QED
      BY <1>1, <2>2, <2>3, <2>4, OwnSteps
  <1>2. Inv /\ CallShaped /\ [Next]_vars =>
          [\A c \in Callers :
             loc[c].err = "conflict" /\ Active(c) /\ pc'[c] # pc[c] =>
               /\ startup' = startup
               /\ running'.tmpl = running.tmpl
               /\ running.files \ running'.files \subseteq loc[c].up]_vars
    BY <1>1
  <1> QED
    BY <1>2, CallShapedHolds, PTL DEF Spec, ConflictStops

====

---- MODULE CertSyncFilesProofs ----
(***************************************************************************)
(* Theorems about the files the calls of one Client leave on the           *)
(* appliance: what was staged ahead stays, and undisturbed rotations leave *)
(* nothing behind.                                                         *)
(***************************************************************************)
EXTENDS CertSyncStoreProofs, FiniteSetTheorems

(* The files a rotation to s retires with the binding b. *)
Retired(s, b) == (PairOf(b) \ PairOf(Desired(s))) \cup (ChainOf(b) \ ChainOf(Desired(s)))

(* Nobody retires what somebody stages. *)
NobodyRetires ==
    \A c, d \in Callers : \A r \in Requests[c], s \in Requests[d], b \in AllBindings :
        r.create /\ ~ s.create /\ s.cleanup /\ b.cert # s.name =>
            FilesOf(Desired(r)) \cap Retired(s, b) = {}

----------------------------------------------------------------------------
(* What pre-staging calls that succeeded have put on the appliance.        *)

StagedBy(c) ==
    IF pc[c] = "returned" /\ call[c].create /\ loc[c].err = "none" THEN FilesOf(Desired(call[c]))
    ELSE {}

StagedFiles == UNION {StagedBy(c) : c \in Callers}

(* The call has listed the files. *)
Informed == InCall \ {"auth", "version", "inspect", "listCerts", "listKeys", "logoff"}

Knows(at, l) ==
    /\ at = "listKeys" => {f \in StagedFiles : f[1] = "cert"} \subseteq l.seen
    /\ at \in Informed => StagedFiles \subseteq l.seen

(* The inductive invariant: a call in progress has seen what is staged, so *)
(* it neither counts it among its uploads nor deletes it late.             *)
StagedInv ==
    used["reboot"] = 0 =>
        /\ StagedFiles \subseteq running.files
        /\ \A c \in Callers : \A m \in doubt[c] : m.op = "delete" => m.files \cap StagedFiles = {}
        /\ \A c \in sessions : Knows(pc[c], loc[c])

USE DEF Undoing, Restoring, Opening, Listing, Uploading, Cleaning, Settled, Forward, Rotating,
        Staging, InCall, Rest, Go, Changing, Following, Reverted, RolledBack, Completed, Informed

----------------------------------------------------------------------------
(* A call that has listed the files keeps the list.                        *)

Onward(l, o) == o.loc.seen = l.seen /\ o.at \in Informed \cup {"logoff"}

LEMMA FailedOnward ==
    ASSUME NEW r, NEW l \in Local, NEW err
    PROVE  Onward(l, Failed(r, l, err))
  BY DEF Local, Onward, Failed, Undo

LEMMA RequireOnward ==
    ASSUME NEW r, NEW l \in Local, NEW ok, Onward(l, ok)
    PROVE  Onward(l, Require(r, l, ok))
  BY FailedOnward DEF Require

LEMMA EndOnward ==
    ASSUME NEW r, NEW l \in Local
    PROVE  /\ Onward(l, Complete(l)) /\ Onward(l, AfterCleanup(r, l))
           /\ Onward(l, AfterPair(r, l)) /\ Onward(l, AfterScan(r, l))
           /\ Onward(l, Cleanup(r, l))
  <1>1. Onward(l, Complete(l))
    BY DEF Local, Onward, Complete
  <1>2. Onward(l, AfterCleanup(r, l))
    BY DEF Local, Onward, AfterCleanup, Complete
  <1>3. Onward(l, AfterPair(r, l))
    BY <1>2 DEF Onward, AfterPair
  <1>4. Onward(l, AfterScan(r, l))
    BY <1>3 DEF Onward, AfterScan
  <1> QED
    BY <1>1, <1>2, <1>3, <1>4 DEF Onward, Cleanup

LEMMA BoundOnward ==
    ASSUME NEW r, NEW l \in Local, NEW implicit \in BOOLEAN
    PROVE  /\ Onward(l, AfterOldBinding(r, l)) /\ Onward(l, OldBindingRemoved(r, l))
           /\ Onward(l, AfterBinding(r, l, implicit))
  <1>1. \A k \in Local : Onward(k, AfterOldBinding(r, k))
    BY EndOnward DEF Onward, AfterOldBinding
  <1> DEFINE e == [l EXCEPT !.changed = TRUE, !.stage = "old-binding-removed"]
  <1>2. e \in Local /\ e.seen = l.seen
    BY DEF Local, Stages
  <1>3. Onward(l, OldBindingRemoved(r, l))
    BY <1>1, <1>2 DEF Onward, OldBindingRemoved
  <1> QED
    BY <1>1, <1>3, FailedOnward DEF Onward, AfterBinding

LEMMA MaterialOnward ==
    ASSUME NEW r, NEW l \in Local
    PROVE  /\ Onward(l, Ready(r, l)) /\ Onward(l, AfterCert(r, l))
           /\ Onward(l, AfterKey(r, l)) /\ Onward(l, AfterListing(r, l))
  <1> DEFINE e == [l EXCEPT !.stage = "material-ready"]
  <1>1. e \in Local /\ e.seen = l.seen
    BY DEF Local, Stages
  <1>2. Onward(l, Ready(r, l))
    BY <1>1, EndOnward DEF Onward, Ready
  <1>3. Onward(l, AfterCert(r, l))
    BY <1>2, FailedOnward DEF Onward, AfterCert
  <1>4. Onward(l, AfterKey(r, l))
    BY <1>3, FailedOnward DEF Onward, AfterKey
  <1> QED
    BY <1>2, <1>3, <1>4 DEF Onward, AfterListing

LEMMA RollbackOnward ==
    ASSUME NEW r, NEW l \in Local
    PROVE  /\ Onward(l, Undo(r, l)) /\ Onward(l, RemoveDesired(r, l))
           /\ Onward(l, UndoFailed(r, l)) /\ Onward(l, Undone(l))
  <1>1. Onward(l, Undo(r, l)) /\ Onward(l, RemoveDesired(r, l))
    BY DEF Onward, Undo, RemoveDesired
  <1>2. Onward(l, UndoFailed(r, l))
    BY FailedOnward DEF Local, Onward, UndoFailed
  <1> QED
    BY <1>1, <1>2 DEF Local, Onward, Undone

----------------------------------------------------------------------------
(* Steps that change nothing of what is staged.                            *)

LEMMA SpendOther ==
    ASSUME NEW b \in Budget, NEW a, a # b, Spend(b)
    PROVE  used'[a] = used[a]
  BY DEF Spend

LEMMA BreaksOther ==
    ASSUME NEW c, Breaks(c), NEW a, a # "fault"
    PROVE  used'[a] = used[a]
  BY SpendOther DEF Breaks, Budget

LEMMA SameStaged ==
    ASSUME \A d \in Callers : StagedBy(d)' = StagedBy(d)
    PROVE  StagedFiles' = StagedFiles
  BY DEF StagedFiles

LEMMA FewerStaged ==
    ASSUME \A d \in Callers : StagedBy(d)' \subseteq StagedBy(d)
    PROVE  StagedFiles' \subseteq StagedFiles
  BY DEF StagedFiles

(* A step inside a call. *)
LEMMA TakeStaged ==
    ASSUME Inv, NEW c \in Callers, pc[c] # "returned", NEW o, o.at # "returned",
           Take(c, o), UNCHANGED call
    PROVE  StagedFiles' = StagedFiles
  <1>1. /\ pc'[c] = o.at /\ loc'[c] = o.loc
        /\ \A d \in Callers \ {c} : pc'[d] = pc[d] /\ loc'[d] = loc[d]
    BY TakeOther
  <1>2. \A d \in Callers : StagedBy(d)' = StagedBy(d)
    BY <1>1 DEF StagedBy
  <1> QED
    BY <1>2, SameStaged

LEMMA QueryStaged ==
    ASSUME Inv, CallShaped, StoreInv, StagedInv, NEW c \in Callers, NEW label \in InCall,
           NEW ok, NEW bad, Query(c, label, ok, bad), ok.at # "returned", bad.at # "returned",
           used["reboot"] = 0 /\ c \in sessions => Knows(ok.at, ok.loc) /\ Knows(bad.at, bad.loc)
    PROVE  StagedInv'
  <1>1. UNCHANGED <<running, sessions, doubt, call>> /\ pc[c] # "returned"
    BY DEF Query, appliance
  <1>2. PICK o \in {ok, bad} : Take(c, o)
    BY DEF Query
  <1>3. used'["reboot"] = used["reboot"]
    BY BreaksOther DEF Query
  <1>4. StagedFiles' = StagedFiles
    BY <1>1, <1>2, TakeStaged
  <1>5. /\ pc'[c] = o.at /\ loc'[c] = o.loc
        /\ \A d \in Callers \ {c} : pc'[d] = pc[d] /\ loc'[d] = loc[d]
    BY <1>2, TakeOther
  <1>6. sessions \subseteq Callers
    BY DEF Inv, TypeOK
  <1> QED
    BY <1>1, <1>2, <1>3, <1>4, <1>5, <1>6 DEF StagedInv, Knows

(* What a request does to the files. *)
LEMMA EffectFiles ==
    ASSUME NEW R \in Config, NEW S, NEW m \in Message, NEW R2, NEW S2, Effect(R, S, m, R2, S2)
    PROVE  /\ m.op # "delete" => R.files \subseteq R2.files
           /\ m.op = "delete" => R2.files = R.files \ m.files
  <1>1. CASE m.op = "upload"
    <2>1. R2.files = R.files \cup m.files
      BY <1>1, UploadEffect
    <2> QED
      BY <1>1, <2>1
  <1>2. CASE m.op = "delete"
    BY <1>2, DeleteEffect
  <1>3. CASE m.op = "write"
    BY <1>3, WriteEffect
  <1>4. CASE m.op = "bind"
    BY <1>4, BindEffect DEF OneTemplate
  <1>5. CASE m.op = "unbind"
    BY <1>5, UnbindEffect DEF OneTemplate
  <1> QED
    BY <1>1, <1>2, <1>3, <1>4, <1>5, Operations

LEMMA ProcessFiles ==
    ASSUME running \in Config, NEW m \in Message, Process(m)
    PROVE  /\ m.op # "delete" => running.files \subseteq running'.files
           /\ m.op = "delete" => running'.files = running.files \ m.files
  <1>1. Effect(running, startup, m, running', startup')
    BY DEF Process, Effect
  <1> QED
    BY <1>1, EffectFiles

LEMMA PartsOf ==
    ASSUME NEW m \in Message, NEW n \in Parts(m)
    PROVE  /\ n.op = m.op
           /\ m.op = "delete" => n.files \subseteq m.files
  BY DEF Parts, DeleteOf

LEMMA SendStaged ==
    ASSUME Inv, CallShaped, StoreInv, StagedInv, NEW c \in Callers, NEW label \in InCall,
           NEW m \in Message, NEW ok, NEW bad, Send(c, label, m, ok, bad),
           ok.at # "returned", bad.at # "returned",
           used["reboot"] = 0 /\ c \in sessions =>
             /\ Knows(ok.at, ok.loc) /\ Knows(bad.at, bad.loc)
             /\ m.op = "delete" => m.files \cap StagedFiles = {}
    PROVE  StagedInv'
  <1>1. UNCHANGED <<sessions, call>> /\ pc[c] # "returned"
    BY DEF Send
  <1>2. PICK o \in {ok, bad} : Take(c, o)
    BY DEF Send
  <1>3. used'["reboot"] = used["reboot"]
    BY BreaksOther DEF Send
  <1>4. StagedFiles' = StagedFiles
    BY <1>1, <1>2, TakeStaged
  <1>5. /\ pc'[c] = o.at /\ loc'[c] = o.loc
        /\ \A d \in Callers \ {c} : pc'[d] = pc[d] /\ loc'[d] = loc[d]
    BY <1>2, TakeOther
  <1>6. sessions \subseteq Callers /\ running \in Config
    BY DEF Inv, TypeOK
  <1>7. ASSUME used["reboot"] = 0
        PROVE  StagedFiles \subseteq running'.files
    <2>1. CASE c \in sessions /\ Process(m)
      <3>2. /\ m.op # "delete" => running.files \subseteq running'.files
            /\ m.op = "delete" => running'.files = running.files \ m.files
        BY <1>6, <2>1, ProcessFiles
      <3>3. StagedFiles \subseteq running.files
        BY <1>7 DEF StagedInv
      <3> QED
        BY <1>7, <2>1, <3>2, <3>3
    <2>2. CASE UNCHANGED running
      BY <1>7, <2>2 DEF StagedInv
    <2> QED
      BY <2>1, <2>2 DEF Send
  <1>8. ASSUME used["reboot"] = 0, NEW d \in Callers, NEW n \in doubt'[d], n.op = "delete"
        PROVE  n.files \cap StagedFiles = {}
    <2>1. n \in doubt[d] \/ (d = c /\ c \in sessions /\ n \in Parts(m))
      BY <1>8 DEF Send, Inv, TypeOK
    <2>2. CASE n \in doubt[d]
      BY <1>8, <2>2 DEF StagedInv
    <2>3. CASE d = c /\ c \in sessions /\ n \in Parts(m)
      BY <1>8, <2>3, PartsOf
    <2> QED
      BY <2>1, <2>2, <2>3
  <1> QED
    BY <1>1, <1>2, <1>3, <1>4, <1>5, <1>6, <1>7, <1>8 DEF StagedInv, Knows

(* Most requests of a call that has listed the files. *)
LEMMA KnowsOnward ==
    ASSUME NEW at \in Informed, NEW l, Knows(at, l), NEW o, Onward(l, o)
    PROVE  Knows(o.at, o.loc)
  BY DEF Knows, Onward

LEMMA SessionKnows ==
    ASSUME StagedInv, NEW c \in sessions, used["reboot"] = 0
    PROVE  Knows(pc[c], loc[c])
  BY DEF StagedInv

LEMMA QueryOnward ==
    ASSUME Inv, CallShaped, StoreInv, StagedInv, NEW c \in Callers, NEW label \in Informed,
           NEW ok, NEW bad, Query(c, label, ok, bad), Onward(loc[c], ok), Onward(loc[c], bad)
    PROVE  StagedInv'
  <1>1. ok.at # "returned" /\ bad.at # "returned" /\ pc[c] = label /\ label \in InCall
    BY DEF Onward, Query
  <1>2. used["reboot"] = 0 /\ c \in sessions => Knows(ok.at, ok.loc) /\ Knows(bad.at, bad.loc)
    BY <1>1, SessionKnows, KnowsOnward
  <1> QED
    BY <1>1, <1>2, QueryStaged

LEMMA SendOnward ==
    ASSUME Inv, CallShaped, StoreInv, StagedInv, NEW c \in Callers, NEW label \in Informed,
           NEW m \in Message, NEW ok, NEW bad, Send(c, label, m, ok, bad),
           Onward(loc[c], ok), Onward(loc[c], bad),
           used["reboot"] = 0 /\ c \in sessions /\ m.op = "delete" => m.files \cap StagedFiles = {}
    PROVE  StagedInv'
  <1>1. ok.at # "returned" /\ bad.at # "returned" /\ pc[c] = label /\ label \in InCall
    BY DEF Onward, Send
  <1>2. used["reboot"] = 0 /\ c \in sessions => Knows(ok.at, ok.loc) /\ Knows(bad.at, bad.loc)
    BY <1>1, SessionKnows, KnowsOnward
  <1> QED
    BY <1>1, <1>2, SendStaged

----------------------------------------------------------------------------
(* One lemma per request of a call that has listed the files.              *)

LEMMA PreBindStaged ==
    ASSUME Inv, CallShaped, StoreInv, StagedInv, NEW c \in Callers, PreBind(c)
    PROVE  StagedInv'
  <1> DEFINE r == call[c]
             l == loc[c]
  <1>0. r \in Request /\ l \in Local /\ Onward(l, Failed(r, l, "failed")) /\ Onward(l, Failed(r, l, "rollback"))
    BY CallFacts, FailedOnward
  <1> DEFINE ok == Require(r, l, Go(IF Desired(r) \in l.base.certs THEN "verifyBound" ELSE "bind", l))
  <1>2. Onward(l, ok)
    BY <1>0, RequireOnward DEF Onward
  <1>3. Query(c, "preBind", ok, Failed(r, l, "failed"))
    BY DEF PreBind
  <1> HIDE DEF ok
  <1> QED
    BY <1>0, <1>2, <1>3, QueryOnward

LEMMA ReadBackStaged ==
    ASSUME Inv, CallShaped, StoreInv, StagedInv, NEW c \in Callers, ReadBack(c)
    PROVE  StagedInv'
  <1> DEFINE r == call[c]
             l == loc[c]
  <1>0. r \in Request /\ l \in Local /\ Onward(l, Failed(r, l, "failed")) /\ Onward(l, Failed(r, l, "rollback"))
    BY CallFacts, FailedOnward
  <1> DEFINE T == running.tmpl[r.tmpl]
             appended == WithBinding(l.base, Desired(r))
             replaced == WithoutCertificate(appended, l.cur.cert)
             bound == [l EXCEPT !.exp = T, !.changed = TRUE, !.stage = "bound"]
             ok == IF T = appended THEN AfterBinding(r, bound, FALSE)
                   ELSE IF Replaces(r, l) /\ T = replaced THEN AfterBinding(r, bound, TRUE)
                   ELSE IF ~ l.bindFailed THEN Failed(r, l, "conflict")
                   ELSE Failed(r, l, IF T = l.base THEN "failed" ELSE "ambiguous")
             bad == Failed(r, l, IF l.bindFailed THEN "ambiguous" ELSE "failed")
  <1>2. T \in Template
    BY RequestsTyped DEF Inv
  <1>3. bound \in Local /\ bound.seen = l.seen
    BY <1>0, <1>2 DEF Local, Stages
  <1> HIDE DEF bound
  <1>4. Onward(bound, AfterBinding(r, bound, FALSE)) /\ Onward(bound, AfterBinding(r, bound, TRUE))
    BY <1>3, BoundOnward
  <1>8. Onward(l, AfterBinding(r, bound, FALSE)) /\ Onward(l, AfterBinding(r, bound, TRUE))
    BY <1>3, <1>4 DEF Onward
  <1>5. \A err : Onward(l, Failed(r, l, err))
    BY <1>0, FailedOnward
  <1>6. Query(c, "readBack", ok, bad)
    BY DEF ReadBack, bound
  <1>7. Onward(l, ok) /\ Onward(l, bad)
    BY <1>5, <1>8
  <1> HIDE DEF ok, bad
  <1> QED
    BY <1>6, <1>7, QueryOnward

LEMMA VerifyBoundStaged ==
    ASSUME Inv, CallShaped, StoreInv, StagedInv, NEW c \in Callers, VerifyBound(c)
    PROVE  StagedInv'
  <1> DEFINE r == call[c]
             l == loc[c]
  <1>0. r \in Request /\ l \in Local /\ Onward(l, Failed(r, l, "failed")) /\ Onward(l, Failed(r, l, "rollback"))
    BY CallFacts, FailedOnward
  <1>2. Onward(l, AfterBinding(r, l, FALSE))
    BY <1>0, BoundOnward
  <1>3. Onward(l, Require(r, l, AfterBinding(r, l, FALSE)))
    BY <1>0, <1>2, RequireOnward
  <1> QED
    BY <1>0, <1>3, QueryOnward DEF VerifyBound

LEMMA PreUnbindStaged ==
    ASSUME Inv, CallShaped, StoreInv, StagedInv, NEW c \in Callers, PreUnbind(c)
    PROVE  StagedInv'
  <1> DEFINE r == call[c]
             l == loc[c]
  <1>0. r \in Request /\ l \in Local /\ Onward(l, Failed(r, l, "failed")) /\ Onward(l, Failed(r, l, "rollback"))
    BY CallFacts, FailedOnward
  <1>2. Onward(l, Require(r, l, Go("unbind", l)))
    BY <1>0, RequireOnward DEF Onward
  <1> QED
    BY <1>0, <1>2, QueryOnward DEF PreUnbind

LEMMA PostUnbindStaged ==
    ASSUME Inv, CallShaped, StoreInv, StagedInv, NEW c \in Callers, PostUnbind(c)
    PROVE  StagedInv'
  <1> DEFINE r == call[c]
             l == loc[c]
  <1>0. r \in Request /\ l \in Local /\ Onward(l, Failed(r, l, "failed")) /\ Onward(l, Failed(r, l, "rollback"))
    BY CallFacts, FailedOnward
  <1>2. Onward(l, OldBindingRemoved(r, l))
    BY <1>0, BoundOnward
  <1>3. Onward(l, Require(r, l, OldBindingRemoved(r, l)))
    BY <1>0, <1>2, RequireOnward
  <1> QED
    BY <1>0, <1>3, QueryOnward DEF PostUnbind

LEMMA PrePersistStaged ==
    ASSUME Inv, CallShaped, StoreInv, StagedInv, NEW c \in Callers, PrePersist(c)
    PROVE  StagedInv'
  <1> DEFINE r == call[c]
             l == loc[c]
  <1>0. r \in Request /\ l \in Local /\ Onward(l, Failed(r, l, "failed")) /\ Onward(l, Failed(r, l, "rollback"))
    BY CallFacts, FailedOnward
  <1>2. Onward(l, Require(r, l, Go("persist", l)))
    BY <1>0, RequireOnward DEF Onward
  <1> QED
    BY <1>0, <1>2, QueryOnward DEF PrePersist

LEMMA ScanClientStaged ==
    ASSUME Inv, CallShaped, StoreInv, StagedInv, NEW c \in Callers, ScanClient(c)
    PROVE  StagedInv'
  <1> DEFINE r == call[c]
             l == loc[c]
  <1>0. r \in Request /\ l \in Local /\ Onward(l, Failed(r, l, "failed")) /\ Onward(l, Failed(r, l, "rollback"))
    BY CallFacts, FailedOnward
  <1> DEFINE ok == Go("scanServer", [l EXCEPT !.refs = ClientNames(c)])
  <1>1. Onward(l, ok)
    BY <1>0 DEF Onward, Local
  <1>2. Query(c, "scanClient", ok, Failed(r, l, "failed"))
    BY DEF ScanClient
  <1> HIDE DEF ok
  <1> QED
    BY <1>0, <1>1, <1>2, QueryOnward

LEMMA ScanServerStaged ==
    ASSUME Inv, CallShaped, StoreInv, StagedInv, NEW c \in Callers, ScanServer(c)
    PROVE  StagedInv'
  <1> DEFINE r == call[c]
             l == loc[c]
  <1>0. r \in Request /\ l \in Local /\ Onward(l, Failed(r, l, "failed")) /\ Onward(l, Failed(r, l, "rollback"))
    BY CallFacts, FailedOnward
  <1> DEFINE e == [l EXCEPT !.refs = @ \cup NamesIn(running.server)]
  <1>1. NamesIn(running.server) \subseteq Names
    BY DEF Inv, TypeOK, Config, NamesIn, File
  <1>2. e \in Local /\ e.seen = l.seen
    BY <1>0, <1>1 DEF Local
  <1>3. Query(c, "scanServer", AfterScan(r, e), Failed(r, l, "failed"))
    BY DEF ScanServer
  <1> HIDE DEF e
  <1>4. Onward(l, AfterScan(r, e))
    BY <1>2, EndOnward DEF Onward
  <1> QED
    BY <1>0, <1>3, <1>4, QueryOnward

LEMMA RbInspectStaged ==
    ASSUME Inv, CallShaped, StoreInv, StagedInv, NEW c \in Callers, RbInspect(c)
    PROVE  StagedInv'
  <1> DEFINE r == call[c]
             l == loc[c]
  <1>0. r \in Request /\ l \in Local /\ Onward(l, Failed(r, l, "failed")) /\ Onward(l, Failed(r, l, "rollback"))
    BY CallFacts, FailedOnward
  <1> DEFINE T == running.tmpl[r.tmpl]
             ok == IF T # l.exp THEN Failed(r, l, "rollback")
                   ELSE IF ~ Bound(l.base, r.name)
                     THEN IF PreviousBinding(l.base, r.current) \subseteq T.certs
                            THEN RemoveDesired(r, l)
                            ELSE Go("rbBind", l)
                   ELSE IF Desired(r) \in l.base.certs THEN Go("rbVerify", l)
                   ELSE Failed(r, l, "rollback")
  <1>1. Onward(l, RemoveDesired(r, l)) /\ Onward(l, Go("rbBind", l)) /\ Onward(l, Go("rbVerify", l))
    BY <1>0, RollbackOnward DEF Onward
  <1>2. Onward(l, ok)
    BY <1>0, <1>1
  <1>3. Query(c, "rbInspect", ok, Failed(r, l, "rollback"))
    BY DEF RbInspect
  <1> HIDE DEF ok
  <1> QED
    BY <1>0, <1>2, <1>3, QueryOnward

LEMMA RbRereadStaged ==
    ASSUME Inv, CallShaped, StoreInv, StagedInv, NEW c \in Callers, RbReread(c)
    PROVE  StagedInv'
  <1> DEFINE r == call[c]
             l == loc[c]
  <1>0. r \in Request /\ l \in Local /\ Onward(l, Failed(r, l, "failed")) /\ Onward(l, Failed(r, l, "rollback"))
    BY CallFacts, FailedOnward
  <1>1. Onward(l, RemoveDesired(r, l))
    BY <1>0, RollbackOnward
  <1> QED
    BY <1>0, <1>1, QueryOnward DEF RbReread

LEMMA RbVerifyStaged ==
    ASSUME Inv, CallShaped, StoreInv, StagedInv, NEW c \in Callers, RbVerify(c)
    PROVE  StagedInv'
  <1> DEFINE r == call[c]
             l == loc[c]
  <1>0. r \in Request /\ l \in Local /\ Onward(l, Failed(r, l, "failed")) /\ Onward(l, Failed(r, l, "rollback"))
    BY CallFacts, FailedOnward
  <1>1. Onward(l, Undo(r, l))
    BY <1>0, RollbackOnward
  <1> QED
    BY <1>0, <1>1, QueryOnward DEF RbVerify

LEMMA UndoCertsStaged ==
    ASSUME Inv, CallShaped, StoreInv, StagedInv, NEW c \in Callers, UndoCerts(c)
    PROVE  StagedInv'
  <1> DEFINE r == call[c]
             l == loc[c]
  <1>0. r \in Request /\ l \in Local /\ Onward(l, Failed(r, l, "failed")) /\ Onward(l, Failed(r, l, "rollback"))
    BY CallFacts, FailedOnward
  <1> DEFINE ok == Go("undoKeys", [l EXCEPT !.info = StoreFiles("cert")])
  <1>1. Onward(l, ok) /\ Onward(l, UndoFailed(r, l))
    BY <1>0, RollbackOnward DEF Onward, Local
  <1>2. Query(c, "undoCerts", ok, UndoFailed(r, l))
    BY DEF UndoCerts
  <1> HIDE DEF ok
  <1> QED
    BY <1>1, <1>2, QueryOnward

LEMMA UndoKeysStaged ==
    ASSUME Inv, CallShaped, StoreInv, StagedInv, NEW c \in Callers, UndoKeys(c)
    PROVE  StagedInv'
  <1> DEFINE r == call[c]
             l == loc[c]
  <1>0. r \in Request /\ l \in Local /\ Onward(l, Failed(r, l, "failed")) /\ Onward(l, Failed(r, l, "rollback"))
    BY CallFacts, FailedOnward
  <1>1. Onward(l, Undone(l)) /\ Onward(l, UndoFailed(r, l))
    BY <1>0, RollbackOnward
  <1> QED
    BY <1>1, QueryOnward DEF UndoKeys

LEMMA ListInfoStaged ==
    ASSUME Inv, CallShaped, StoreInv, StagedInv, NEW c \in Callers, ListInfo(c)
    PROVE  StagedInv'
  <1> DEFINE r == call[c]
             l == loc[c]
  <1>0. r \in Request /\ l \in Local /\ Onward(l, Failed(r, l, "failed")) /\ Onward(l, Failed(r, l, "rollback"))
    BY CallFacts, FailedOnward
  <1> DEFINE e == [l EXCEPT !.info = StoreFiles("cert")]
  <1>1. e \in Local /\ e.seen = l.seen
    BY <1>0, StoreFilesTyped DEF Inv, Local
  <1>2. Query(c, "listInfo", AfterListing(r, e), Failed(r, l, "failed"))
    BY DEF ListInfo
  <1> HIDE DEF e
  <1>3. Onward(l, AfterListing(r, e))
    BY <1>1, MaterialOnward DEF Onward
  <1> QED
    BY <1>0, <1>2, <1>3, QueryOnward

(* Requests that change the appliance, but delete nothing. *)

LEMMA NoDelete ==
    /\ \A F \in SUBSET File : UploadOf(F) \in Message /\ UploadOf(F).op = "upload"
    /\ \A t \in Templates, b \in Binding : BindOf(t, b) \in Message /\ BindOf(t, b).op = "bind"
    /\ \A t \in Templates, n \in Names : UnbindOf(t, n) \in Message /\ UnbindOf(t, n).op = "unbind"
    /\ WriteMemory \in Message /\ WriteMemory.op = "write"
  BY MessagesTyped DEF UploadOf, BindOf, UnbindOf, WriteMemory

LEMMA UpKeyStaged ==
    ASSUME Inv, CallShaped, StoreInv, StagedInv, NEW c \in Callers, UpKey(c)
    PROVE  StagedInv'
  <1> DEFINE r == call[c]
             l == loc[c]
  <1>0. r \in Request /\ l \in Local /\ Onward(l, Failed(r, l, "failed")) /\ Onward(l, Failed(r, l, "rollback"))
    BY CallFacts, FailedOnward
  <1> DEFINE f == <<"key", r.name>>
             e == Uploaded(l, f)
  <1>2. f \in File
    BY <1>0 DEF File, Request
  <1>3. e \in Local /\ e.seen = l.seen
    BY <1>0, <1>2 DEF Local, Uploaded
  <1>4. Send(c, "upKey", UploadOf({f}), AfterKey(r, e), Failed(r, l, "failed"))
    BY DEF UpKey
  <1> HIDE DEF e
  <1>5. Onward(l, AfterKey(r, e))
    BY <1>3, MaterialOnward DEF Onward
  <1>6. UploadOf({f}) \in Message /\ UploadOf({f}).op = "upload"
    BY <1>2, NoDelete
  <1> QED
    BY <1>0, <1>4, <1>5, <1>6, SendOnward

LEMMA UpCertStaged ==
    ASSUME Inv, CallShaped, StoreInv, StagedInv, NEW c \in Callers, UpCert(c)
    PROVE  StagedInv'
  <1> DEFINE r == call[c]
             l == loc[c]
  <1>0. r \in Request /\ l \in Local /\ Onward(l, Failed(r, l, "failed")) /\ Onward(l, Failed(r, l, "rollback"))
    BY CallFacts, FailedOnward
  <1> DEFINE f == <<"cert", r.name>>
             e == Uploaded(l, f)
  <1>2. f \in File
    BY <1>0 DEF File, Request
  <1>3. e \in Local /\ e.seen = l.seen
    BY <1>0, <1>2 DEF Local, Uploaded
  <1>4. Send(c, "upCert", UploadOf({f}), AfterCert(r, e), Failed(r, l, "failed"))
    BY DEF UpCert
  <1> HIDE DEF e
  <1>5. Onward(l, AfterCert(r, e))
    BY <1>3, MaterialOnward DEF Onward
  <1>6. UploadOf({f}) \in Message /\ UploadOf({f}).op = "upload"
    BY <1>2, NoDelete
  <1> QED
    BY <1>0, <1>4, <1>5, <1>6, SendOnward

LEMMA UpChainStaged ==
    ASSUME Inv, CallShaped, StoreInv, StagedInv, NEW c \in Callers, UpChain(c)
    PROVE  StagedInv'
  <1> DEFINE r == call[c]
             l == loc[c]
  <1>0. r \in Request /\ l \in Local /\ Onward(l, Failed(r, l, "failed")) /\ Onward(l, Failed(r, l, "rollback"))
    BY CallFacts, FailedOnward
  <1>1. r.chain # NoName
    BY DEF Inv, LocalsFit, Fits, UpChain, Send
  <1> DEFINE f == <<"cert", r.chain>>
             e == Uploaded(l, f)
  <1>2. f \in File
    BY <1>0, <1>1 DEF File, Request
  <1>3. e \in Local /\ e.seen = l.seen
    BY <1>0, <1>2 DEF Local, Uploaded
  <1>4. Send(c, "upChain", UploadOf({f}), Ready(r, e), Failed(r, l, "failed"))
    BY DEF UpChain
  <1> HIDE DEF e
  <1>5. Onward(l, Ready(r, e))
    BY <1>3, MaterialOnward DEF Onward
  <1>6. UploadOf({f}) \in Message /\ UploadOf({f}).op = "upload"
    BY <1>2, NoDelete
  <1> QED
    BY <1>0, <1>4, <1>5, <1>6, SendOnward

LEMMA BindStaged ==
    ASSUME Inv, CallShaped, StoreInv, StagedInv, NEW c \in Callers, Bind(c)
    PROVE  StagedInv'
  <1> DEFINE r == call[c]
             l == loc[c]
  <1>0. r \in Request /\ l \in Local /\ Onward(l, Failed(r, l, "failed")) /\ Onward(l, Failed(r, l, "rollback"))
    BY CallFacts, FailedOnward
  <1> DEFINE e == [l EXCEPT !.mutated = TRUE]
             m == BindOf(r.tmpl, Desired(r))
             ok == Go("readBack", e)
             bad == Go("readBack", [e EXCEPT !.bindFailed = TRUE])
  <1>1. Onward(l, ok) /\ Onward(l, bad)
    BY <1>0 DEF Onward, Local
  <1>2. m \in Message /\ m.op = "bind"
    BY <1>0, NoDelete, DesiredTyped DEF Request
  <1>3. Send(c, "bind", m, ok, bad)
    BY DEF Bind
  <1> HIDE DEF ok, bad, m
  <1> QED
    BY <1>1, <1>2, <1>3, SendOnward

LEMMA UnbindStaged ==
    ASSUME Inv, CallShaped, StoreInv, StagedInv, NEW c \in Callers, Unbind(c)
    PROVE  StagedInv'
  <1> DEFINE r == call[c]
             l == loc[c]
  <1>0. r \in Request /\ l \in Local /\ Onward(l, Failed(r, l, "failed")) /\ Onward(l, Failed(r, l, "rollback"))
    BY CallFacts, FailedOnward
  <1> DEFINE m == UnbindOf(r.tmpl, l.cur.cert)
             ok == Go("postUnbind", [l EXCEPT !.exp = WithoutCertificate(@, l.cur.cert)])
  <1>1. Onward(l, ok)
    BY <1>0 DEF Onward, Local
  <1>2. l.cur # NoBinding
    BY DEF Inv, LocalsFit, Fits, Retiring, Unbind, Send
  <1>3. m \in Message /\ m.op = "unbind"
    BY <1>0, <1>2, NoDelete DEF Request, Local, Binding
  <1>4. Send(c, "unbind", m, ok, Failed(r, l, "failed"))
    BY DEF Unbind
  <1> HIDE DEF ok, m
  <1> QED
    BY <1>0, <1>1, <1>3, <1>4, SendOnward

LEMMA PersistStaged ==
    ASSUME Inv, CallShaped, StoreInv, StagedInv, NEW c \in Callers, Persist(c)
    PROVE  StagedInv'
  <1> DEFINE r == call[c]
             l == loc[c]
  <1>0. r \in Request /\ l \in Local /\ Onward(l, Failed(r, l, "failed")) /\ Onward(l, Failed(r, l, "rollback"))
    BY CallFacts, FailedOnward
  <1> DEFINE e == [l EXCEPT !.wrote = TRUE, !.stage = "persisted"]
             bad == Go("rbInspect", [l EXCEPT !.full = TRUE])
  <1>1. e \in Local /\ e.seen = l.seen /\ Onward(l, bad)
    BY <1>0 DEF Onward, Local, Stages
  <1>2. Send(c, "persist", WriteMemory, Cleanup(r, e), bad)
    BY DEF Persist
  <1> HIDE DEF e, bad
  <1>3. Onward(l, Cleanup(r, e))
    BY <1>1, EndOnward DEF Onward
  <1> QED
    BY <1>1, <1>2, <1>3, NoDelete, SendOnward

LEMMA PersistCleanupStaged ==
    ASSUME Inv, CallShaped, StoreInv, StagedInv, NEW c \in Callers, PersistCleanup(c)
    PROVE  StagedInv'
  <1> DEFINE r == call[c]
             l == loc[c]
  <1>0. r \in Request /\ l \in Local /\ Onward(l, Failed(r, l, "failed")) /\ Onward(l, Failed(r, l, "rollback"))
    BY CallFacts, FailedOnward
  <1>1. Onward(l, Complete(l))
    BY <1>0, EndOnward
  <1> QED
    BY <1>0, <1>1, NoDelete, SendOnward DEF PersistCleanup

LEMMA CreatePersistStaged ==
    ASSUME Inv, CallShaped, StoreInv, StagedInv, NEW c \in Callers, CreatePersist(c)
    PROVE  StagedInv'
  <1> DEFINE r == call[c]
             l == loc[c]
  <1>0. r \in Request /\ l \in Local /\ Onward(l, Failed(r, l, "failed")) /\ Onward(l, Failed(r, l, "rollback"))
    BY CallFacts, FailedOnward
  <1> DEFINE e == [l EXCEPT !.wrote = TRUE]
             f == [l EXCEPT !.attempted = TRUE]
  <1>1. e \in Local /\ e.seen = l.seen /\ f \in Local /\ f.seen = l.seen
    BY <1>0 DEF Local
  <1>2. Send(c, "createPersist", WriteMemory, Complete(e), Failed(r, f, "failed"))
    BY DEF CreatePersist
  <1> HIDE DEF e, f
  <1>3. Onward(l, Complete(e)) /\ Onward(l, Failed(r, f, "failed"))
    BY <1>1, EndOnward, FailedOnward DEF Onward
  <1> QED
    BY <1>2, <1>3, NoDelete, SendOnward

LEMMA RbBindStaged ==
    ASSUME Inv, CallShaped, StoreInv, StagedInv, NEW c \in Callers, RbBind(c)
    PROVE  StagedInv'
  <1> DEFINE r == call[c]
             l == loc[c]
  <1>0. r \in Request /\ l \in Local /\ Onward(l, Failed(r, l, "failed")) /\ Onward(l, Failed(r, l, "rollback"))
    BY CallFacts, FailedOnward
  <1> DEFINE previous == CHOOSE b \in PreviousBinding(l.base, r.current) : TRUE
             m == BindOf(r.tmpl, previous)
             ok == Go("rbReread", l)
  <1>1. PreviousBinding(l.base, r.current) # {}
    BY DEF Inv, LocalsFit, Fits, RbBind, Send
  <1>2. previous \in Binding
    BY <1>0, <1>1 DEF PreviousBinding, Local, Template
  <1>3. Send(c, "rbBind", m, ok, Failed(r, l, "rollback"))
    BY DEF RbBind
  <1> HIDE DEF previous
  <1>4. m \in Message /\ m.op = "bind"
    BY <1>0, <1>2, NoDelete DEF Request
  <1>5. Onward(l, ok)
    BY DEF Onward
  <1> HIDE DEF m, ok
  <1> QED
    BY <1>0, <1>3, <1>4, <1>5, SendOnward

LEMMA RbUnbindStaged ==
    ASSUME Inv, CallShaped, StoreInv, StagedInv, NEW c \in Callers, RbUnbind(c)
    PROVE  StagedInv'
  <1> DEFINE r == call[c]
             l == loc[c]
  <1>0. r \in Request /\ l \in Local /\ Onward(l, Failed(r, l, "failed")) /\ Onward(l, Failed(r, l, "rollback"))
    BY CallFacts, FailedOnward
  <1> DEFINE m == UnbindOf(r.tmpl, r.name)
             ok == Go("rbVerify", l)
  <1>1. m \in Message /\ m.op = "unbind"
    BY <1>0, NoDelete DEF Request
  <1>2. Onward(l, ok)
    BY DEF Onward
  <1>3. Send(c, "rbUnbind", m, ok, Failed(r, l, "rollback"))
    BY DEF RbUnbind
  <1> HIDE DEF m, ok
  <1> QED
    BY <1>0, <1>1, <1>2, <1>3, SendOnward

LEMMA RbPersistStaged ==
    ASSUME Inv, CallShaped, StoreInv, StagedInv, NEW c \in Callers, RbPersist(c)
    PROVE  StagedInv'
  <1> DEFINE r == call[c]
             l == loc[c]
  <1>0. r \in Request /\ l \in Local /\ Onward(l, Failed(r, l, "failed")) /\ Onward(l, Failed(r, l, "rollback"))
    BY CallFacts, FailedOnward
  <1> DEFINE e == [l EXCEPT !.rolled = TRUE, !.stage = "rolled-back"]
  <1>1. e \in Local /\ e.seen = l.seen
    BY <1>0 DEF Local, Stages
  <1>2. Send(c, "rbPersist", WriteMemory, Failed(r, e, "failed"), Failed(r, l, "rollback"))
    BY DEF RbPersist
  <1> HIDE DEF e
  <1>3. Onward(l, Failed(r, e, "failed"))
    BY <1>1, FailedOnward DEF Onward
  <1> QED
    BY <1>0, <1>2, <1>3, NoDelete, SendOnward

LEMMA UndoPersistStaged ==
    ASSUME Inv, CallShaped, StoreInv, StagedInv, NEW c \in Callers, UndoPersist(c)
    PROVE  StagedInv'
  <1> DEFINE r == call[c]
             l == loc[c]
  <1>0. r \in Request /\ l \in Local /\ Onward(l, Failed(r, l, "failed")) /\ Onward(l, Failed(r, l, "rollback"))
    BY CallFacts, FailedOnward
  <1> DEFINE ok == Go("logoff", [l EXCEPT !.rolled = TRUE, !.stage = "rolled-back"])
             bad == Go("logoff", [l EXCEPT !.err = "rollback"])
  <1>1. Onward(l, ok) /\ Onward(l, bad)
    BY <1>0 DEF Onward, Local
  <1>2. Send(c, "undoPersist", WriteMemory, ok, bad)
    BY DEF UndoPersist
  <1> HIDE DEF ok, bad
  <1> QED
    BY <1>1, <1>2, NoDelete, SendOnward

----------------------------------------------------------------------------
(* Requests to delete.                                                     *)

LEMMA RetiredSpares ==
    ASSUME NobodyRetires, Inv, CallShaped, StoreInv, NEW c \in sessions, pc[c] \in Cleaning
    PROVE  Retired(call[c], loc[c].cur) \cap StagedFiles = {}
  <1> DEFINE r == call[c]
             l == loc[c]
  <1>0. c \in Callers
    BY DEF Inv, TypeOK
  <1>1. /\ Shape(r, pc[c], l) /\ Phase(r, pc[c], l, running, startup, doubt[c])
        /\ r \in Requests[c]
    BY <1>0, SessionFacts DEF CallShaped
  <1>2. ~ r.create /\ r.cleanup
    BY <1>1 DEF Shape, Course
  <1>3. /\ l.cur \in SelectCurrent(l.base, r.current, Desired(r))
        /\ l.cur # NoBinding /\ l.cur.cert # r.name
    BY <1>1, <1>2 DEF Shape, Expected, Replaces
  <1>4. l.base.certs \subseteq AllBindings
    BY <1>1, <1>2 DEF Phase, Baseline
  <1>5. l.cur \in AllBindings
    BY <1>3, <1>4 DEF SelectCurrent
  <1>6. \A d \in Callers : StagedBy(d) \cap Retired(r, l.cur) = {}
    <2> SUFFICES ASSUME NEW d \in Callers, call[d].create
                 PROVE  FilesOf(Desired(call[d])) \cap Retired(r, l.cur) = {}
      BY DEF StagedBy
    <2>1. call[d] \in Requests[d]
      BY DEF CallShaped
    <2> QED
      BY <1>0, <1>1, <1>2, <1>3, <1>5, <2>1 DEF NobodyRetires
  <1> QED
    BY <1>6 DEF StagedFiles

LEMMA DeleteOfMessage ==
    ASSUME NEW F \in SUBSET File
    PROVE  DeleteOf(F) \in Message /\ DeleteOf(F).op = "delete" /\ DeleteOf(F).files = F
  BY MessagesTyped DEF DeleteOf

LEMMA DeletePairStaged ==
    ASSUME NobodyRetires, Inv, CallShaped, StoreInv, StagedInv, NEW c \in Callers, DeletePair(c)
    PROVE  StagedInv'
  <1> DEFINE r == call[c]
             l == loc[c]
             doomed == DoomedPair(r, l)
             e == [l EXCEPT !.deleted = doomed]
             m == DeleteOf(doomed)
  <1>0. r \in Request /\ l \in Local /\ Onward(l, Failed(r, l, "failed"))
    BY CallFacts, FailedOnward
  <1>1. pc[c] = "deletePair" /\ l.cur # NoBinding
    BY DEF DeletePair, Send, Inv, LocalsFit, Fits, Retiring
  <1>2. doomed \in SUBSET File
    BY <1>0, <1>1, DoomedTyped
  <1>3. e \in Local /\ e.seen = l.seen
    BY <1>0, <1>2 DEF Local
  <1>4. Send(c, "deletePair", m, AfterPair(r, e), Failed(r, l, "failed"))
    BY DEF DeletePair
  <1>5. doomed \subseteq Retired(r, l.cur)
    BY DEF DoomedPair, Retired
  <1> HIDE DEF doomed, e
  <1>6. c \in sessions => doomed \cap StagedFiles = {}
    BY <1>1, <1>5, RetiredSpares
  <1>7. Onward(l, AfterPair(r, e))
    BY <1>3, EndOnward DEF Onward
  <1>8. m \in Message /\ m.op = "delete" /\ m.files = doomed
    BY <1>2, DeleteOfMessage
  <1> HIDE DEF m
  <1> QED
    BY <1>0, <1>4, <1>6, <1>7, <1>8, SendOnward

LEMMA DeleteChainStaged ==
    ASSUME NobodyRetires, Inv, CallShaped, StoreInv, StagedInv, NEW c \in Callers, DeleteChain(c)
    PROVE  StagedInv'
  <1> DEFINE r == call[c]
             l == loc[c]
             doomed == DoomedChain(r, l)
             e == [l EXCEPT !.deleted = @ \cup doomed]
             m == DeleteOf(doomed)
  <1>0. r \in Request /\ l \in Local /\ Onward(l, Failed(r, l, "failed"))
    BY CallFacts, FailedOnward
  <1>1. pc[c] = "deleteChain" /\ l.cur # NoBinding
    BY DEF DeleteChain, Send, Inv, LocalsFit, Fits, Retiring
  <1>2. doomed \in SUBSET File
    BY <1>0, <1>1, DoomedTyped
  <1>3. e \in Local /\ e.seen = l.seen
    BY <1>0, <1>2 DEF Local
  <1>4. Send(c, "deleteChain", m, AfterCleanup(r, e), Failed(r, l, "failed"))
    BY DEF DeleteChain
  <1>5. doomed \subseteq Retired(r, l.cur)
    BY DEF DoomedChain, Retired
  <1> HIDE DEF doomed, e
  <1>6. c \in sessions => doomed \cap StagedFiles = {}
    BY <1>1, <1>5, RetiredSpares
  <1>7. Onward(l, AfterCleanup(r, e))
    BY <1>3, EndOnward DEF Onward
  <1>8. m \in Message /\ m.op = "delete" /\ m.files = doomed
    BY <1>2, DeleteOfMessage
  <1> HIDE DEF m
  <1> QED
    BY <1>0, <1>4, <1>6, <1>7, <1>8, SendOnward

(* What a call has uploaded itself was not there before. *)
LEMMA UploadsUnstaged ==
    ASSUME Inv, CallShaped, StagedInv, used["reboot"] = 0, NEW c \in sessions, pc[c] \in Undoing
    PROVE  loc[c].up \cap StagedFiles = {}
  <1>1. c \in Callers
    BY DEF Inv, TypeOK
  <1>2. loc[c].up \cap loc[c].seen = {}
    BY <1>1 DEF CallShaped, Shape, Common
  <1>3. StagedFiles \subseteq loc[c].seen
    BY SessionKnows DEF Knows
  <1> QED
    BY <1>2, <1>3

LEMMA UndoPairStaged ==
    ASSUME Inv, CallShaped, StoreInv, StagedInv, NEW c \in Callers, UndoPair(c)
    PROVE  StagedInv'
  <1> DEFINE r == call[c]
             l == loc[c]
             F == l.up \cap PairOf(Desired(r))
             m == DeleteOf(F)
             ok == Go(IF l.up \subseteq PairOf(Desired(r)) THEN "undoCerts" ELSE "undoChain", l)
  <1>0. r \in Request /\ l \in Local /\ Onward(l, UndoFailed(r, l)) /\ Onward(l, ok)
    BY CallFacts, RollbackOnward DEF Onward
  <1>1. pc[c] = "undoPair" /\ Send(c, "undoPair", m, ok, UndoFailed(r, l))
    BY DEF UndoPair, Send
  <1>2. F \in SUBSET File
    BY <1>0 DEF Local
  <1>3. used["reboot"] = 0 /\ c \in sessions => F \cap StagedFiles = {}
    BY <1>1, UploadsUnstaged
  <1>4. m \in Message /\ m.op = "delete" /\ m.files = F
    BY <1>2, DeleteOfMessage
  <1> HIDE DEF m, F, ok
  <1> QED
    BY <1>0, <1>1, <1>3, <1>4, SendOnward

LEMMA UndoChainStaged ==
    ASSUME Inv, CallShaped, StoreInv, StagedInv, NEW c \in Callers, UndoChain(c)
    PROVE  StagedInv'
  <1> DEFINE r == call[c]
             l == loc[c]
             F == l.up \ PairOf(Desired(r))
             m == DeleteOf(F)
             ok == Go("undoCerts", l)
  <1>0. r \in Request /\ l \in Local /\ Onward(l, UndoFailed(r, l)) /\ Onward(l, ok)
    BY CallFacts, RollbackOnward DEF Onward
  <1>1. pc[c] = "undoChain" /\ Send(c, "undoChain", m, ok, UndoFailed(r, l))
    BY DEF UndoChain, Send
  <1>2. F \in SUBSET File
    BY <1>0 DEF Local
  <1>3. used["reboot"] = 0 /\ c \in sessions => F \cap StagedFiles = {}
    BY <1>1, UploadsUnstaged
  <1>4. m \in Message /\ m.op = "delete" /\ m.files = F
    BY <1>2, DeleteOfMessage
  <1> HIDE DEF m, F, ok
  <1> QED
    BY <1>0, <1>1, <1>3, <1>4, SendOnward

----------------------------------------------------------------------------
(* Until the files are listed there is nothing to take back.               *)

LEMMA FailedOpening ==
    ASSUME NEW r, NEW l \in Local, Untouched(l), NEW err
    PROVE  Failed(r, l, err).at = "logoff"
  BY DEF Local, Untouched, Failed

LEMMA OpeningUntouched ==
    ASSUME CallShaped, NEW c \in Callers, pc[c] \in Opening \cup Listing
    PROVE  Untouched(loc[c])
  BY DEF CallShaped, Shape, Course

LEMMA VersionStaged ==
    ASSUME Inv, CallShaped, StoreInv, StagedInv, NEW c \in Callers, Version(c)
    PROVE  StagedInv'
  <1> DEFINE r == call[c]
             l == loc[c]
             ok == Go(IF r.create THEN "listCerts" ELSE "inspect",
                      [l EXCEPT !.stage = "compatibility-verified"])
             bad == Failed(r, l, "failed")
  <1>1. Query(c, "version", ok, bad) /\ pc[c] = "version"
    BY DEF Version, Query
  <1>2. bad.at = "logoff"
    BY <1>1, CallFacts, OpeningUntouched, FailedOpening
  <1>3. ok.at \in {"listCerts", "inspect"}
    OBVIOUS
  <1> HIDE DEF ok, bad
  <1>4. Knows(ok.at, ok.loc) /\ Knows(bad.at, bad.loc)
    BY <1>2, <1>3 DEF Knows
  <1> QED
    BY <1>1, <1>2, <1>3, <1>4, QueryStaged

LEMMA InspectStaged ==
    ASSUME Inv, CallShaped, StoreInv, StagedInv, NEW c \in Callers, Inspect(c)
    PROVE  StagedInv'
  <1> DEFINE r == call[c]
             l == loc[c]
             T == running.tmpl[r.tmpl]
             choice == SelectCurrent(T, r.current, Desired(r))
             read == [l EXCEPT !.base = T, !.exp = T, !.stage = "state-inspected"]
             ok == IF Unexpected(l, T) THEN Failed(r, read, "conflict")
                   ELSE IF choice = {} THEN Failed(r, read, "slot")
                   ELSE Go("listCerts", [read EXCEPT !.cur = CHOOSE b \in choice : TRUE])
             bad == Failed(r, l, "failed")
  <1>0. l \in Local /\ T \in Template
    BY RequestsTyped DEF Inv
  <1>1. Query(c, "inspect", ok, bad) /\ pc[c] = "inspect"
    BY DEF Inspect, Query
  <1>2. Untouched(l) /\ bad.at = "logoff"
    BY <1>0, <1>1, OpeningUntouched, FailedOpening
  <1>3. read \in Local /\ Untouched(read)
    BY <1>0, <1>2 DEF Local, Stages, Untouched
  <1>4. Failed(r, read, "conflict").at = "logoff" /\ Failed(r, read, "slot").at = "logoff"
    BY <1>3, FailedOpening
  <1>5. ok.at \in {"listCerts", "logoff"}
    BY <1>4
  <1> HIDE DEF ok, bad
  <1>6. Knows(ok.at, ok.loc) /\ Knows(bad.at, bad.loc)
    BY <1>2, <1>5 DEF Knows
  <1> QED
    BY <1>1, <1>2, <1>5, <1>6, QueryStaged

LEMMA ListCertsStaged ==
    ASSUME Inv, CallShaped, StoreInv, StagedInv, NEW c \in Callers, ListCerts(c)
    PROVE  StagedInv'
  <1> DEFINE r == call[c]
             l == loc[c]
             ok == Go("listKeys", [l EXCEPT !.seen = StoreFiles("cert")])
             bad == Failed(r, l, "failed")
  <1>1. Query(c, "listCerts", ok, bad) /\ pc[c] = "listCerts"
    BY DEF ListCerts, Query
  <1>2. bad.at = "logoff"
    BY <1>1, CallFacts, OpeningUntouched, FailedOpening
  <1>3. ok.at = "listKeys" /\ ok.loc.seen = StoreFiles("cert")
    BY CallFacts DEF Local
  <1> HIDE DEF ok, bad
  <1>4. used["reboot"] = 0 => Knows(ok.at, ok.loc) /\ Knows(bad.at, bad.loc)
    BY <1>2, <1>3 DEF Knows, StagedInv, StoreFiles
  <1> QED
    BY <1>1, <1>2, <1>3, <1>4, QueryStaged

LEMMA ListKeysStaged ==
    ASSUME Inv, CallShaped, StoreInv, StagedInv, NEW c \in Callers, ListKeys(c)
    PROVE  StagedInv'
  <1> DEFINE r == call[c]
             l == loc[c]
             ok == Go("listInfo", [l EXCEPT !.seen = @ \cup StoreFiles("key")])
             bad == Failed(r, l, "failed")
  <1>1. Query(c, "listKeys", ok, bad) /\ pc[c] = "listKeys"
    BY DEF ListKeys, Query
  <1>2. bad.at = "logoff"
    BY <1>1, CallFacts, OpeningUntouched, FailedOpening
  <1>3. ok.at = "listInfo" /\ ok.loc.seen = l.seen \cup StoreFiles("key")
    BY CallFacts DEF Local
  <1>4. running.files \subseteq File
    BY DEF Inv, TypeOK, Config
  <1> HIDE DEF ok, bad
  <1>5. ASSUME used["reboot"] = 0, c \in sessions
        PROVE  Knows(ok.at, ok.loc) /\ Knows(bad.at, bad.loc)
    <2>1. StagedFiles \subseteq running.files /\ {f \in StagedFiles : f[1] = "cert"} \subseteq l.seen
      BY <1>1, <1>5, SessionKnows DEF Knows, StagedInv
    <2>2. \A f \in running.files : f[1] = "cert" \/ f[1] = "key"
      BY <1>4 DEF File
    <2>3. StagedFiles \subseteq ok.loc.seen
      BY <1>3, <2>1, <2>2 DEF StoreFiles
    <2> QED
      BY <1>2, <1>3, <2>3 DEF Knows
  <1> QED
    BY <1>1, <1>2, <1>3, <1>5, QueryStaged

----------------------------------------------------------------------------
(* Calls, and what happens around them.                                    *)

LEMMA OutsideStaged ==
    ASSUME Inv, StagedInv, used'["reboot"] = used["reboot"],
           running.files \subseteq running'.files, StagedFiles' \subseteq StagedFiles,
           \A d \in Callers : doubt'[d] \subseteq doubt[d],
           \A d \in sessions' : \/ d \in sessions /\ pc'[d] = pc[d] /\ loc'[d] = loc[d]
                                \/ pc'[d] = "version"
    PROVE  StagedInv'
  BY DEF StagedInv, Knows

(* A caller takes a step that does not end a call well. *)
LEMMA LeavesStaged ==
    ASSUME Inv, NEW c \in Callers, NEW o, Take(c, o),
           o.at = "returned" => o.loc.err # "none",
           \A d \in Callers \ {c} : call'[d] = call[d]
    PROVE  /\ StagedFiles' \subseteq StagedFiles
           /\ \A d \in Callers \ {c} : pc'[d] = pc[d] /\ loc'[d] = loc[d]
  <1>1. /\ pc'[c] = o.at /\ loc'[c] = o.loc
        /\ \A d \in Callers \ {c} : pc'[d] = pc[d] /\ loc'[d] = loc[d]
    BY TakeOther
  <1>2. \A d \in Callers : StagedBy(d)' \subseteq StagedBy(d)
    BY <1>1 DEF StagedBy
  <1> QED
    BY <1>1, <1>2, FewerStaged

LEMMA InvokeStaged ==
    ASSUME Inv, StoreInv, StagedInv, NEW c \in Callers, Invoke(c)
    PROVE  StagedInv'
  <1>1. PICK r \in Requests[c] :
            /\ pc[c] \in Rest /\ call' = [call EXCEPT ![c] = r] /\ UNCHANGED appliance
            /\ Spend("call")
            /\ Take(c, Go("lock", Fresh(IF r.pinned THEN {running.tmpl[r.tmpl]} ELSE {})))
    BY DEF Invoke
  <1>2. \A d \in Callers \ {c} : call'[d] = call[d]
    BY <1>1 DEF Inv, TypeOK
  <1>3. c \notin sessions
    BY <1>1, NoSession
  <1>4. used'["reboot"] = used["reboot"]
    BY <1>1, SpendOther DEF Budget
  <1>5. /\ StagedFiles' \subseteq StagedFiles
        /\ \A d \in Callers \ {c} : pc'[d] = pc[d] /\ loc'[d] = loc[d]
    BY <1>1, <1>2, LeavesStaged
  <1>6. sessions \subseteq Callers
    BY DEF Inv, TypeOK
  <1> QED
    BY <1>1, <1>3, <1>4, <1>5, <1>6, OutsideStaged DEF appliance

LEMMA RetryStaged ==
    ASSUME Inv, StoreInv, StagedInv, NEW c \in Callers, Retry(c)
    PROVE  StagedInv'
  <1>1. /\ pc[c] \in Rest /\ UNCHANGED <<appliance, call, used>>
        /\ Take(c, Go("lock", Fresh({})))
    BY DEF Retry
  <1>2. c \notin sessions
    BY <1>1, NoSession
  <1>3. /\ StagedFiles' \subseteq StagedFiles
        /\ \A d \in Callers \ {c} : pc'[d] = pc[d] /\ loc'[d] = loc[d]
    BY <1>1, LeavesStaged
  <1>4. sessions \subseteq Callers
    BY DEF Inv, TypeOK
  <1> QED
    BY <1>1, <1>2, <1>3, <1>4, OutsideStaged DEF appliance

LEMMA LockStaged ==
    ASSUME Inv, StoreInv, StagedInv, NEW c \in Callers, Lock(c)
    PROVE  StagedInv'
  <1>1. /\ pc[c] = "lock" /\ UNCHANGED <<appliance, call, used>>
        /\ Take(c, Go(IF OnSession(c) THEN "version" ELSE "auth", loc[c]))
    BY DEF Lock
  <1>2. c \notin sessions
    BY <1>1, NoSession
  <1>3. /\ StagedFiles' \subseteq StagedFiles
        /\ \A d \in Callers \ {c} : pc'[d] = pc[d] /\ loc'[d] = loc[d]
    BY <1>1, LeavesStaged
  <1>4. sessions \subseteq Callers
    BY DEF Inv, TypeOK
  <1> QED
    BY <1>1, <1>2, <1>3, <1>4, OutsideStaged DEF appliance

LEMMA AuthStaged ==
    ASSUME Inv, StoreInv, StagedInv, NEW c \in Callers, Auth(c)
    PROVE  StagedInv'
  <1>1. pc[c] = "auth" /\ UNCHANGED <<running, doubt, call>> /\ c \notin sessions
    BY NoSession DEF Auth
  <1>2. sessions \subseteq Callers
    BY DEF Inv, TypeOK
  <1>3. CASE sessions' = sessions \cup {c} /\ Take(c, Go("version", loc[c])) /\ UNCHANGED used
    <2>1. /\ StagedFiles' \subseteq StagedFiles
          /\ \A d \in Callers \ {c} : pc'[d] = pc[d] /\ loc'[d] = loc[d]
      BY <1>1, <1>3, LeavesStaged
    <2>2. pc'[c] = "version"
      BY <1>3, TakeOther
    <2> QED
      BY <1>1, <1>2, <1>3, <2>1, <2>2, OutsideStaged
  <1>4. CASE UNCHANGED sessions /\ Spend("fault") /\ Take(c, Go("returned", [loc[c] EXCEPT !.err = "failed"]))
    <2>1. [loc[c] EXCEPT !.err = "failed"].err # "none"
      BY DEF Inv, TypeOK, Local
    <2>2. /\ StagedFiles' \subseteq StagedFiles
          /\ \A d \in Callers \ {c} : pc'[d] = pc[d] /\ loc'[d] = loc[d]
      BY <1>1, <1>4, <2>1, LeavesStaged
    <2>3. used'["reboot"] = used["reboot"]
      BY <1>4, SpendOther DEF Budget
    <2> QED
      BY <1>1, <1>2, <1>4, <2>2, <2>3, OutsideStaged
  <1> QED
    BY <1>3, <1>4 DEF Auth

(* A pre-staging call that reports success has its files in place. *)
LEMMA LogoffStaged ==
    ASSUME Inv, CallShaped, StoreInv, StagedInv, NEW c \in Callers, Logoff(c)
    PROVE  StagedInv'
  <1>0. loc[c] \in Local /\ sessions \subseteq Callers
    BY CallFacts DEF Inv, TypeOK
  <1>1. /\ sessions' = sessions \ {c} /\ doubt' = [doubt EXCEPT ![c] = {}]
        /\ UNCHANGED <<running, startup, call>> /\ pc[c] = "logoff"
    BY DEF Logoff
  <1>2. PICK e \in {"none", "logoff"} :
            /\ e = "none" => c \in sessions
            /\ used'["reboot"] = used["reboot"]
            /\ Take(c, Go("returned",
                       [Fresh({}) EXCEPT !.stage = loc[c].stage,
                                         !.err = IF loc[c].err = "none" THEN e ELSE loc[c].err]))
    BY BreaksOther DEF Logoff
  <1> DEFINE f == [Fresh({}) EXCEPT !.stage = loc[c].stage,
                                    !.err = IF loc[c].err = "none" THEN e ELSE loc[c].err]
  <1>3. f.err = IF loc[c].err = "none" THEN e ELSE loc[c].err
    BY DEF Fresh
  <1>4. Take(c, Go("returned", f))
    BY <1>2
  <1> HIDE DEF f
  <1>5. /\ pc'[c] = "returned" /\ loc'[c] = f
        /\ \A d \in Callers \ {c} : pc'[d] = pc[d] /\ loc'[d] = loc[d]
    BY <1>4, TakeOther
  <1>6. \A d \in Callers : doubt'[d] \subseteq doubt[d]
    BY <1>1 DEF Inv, TypeOK
  <1>7. CASE f.err # "none"
    <2>1. StagedFiles' \subseteq StagedFiles
      BY <1>1, <1>4, <1>7, LeavesStaged
    <2> QED
      BY <1>0, <1>1, <1>2, <1>5, <1>6, <2>1, OutsideStaged
  <1>8. CASE f.err = "none"
    <2>1. c \in sessions /\ loc[c].err = "none"
      BY <1>2, <1>3, <1>8
    <2>2. sessions' = {} /\ \A d \in Callers : doubt'[d] = {}
      <3>1. \A d \in sessions : d = c
        BY <2>1, OneSession
      <3>2. \A d \in Callers : d \notin sessions => doubt[d] = {}
        BY DEF StoreInv
      <3> QED
        BY <1>1, <3>1, <3>2 DEF Inv, TypeOK
    <2>3. call[c].create => FilesOf(Desired(call[c])) \subseteq running.files
      BY <1>1, <2>1, SessionFacts DEF Phase, Listed
    <2>4. \A d \in Callers : StagedBy(d)' \subseteq StagedBy(d) \cup running.files
      BY <1>1, <1>5, <2>3 DEF StagedBy
    <2>5. StagedFiles' \subseteq StagedFiles \cup running.files
      BY <2>4 DEF StagedFiles
    <2> QED
      BY <1>1, <1>2, <2>2, <2>5 DEF StagedInv
  <1> QED
    BY <1>7, <1>8

LEMMA CrashStaged ==
    ASSUME Inv, StagedInv, NEW k \in Clients, Crash(k)
    PROVE  StagedInv'
  <1> DEFINE f == [Fresh({}) EXCEPT !.err = "crashed"]
             dead == {c \in UsersOf(k) : pc[c] \notin Rest}
  <1>1. f.err = "crashed"
    BY DEF Fresh
  <1>2. /\ pc' = [c \in Callers |-> IF c \in dead THEN "returned" ELSE pc[c]]
        /\ loc' = [c \in Callers |-> IF c \in dead THEN f ELSE loc[c]]
        /\ UNCHANGED <<running, call>> /\ sessions' = sessions \ UsersOf(k)
        /\ \A d \in Callers : doubt'[d] \subseteq doubt[d]
    BY DEF Crash, Settle
  <1>3. dead \subseteq UsersOf(k) /\ sessions \subseteq Callers
    BY DEF Inv, TypeOK
  <1> HIDE DEF f, dead
  <1>4. \A d \in Callers : StagedBy(d)' \subseteq StagedBy(d)
    BY <1>1, <1>2 DEF StagedBy
  <1>5. used'["reboot"] = used["reboot"]
    BY SpendOther DEF Crash, Budget
  <1> QED
    BY <1>2, <1>3, <1>4, <1>5, FewerStaged, OutsideStaged

LEMMA UnchangedStaged ==
    ASSUME UNCHANGED <<pc, call, loc>>
    PROVE  StagedFiles' = StagedFiles
  BY SameStaged DEF StagedBy

LEMMA DeliverStaged ==
    ASSUME Inv, StagedInv, NEW c \in Callers, Deliver(c)
    PROVE  StagedInv'
  <1>1. PICK m \in doubt[c] : Process(m) /\ doubt' = [doubt EXCEPT ![c] = @ \ {m}]
    BY DEF Deliver
  <1>2. UNCHANGED <<sessions, pc, call, loc, used>>
    BY DEF Deliver
  <1>3. running \in Config /\ m \in Message
    BY DEF Inv, TypeOK
  <1>4. /\ m.op # "delete" => running.files \subseteq running'.files
        /\ m.op = "delete" => running'.files = running.files \ m.files
    BY <1>1, <1>3, ProcessFiles
  <1>5. StagedFiles' = StagedFiles
    BY <1>2, UnchangedStaged
  <1>6. used["reboot"] = 0 => StagedFiles \subseteq running'.files
    BY <1>1, <1>4 DEF StagedInv
  <1>7. \A d \in Callers : doubt'[d] \subseteq doubt[d]
    BY <1>1 DEF Inv, TypeOK
  <1> QED
    BY <1>2, <1>5, <1>6, <1>7 DEF StagedInv, Knows

LEMMA RebootStaged ==
    ASSUME Inv, Reboot
    PROVE  StagedInv'
  <1>1. used["reboot"] \in Nat /\ used'["reboot"] = used["reboot"] + 1
    BY DEF Reboot, Spend, Inv, TypeOK, Budget
  <1> QED
    BY <1>1 DEF StagedInv

LEMMA OperatorEditStaged ==
    ASSUME Inv, StagedInv, OperatorEdit
    PROVE  StagedInv'
  <1>1. UNCHANGED <<sessions, doubt, pc, call, loc>> /\ Spend("edit") /\ running \in Config
    BY DEF OperatorEdit, Inv, TypeOK
  <1>2. used'["reboot"] = used["reboot"]
    BY <1>1, SpendOther DEF Budget
  <1>3. ASSUME NEW m \in Message, running' \in Results(running, m), m.op \in {"bind", "unbind"}
        PROVE  running'.files = running.files
    <2>1. Effect(running, startup, m, running', startup)
      BY <1>3 DEF Effect
    <2>2. CASE m.op = "bind"
      BY <1>1, <1>3, <2>1, <2>2, BindEffect DEF OneTemplate
    <2>3. CASE m.op = "unbind"
      BY <1>1, <1>3, <2>1, <2>3, UnbindEffect DEF OneTemplate
    <2> QED
      BY <1>3, <2>2, <2>3
  <1>4. ASSUME NEW t \in Templates, NEW b \in OperatorBindings, running' \in Results(running, BindOf(t, b))
        PROVE  running'.files = running.files
    <2>1. BindOf(t, b) \in Message /\ BindOf(t, b).op = "bind"
      BY OperatorAssumption, NoDelete
    <2> QED
      BY <1>3, <1>4, <2>1
  <1>5. ASSUME NEW t \in Templates, NEW n \in Names, running' \in Results(running, UnbindOf(t, n))
        PROVE  running'.files = running.files
    <2>1. UnbindOf(t, n) \in Message /\ UnbindOf(t, n).op = "unbind"
      BY NoDelete
    <2> QED
      BY <1>3, <1>5, <2>1
  <1>6. ASSUME NEW f,
               \/ running' = [running EXCEPT !.server = @ \cup {f}]
               \/ \E t \in Templates : running' = [running EXCEPT !.tmpl[t].extra = @ \cup {f}]
        PROVE  running'.files = running.files
    BY <1>1, <1>6 DEF Config
  <1>7. running'.files = running.files
    BY <1>4, <1>5, <1>6 DEF OperatorEdit
  <1>8. StagedFiles' = StagedFiles
    BY <1>1, UnchangedStaged
  <1> QED
    BY <1>1, <1>2, <1>7, <1>8, OutsideStaged

LEMMA RotateStaged ==
    ASSUME NobodyRetires, Inv, CallShaped, StoreInv, StagedInv, NEW c \in Callers, Rotate(c)
    PROVE  StagedInv'
  BY VersionStaged, InspectStaged, ListCertsStaged, ListKeysStaged, ListInfoStaged, UpKeyStaged,
     UpCertStaged, UpChainStaged, PreBindStaged, BindStaged, ReadBackStaged, VerifyBoundStaged,
     PreUnbindStaged, UnbindStaged, PostUnbindStaged, PrePersistStaged, PersistStaged,
     ScanClientStaged, ScanServerStaged, DeletePairStaged, DeleteChainStaged, PersistCleanupStaged,
     CreatePersistStaged DEF Rotate

LEMMA RollbackStaged ==
    ASSUME Inv, CallShaped, StoreInv, StagedInv, NEW c \in Callers, Rollback(c)
    PROVE  StagedInv'
  BY RbInspectStaged, RbBindStaged, RbRereadStaged, RbUnbindStaged, RbVerifyStaged, RbPersistStaged,
     UndoPairStaged, UndoChainStaged, UndoCertsStaged, UndoKeysStaged, UndoPersistStaged
     DEF Rollback

LEMMA NextStaged ==
    ASSUME NobodyRetires, Inv, CallShaped, StoreInv, StagedInv, [Next]_vars, landed' = {}
    PROVE  StagedInv'
  <1>1. ASSUME NEW c \in Callers, Invoke(c) \/ Retry(c) \/ Lock(c) \/ Auth(c)
        PROVE  StagedInv'
    BY <1>1, InvokeStaged, RetryStaged, LockStaged, AuthStaged
  <1>2. ASSUME NEW c \in Callers, Rotate(c) \/ Rollback(c) \/ Logoff(c)
        PROVE  StagedInv'
    BY <1>2, RotateStaged, RollbackStaged, LogoffStaged
  <1>3. ASSUME NEW c \in Callers, Unlock(c)
        PROVE  StagedInv'
    BY <1>3 DEF Unlock, OnSession, StoreInv, Premises
  <1>4. CASE Environment
    <2>1. ASSUME NEW k \in Clients, CloseSession(k)
          PROVE  StagedInv'
      BY <2>1 DEF CloseSession, StoreInv, Premises
    <2>2. ~ Land
      BY DEF Land
    <2> QED
      BY <1>4, <2>1, <2>2, OperatorEditStaged, RebootStaged, CrashStaged, DeliverStaged
         DEF Environment
  <1>5. CASE UNCHANGED vars
    <2>1. StagedFiles' = StagedFiles
      BY <1>5, UnchangedStaged DEF vars
    <2> QED
      BY <1>5, <2>1 DEF vars, StagedInv, Knows
  <1> QED
    BY <1>1, <1>2, <1>3, <1>4, <1>5 DEF Next, Step, Finished

LEMMA InitStaged == Premises /\ Init => StagedInv
  <1> SUFFICES ASSUME Premises, Init
               PROVE  StagedInv
    OBVIOUS
  <1>1. \A c \in Callers : StagedBy(c) = {}
    BY DEF Init, StagedBy
  <1>2. StagedFiles = {}
    BY <1>1 DEF StagedFiles
  <1>3. sessions = {} /\ \A c \in Callers : doubt[c] = {}
    BY DEF Init, OnSession, Premises
  <1> QED
    BY <1>2, <1>3 DEF StagedInv

(* Material staged ahead stays where it is until the appliance restarts,   *)
(* whatever happens to the rotations that pick it up and to those that     *)
(* retire other material: what a call takes back it has itself uploaded    *)
(* after it had listed the files.  A stray request, of a call that ended   *)
(* without ending its signature, knows no such list: until one is carried  *)
(* out.                                                                    *)
THEOREM StagedStays ==
    Premises /\ NobodyRetires /\ Spec => [](landed = {} => StagedMaterialStays)
  <1> DEFINE I == Inv /\ CallShaped /\ (landed = {} => StoreInv)
             J == landed = {} => StagedInv
  <1>1. NobodyRetires /\ I /\ J /\ [Next]_vars => J'
    BY NextStaged, LandedGrows
  <1>2. NobodyRetires => NobodyRetires'
    OBVIOUS
  <1>3. Premises /\ Spec => []I
    BY StoreInvHolds
  <1>4. Premises /\ Init => J
    BY InitStaged
  <1>5. J => (landed = {} => StagedMaterialStays)
    BY DEF StagedInv, StagedMaterialStays, StagedFiles, StagedBy
  <1> HIDE DEF I, J
  <1> QED
    BY <1>1, <1>2, <1>3, <1>4, <1>5, PTL DEF Spec

----------------------------------------------------------------------------
(* Undisturbed calls of one Client: each leaves the appliance as tidy as   *)
(* it has found it.                                                        *)

(* Sets of files that belong together: those of a binding, and what other  *)
(* parts of the configuration refer to.                                    *)
Sources ==
    {FilesOf(b) : b \in AllBindings} \cup {config.server : config \in InitialConfigs}
        \cup UNION {{config.tmpl[t].extra : t \in Templates} : config \in InitialConfigs}

(* Everybody cleans up; a certificate name stands for one binding, and a   *)
(* file name for the same files wherever it is used (the reference scan    *)
(* compares names only); in the beginning nothing is left over.            *)
TidyPremises ==
    /\ \A c \in Callers : \A r \in Requests[c] : r.cleanup /\ ~ r.noWrite /\ ~ r.create
    /\ IsFiniteSet(AllBindings)
    /\ \A b \in AllBindings : b.chain # b.cert /\ \A d \in AllBindings : b.cert = d.cert => b = d
    /\ \A config \in InitialConfigs : config.files = Refs(config)
    /\ \A A, B \in Sources : \A f \in A, g \in B : f[2] = g[2] => f \in B

----------------------------------------------------------------------------
(* What an undisturbed call can rely on.                                   *)

(* Nobody has changed what else the appliance refers to. *)
Rooted(R) ==
    \E config \in InitialConfigs :
        /\ R.server = config.server
        /\ \A t \in Templates : R.tmpl[t].extra = config.tmpl[t].extra

Clean(R, S) == R.files = Refs(R) /\ S = R

(* On the way to the bind only what the call has uploaded is left over. *)
Loaded(l, R, S) ==
    /\ S.tmpl = R.tmpl /\ S.server = R.server /\ S.files = Refs(R)
    /\ R.files = Refs(R) \cup l.up
    /\ l.seen = Refs(R)

(* Afterwards it is what the old binding leaves. *)
Leftover(r, l) == IF Replaces(r, l) THEN FilesOf(l.cur) ELSE {}

Before == {"listInfo", "preBind", "verifyBound", "bind"} \cup Uploading
After == {"readBack", "preUnbind", "unbind", "postUnbind", "prePersist", "persist", "scanClient",
          "scanServer", "deletePair"}

(* The template as the bind leaves it. *)
Exchanged(r, l, T) ==
    LET with == WithBinding(l.base, Desired(r))
    IN  T = with \/ (Replaces(r, l) /\ T = WithoutCertificate(with, l.cur.cert))

TidyBefore(r, at, l, R, S) ==
    /\ at \in {"version", "inspect", "listCerts", "listKeys", "undoCerts", "undoKeys", "logoff"} => Clean(R, S)
    /\ at = "listKeys" => l.seen = {f \in R.files : f[1] = "cert"}
    /\ at \in Before \cup {"undoPair"} => Loaded(l, R, S)
    /\ at = "undoChain" => Loaded([l EXCEPT !.up = @ \ PairOf(Desired(r))], R, S)
    /\ at \in Undoing => ~ l.full
    /\ at = "bind" => FilesOf(Desired(r)) \subseteq R.files

TidyAfter(r, at, l, R, S) ==
    /\ at = "readBack" => Exchanged(r, l, R.tmpl[r.tmpl])
    /\ at \in After => R.files = Refs(R) \cup Leftover(r, l)
    /\ at \in {"scanClient", "scanServer", "deletePair"} => S = R
    /\ at \in {"scanServer", "deletePair", "deleteChain"} => l.refs \subseteq NamesIn(Refs(R))
    /\ at = "deletePair" => DoomedPair(r, l) # {}
    /\ at = "deleteChain" =>
          R.files = Refs(R) \cup (Leftover(r, l) \ DoomedPair(r, l)) /\ DoomedChain(r, l) # {}
    /\ at = "persistCleanup" => R.files = Refs(R)

Tidy(r, at, l, R, S) ==
    at \notin Restoring /\ TidyBefore(r, at, l, R, S) /\ TidyAfter(r, at, l, R, S)

(* The inductive invariant. *)
TidyInv ==
    Undisturbed =>
        /\ Rooted(running)
        /\ \A c \in Callers : doubt[c] = {} /\ (Active(c) /\ pc[c] # "auth" => c \in sessions)
        /\ sessions = {} => Clean(running, startup)
        /\ \A c \in sessions : Tidy(call[c], pc[c], loc[c], running, startup)

USE DEF Before, After

----------------------------------------------------------------------------
(* Files of one name.                                                      *)

LEMMA SameName ==
    ASSUME TidyPremises, NEW R, Rooted(R), Sound(R), NEW b \in AllBindings,
           NEW f \in FilesOf(b), f[2] \in NamesIn(Refs(R))
    PROVE  f \in Refs(R)
  <1>1. PICK g \in Refs(R) : f[2] = g[2]
    BY DEF NamesIn
  <1>2. PICK config \in InitialConfigs :
            /\ R.server = config.server
            /\ \A t \in Templates : R.tmpl[t].extra = config.tmpl[t].extra
    BY DEF Rooted
  <1>3. PICK A \in Sources : g \in A /\ A \subseteq Refs(R)
    <2>1. CASE g \in R.server
      BY <1>2, <2>1, InRefs DEF Sources
    <2>2. ASSUME NEW t \in Templates, g \in TemplateFiles(R.tmpl[t])
          PROVE  \E A \in Sources : g \in A /\ A \subseteq Refs(R)
      <3>1. CASE g \in R.tmpl[t].extra
        <4>1. R.tmpl[t].extra \in Sources
          BY <1>2 DEF Sources
        <4>2. R.tmpl[t].extra \subseteq Refs(R)
          BY InRefs DEF TemplateFiles
        <4> QED
          BY <3>1, <4>1, <4>2
      <3>2. ASSUME NEW d \in R.tmpl[t].certs, g \in FilesOf(d)
            PROVE  \E A \in Sources : g \in A /\ A \subseteq Refs(R)
        <4>1. FilesOf(d) \in Sources
          BY DEF Sources, Sound
        <4>2. FilesOf(d) \subseteq Refs(R)
          BY InRefs DEF TemplateFiles
        <4> QED
          BY <3>2, <4>1, <4>2
      <3> QED
        BY <2>2, <3>1, <3>2 DEF TemplateFiles
    <2> QED
      BY <2>1, <2>2, InRefs
  <1>4. FilesOf(b) \in Sources
    BY DEF Sources
  <1> QED
    BY <1>1, <1>3, <1>4 DEF TidyPremises

LEMMA BoundInRefs ==
    ASSUME NEW R, NEW t \in Templates, NEW b \in R.tmpl[t].certs
    PROVE  FilesOf(b) \subseteq Refs(R)
  BY InRefs DEF TemplateFiles

(* What the cleanup finds unused is all that the old binding leaves. *)
LEMMA LeftoverDoomed ==
    ASSUME TidyPremises, NEW R, Rooted(R), Sound(R), NEW r, NEW l, l.refs \subseteq NamesIn(Refs(R)),
           l.cur \in AllBindings, FilesOf(Desired(r)) \subseteq Refs(R)
    PROVE  FilesOf(l.cur) \subseteq Refs(R) \cup DoomedPair(r, l) \cup DoomedChain(r, l)
  <1> SUFFICES ASSUME NEW f \in FilesOf(l.cur), f \notin Refs(R)
               PROVE  f \in DoomedPair(r, l) \cup DoomedChain(r, l)
    OBVIOUS
  <1>1. f[2] \notin l.refs
    BY SameName
  <1>2. f \notin FilesOf(Desired(r))
    OBVIOUS
  <1> QED
    BY <1>1, <1>2 DEF FilesOf, DoomedPair, DoomedChain

----------------------------------------------------------------------------
(* While nothing disturbs, every request gets its good answer.             *)

LEMMA Disturbed ==
    ASSUME Inv, NEW b \in {"fault", "edit", "reboot", "crash"}, Spend(b)
    PROVE  ~ Undisturbed'
  <1>1. used[b] \in Nat /\ used'[b] = used[b] + 1
    BY DEF Spend, Inv, TypeOK, Budget
  <1> QED
    BY <1>1 DEF Undisturbed

LEMMA CalmBreak ==
    ASSUME Inv, NEW c, Breaks(c), Undisturbed'
    PROVE  c \notin sessions /\ Undisturbed
  <1>1. c \notin sessions
    BY Disturbed DEF Breaks
  <1> QED
    BY <1>1 DEF Breaks, Undisturbed

LEMMA QueryTidy ==
    ASSUME Inv, CallShaped, StoreInv, TidyInv, NEW c \in Callers, NEW label \in InCall \ {"auth"},
           NEW ok, NEW bad, Query(c, label, ok, bad), ok.at # "auth",
           Undisturbed /\ c \in sessions => Tidy(call[c], ok.at, ok.loc, running, startup)
    PROVE  TidyInv'
  <1> SUFFICES ASSUME Undisturbed'
               PROVE  TidyInv'
    BY DEF TidyInv
  <1>1. UNCHANGED <<running, startup, sessions, doubt, call>> /\ pc[c] = label
    BY DEF Query, appliance
  <1>2. Undisturbed
    BY CalmBreak DEF Query, Undisturbed
  <1>3. c \in sessions
    BY <1>1, <1>2 DEF TidyInv, Active
  <1>4. Take(c, ok)
    BY <1>3, CalmBreak DEF Query
  <1>5. /\ pc'[c] = ok.at /\ loc'[c] = ok.loc
        /\ \A d \in Callers \ {c} : pc'[d] = pc[d] /\ loc'[d] = loc[d]
    BY <1>4, TakeOther
  <1>6. sessions \subseteq Callers
    BY DEF Inv, TypeOK
  <1>7. Rooted(running') /\ Clean(running', startup') = Clean(running, startup)
    BY <1>1, <1>2 DEF TidyInv, Rooted, Clean
  <1>8. \A d \in sessions' : Tidy(call'[d], pc'[d], loc'[d], running', startup')
    BY <1>1, <1>2, <1>3, <1>5, <1>6 DEF TidyInv
  <1>9. \A d \in Callers : doubt'[d] = {} /\ (Active(d)' /\ pc'[d] # "auth" => d \in sessions')
    BY <1>1, <1>2, <1>3, <1>5 DEF TidyInv, Active
  <1> QED
    BY <1>1, <1>3, <1>7, <1>8, <1>9 DEF TidyInv, Rooted

LEMMA EffectRooted ==
    ASSUME NEW R \in Config, NEW S, NEW m \in Message, NEW R2, NEW S2, Effect(R, S, m, R2, S2), Rooted(R)
    PROVE  Rooted(R2)
  <1>1. R2.server = R.server /\ \A t \in Templates : R2.tmpl[t].extra = R.tmpl[t].extra
    <2>1. CASE m.op = "upload"
      <3>1. R2.tmpl = R.tmpl /\ R2.server = R.server
        BY <2>1, UploadEffect
      <3> QED
        BY <3>1
    <2>2. CASE m.op = "delete"
      <3>1. R2.tmpl = R.tmpl /\ R2.server = R.server
        BY <2>2, DeleteEffect
      <3> QED
        BY <3>1
    <2>3. CASE m.op = "write"
      BY <2>3, WriteEffect
    <2>4. CASE m.op = "bind"
      BY <2>4, BindEffect DEF OneTemplate
    <2>5. CASE m.op = "unbind"
      BY <2>5, UnbindEffect DEF OneTemplate
    <2> QED
      BY <2>1, <2>2, <2>3, <2>4, <2>5, Operations
  <1> QED
    BY <1>1 DEF Rooted

LEMMA SendTidy ==
    ASSUME Inv, CallShaped, StoreInv, TidyInv, NEW c \in Callers, NEW label \in InCall \ {"auth"},
           NEW m \in Message, NEW ok, NEW bad, Send(c, label, m, ok, bad), ok.at # "auth",
           Undisturbed /\ c \in sessions =>
             /\ ~ MayRefuse(running, m)
             /\ \A R2, S2 : Effect(running, startup, m, R2, S2) => Tidy(call[c], ok.at, ok.loc, R2, S2)
    PROVE  TidyInv'
  <1> SUFFICES ASSUME Undisturbed'
               PROVE  TidyInv'
    BY DEF TidyInv
  <1>1. UNCHANGED <<sessions, call>> /\ pc[c] = label
    BY DEF Send
  <1>2. Undisturbed
    BY CalmBreak DEF Send, Undisturbed
  <1>3. c \in sessions
    BY <1>1, <1>2 DEF TidyInv, Active
  <1>4. Process(m) /\ Take(c, ok) /\ UNCHANGED doubt
    BY <1>2, <1>3, CalmBreak DEF Send
  <1>5. /\ pc'[c] = ok.at /\ loc'[c] = ok.loc
        /\ \A d \in Callers \ {c} : pc'[d] = pc[d] /\ loc'[d] = loc[d]
    BY <1>4, TakeOther
  <1>6. running \in Config
    BY DEF Inv, TypeOK
  <1>7. Effect(running, startup, m, running', startup')
    BY <1>4 DEF Process, Effect
  <1>8. Rooted(running')
    BY <1>2, <1>6, <1>7, EffectRooted DEF TidyInv
  <1>9. \A d \in sessions' : d = c
    BY <1>1, <1>3, OneSession
  <1>10. \A d \in sessions' : Tidy(call'[d], pc'[d], loc'[d], running', startup')
    BY <1>1, <1>2, <1>3, <1>5, <1>7, <1>9
  <1>11. \A d \in Callers : doubt'[d] = {} /\ (Active(d)' /\ pc'[d] # "auth" => d \in sessions')
    BY <1>1, <1>2, <1>3, <1>4, <1>5 DEF TidyInv, Active
  <1> QED
    BY <1>1, <1>3, <1>8, <1>10, <1>11 DEF TidyInv, Rooted

LEMMA TidyFacts ==
    ASSUME TidyPremises, Inv, CallShaped, StoreInv, TidyInv, Undisturbed, NEW c \in sessions
    PROVE  /\ c \in Callers /\ running \in Config /\ startup \in Config
           /\ Sound(running) /\ Sound(startup) /\ Rooted(running)
           /\ call[c] \in Requests[c] /\ call[c] \in Request /\ loc[c] \in Local
           /\ call[c].cleanup /\ ~ call[c].noWrite /\ ~ call[c].create
           /\ Shape(call[c], pc[c], loc[c])
           /\ Phase(call[c], pc[c], loc[c], running, startup, doubt[c])
           /\ Tidy(call[c], pc[c], loc[c], running, startup)
  <1>1. c \in Callers
    BY DEF Inv, TypeOK
  <1>2. call[c] \in Requests[c]
    BY <1>1 DEF CallShaped
  <1> QED
    BY <1>1, <1>2, SessionFacts DEF TidyInv, TidyPremises

----------------------------------------------------------------------------
(* The continuations of a call.                                            *)

(* What an outcome has to be like. *)
Proper(r, o, R, S) == o.at # "auth" /\ Tidy(r, o.at, o.loc, R, S)

LEMMA CleanConfig ==
    ASSUME NEW R \in Config, NEW S \in Config, S.tmpl = R.tmpl, S.server = R.server,
           S.files = Refs(R), R.files = Refs(R)
    PROVE  Clean(R, S)
  BY DEF Clean, Config

LEMMA FailedTidy ==
    ASSUME NEW R \in Config, NEW S \in Config, NEW r, NEW l \in Local, Loaded(l, R, S), ~ l.mutated,
           NEW err
    PROVE  Proper(r, Failed(r, l, err), R, S)
  <1> DEFINE e == [l EXCEPT !.err = err, !.full = FALSE]
             k == [e EXCEPT !.up = @ \ PairOf(Desired(r))]
  <1>1. e.up = l.up /\ e.mutated = l.mutated /\ e.seen = l.seen /\ ~ e.full
    BY DEF Local
  <1>2. k.up = l.up \ PairOf(Desired(r)) /\ k.seen = l.seen
    BY DEF Local
  <1>3. Failed(r, l, err) = IF e.up # {} /\ ~ e.mutated THEN Undo(r, e) ELSE Go("logoff", e)
    BY <1>1 DEF Failed
  <1>4. Loaded(e, R, S)
    BY <1>1 DEF Loaded
  <1>5. l.up \cap PairOf(Desired(r)) = {} => Loaded(k, R, S)
    BY <1>2 DEF Loaded
  <1> HIDE DEF e
  <1>6. l.up = {} => Clean(R, S)
    BY CleanConfig DEF Loaded
  <1>7. l.up = {} => Tidy(r, "logoff", e, R, S)
    BY <1>6 DEF Tidy, TidyBefore, TidyAfter
  <1>8. Tidy(r, "undoPair", e, R, S)
    BY <1>1, <1>4 DEF Tidy, TidyBefore, TidyAfter
  <1>9. l.up \cap PairOf(Desired(r)) = {} => Tidy(r, "undoChain", e, R, S)
    BY <1>1, <1>5 DEF Tidy, TidyBefore, TidyAfter
  <1> QED
    BY <1>1, <1>3, <1>7, <1>8, <1>9 DEF Undo, Proper

LEMMA LoadedTidy ==
    ASSUME NEW R, NEW S, NEW r, NEW l, Loaded(l, R, S)
    PROVE  \A at \in Before \ {"bind"} : Tidy(r, at, l, R, S)
  BY DEF Tidy, TidyBefore, TidyAfter

LEMMA MaterialTidy ==
    ASSUME NEW R \in Config, NEW S \in Config, NEW r, ~ r.create, NEW l \in Local, Loaded(l, R, S),
           ~ l.mutated
    PROVE  /\ Proper(r, Ready(r, l), R, S) /\ Proper(r, AfterCert(r, l), R, S)
           /\ Proper(r, AfterKey(r, l), R, S) /\ Proper(r, AfterListing(r, l), R, S)
  <1> DEFINE e == [l EXCEPT !.stage = "material-ready"]
  <1>1. e.seen = l.seen /\ e.up = l.up
    BY DEF Local
  <1>2. Loaded(e, R, S)
    BY <1>1 DEF Loaded
  <1> HIDE DEF e
  <1>3. Ready(r, l) = Go("preBind", e)
    BY DEF Ready, e
  <1>4. Proper(r, Ready(r, l), R, S)
    BY <1>2, <1>3, LoadedTidy DEF Proper
  <1>5. Proper(r, AfterCert(r, l), R, S)
    BY <1>4, FailedTidy, LoadedTidy DEF Proper, AfterCert
  <1>6. Proper(r, AfterKey(r, l), R, S)
    BY <1>5, FailedTidy, LoadedTidy DEF Proper, AfterKey
  <1> QED
    BY <1>4, <1>5, <1>6, LoadedTidy DEF Proper, AfterListing

LEMMA CompleteTidy ==
    ASSUME NEW R, NEW S, NEW r, NEW l, Clean(R, S)
    PROVE  Proper(r, Complete(l), R, S)
  BY DEF Proper, Complete, Tidy, TidyBefore, TidyAfter

LEMMA AfterCleanupTidy ==
    ASSUME NEW R, NEW S, NEW r, ~ r.noWrite, NEW l \in Local, R.files = Refs(R), l.deleted = {} => S = R
    PROVE  Proper(r, AfterCleanup(r, l), R, S)
  <1> DEFINE e == [l EXCEPT !.stage = "cleanup-complete"]
  <1>1. AfterCleanup(r, l) = IF l.deleted # {} THEN Go("persistCleanup", e) ELSE Complete(e)
    BY DEF AfterCleanup
  <1> HIDE DEF e
  <1>2. Tidy(r, "persistCleanup", e, R, S)
    BY DEF Tidy, TidyBefore, TidyAfter
  <1>3. l.deleted = {} => Proper(r, Complete(e), R, S)
    BY CompleteTidy DEF Clean
  <1> QED
    BY <1>1, <1>2, <1>3 DEF Proper

LEMMA AfterPairTidy ==
    ASSUME NEW R, NEW S, NEW r, ~ r.noWrite, NEW l \in Local, l.deleted = {} => S = R,
           R.files = Refs(R) \cup (Leftover(r, l) \ DoomedPair(r, l)),
           Leftover(r, l) \subseteq Refs(R) \cup DoomedPair(r, l) \cup DoomedChain(r, l),
           l.refs \subseteq NamesIn(Refs(R))
    PROVE  Proper(r, AfterPair(r, l), R, S)
  <1>1. DoomedChain(r, l) # {} => Tidy(r, "deleteChain", l, R, S)
    BY DEF Tidy, TidyBefore, TidyAfter
  <1>2. DoomedChain(r, l) = {} => R.files = Refs(R)
    OBVIOUS
  <1> QED
    BY <1>1, <1>2, AfterCleanupTidy DEF AfterPair, Proper

LEMMA AfterScanTidy ==
    ASSUME NEW R, NEW r, ~ r.noWrite, NEW l \in Local,
           R.files = Refs(R) \cup Leftover(r, l),
           Leftover(r, l) \subseteq Refs(R) \cup DoomedPair(r, l) \cup DoomedChain(r, l),
           l.refs \subseteq NamesIn(Refs(R))
    PROVE  Proper(r, AfterScan(r, l), R, R)
  <1>1. DoomedPair(r, l) # {} => Tidy(r, "deletePair", l, R, R)
    BY DEF Tidy, TidyBefore, TidyAfter
  <1>2. DoomedPair(r, l) = {} => R.files = Refs(R) \cup (Leftover(r, l) \ DoomedPair(r, l))
    OBVIOUS
  <1> QED
    BY <1>1, <1>2, AfterPairTidy DEF AfterScan, Proper

LEMMA CleanupTidy ==
    ASSUME NEW R, NEW r, r.cleanup, NEW l, R.files = Refs(R) \cup Leftover(r, l)
    PROVE  Proper(r, Cleanup(r, l), R, R)
  <1>1. Tidy(r, "scanClient", l, R, R)
    BY DEF Tidy, TidyBefore, TidyAfter
  <1>2. ~ Replaces(r, l) => Clean(R, R)
    BY DEF Clean, Leftover
  <1> QED
    BY <1>1, <1>2, CompleteTidy DEF Cleanup, Proper

LEMMA AfterOldBindingTidy ==
    ASSUME NEW R, NEW S, NEW r, r.cleanup, ~ r.noWrite, NEW l, R.files = Refs(R) \cup Leftover(r, l),
           l.changed \/ S = R
    PROVE  Proper(r, AfterOldBinding(r, l), R, S)
  <1>1. Tidy(r, "prePersist", l, R, S)
    BY DEF Tidy, TidyBefore, TidyAfter
  <1> QED
    BY <1>1, CleanupTidy DEF AfterOldBinding, Proper

LEMMA OldBindingRemovedTidy ==
    ASSUME NEW R, NEW S, NEW r, r.cleanup, ~ r.noWrite, NEW l \in Local,
           R.files = Refs(R) \cup Leftover(r, l)
    PROVE  Proper(r, OldBindingRemoved(r, l), R, S)
  <1> DEFINE e == [l EXCEPT !.changed = TRUE, !.stage = "old-binding-removed"]
  <1>1. e.changed /\ e.cur = l.cur
    BY DEF Local
  <1>2. OldBindingRemoved(r, l) = AfterOldBinding(r, e)
    BY DEF OldBindingRemoved
  <1> HIDE DEF e
  <1>3. Leftover(r, e) = Leftover(r, l)
    BY <1>1 DEF Leftover, Replaces
  <1> QED
    BY <1>1, <1>2, <1>3, AfterOldBindingTidy

LEMMA AfterBindingTidy ==
    ASSUME NEW R, NEW S, NEW r, r.cleanup, ~ r.noWrite, NEW l \in Local, NEW implicit \in BOOLEAN,
           R.files = Refs(R) \cup Leftover(r, l), l.changed \/ S = R,
           Replaces(r, l) => l.cur \in l.exp.certs \/ (implicit /\ ~ Bound(l.exp, l.cur.cert))
    PROVE  Proper(r, AfterBinding(r, l, implicit), R, S)
  <1>1. Tidy(r, "preUnbind", l, R, S)
    BY DEF Tidy, TidyBefore, TidyAfter
  <1> QED
    BY <1>1, AfterOldBindingTidy, OldBindingRemovedTidy DEF AfterBinding, Proper

----------------------------------------------------------------------------
(* One lemma per request of a call, up to the bind.                        *)

(* A requirement is met as long as nobody else changes the template. *)
LEMMA RequireMet ==
    ASSUME TidyPremises, Inv, CallShaped, StoreInv, TidyInv, Undisturbed, NEW c \in sessions,
           pc[c] \in Following, NEW ok
    PROVE  Require(call[c], loc[c], ok) = ok
  BY TidyFacts DEF Phase, Matching, Require

LEMMA VersionTidy ==
    ASSUME TidyPremises, Inv, CallShaped, StoreInv, TidyInv, NEW c \in Callers, Version(c)
    PROVE  TidyInv'
  <1> DEFINE r == call[c]
             l == loc[c]
             e == [l EXCEPT !.stage = "compatibility-verified"]
             ok == Go(IF r.create THEN "listCerts" ELSE "inspect", e)
             bad == Failed(r, l, "failed")
  <1>1. Query(c, "version", ok, bad) /\ pc[c] = "version"
    BY DEF Version, Query
  <1>2. ok.at \in {"listCerts", "inspect"} /\ ok.loc = e
    OBVIOUS
  <1> HIDE DEF ok, bad, e
  <1>3. Undisturbed /\ c \in sessions => Tidy(r, ok.at, ok.loc, running, startup)
    BY <1>1, <1>2, TidyFacts DEF Tidy, TidyBefore, TidyAfter
  <1> QED
    BY <1>1, <1>2, <1>3, QueryTidy

LEMMA OpeningTidy ==
    ASSUME NEW R, NEW S, Clean(R, S), NEW r, NEW l \in Local, Untouched(l), NEW err
    PROVE  Proper(r, Failed(r, l, err), R, S)
  <1> DEFINE e == [l EXCEPT !.err = err, !.full = FALSE]
  <1>1. Failed(r, l, err) = Go("logoff", e)
    BY DEF Failed, Untouched, Local
  <1> HIDE DEF e
  <1> QED
    BY <1>1 DEF Proper, Tidy, TidyBefore, TidyAfter

LEMMA InspectTidy ==
    ASSUME TidyPremises, Inv, CallShaped, StoreInv, TidyInv, NEW c \in Callers, Inspect(c)
    PROVE  TidyInv'
  <1> DEFINE r == call[c]
             l == loc[c]
             T == running.tmpl[r.tmpl]
             choice == SelectCurrent(T, r.current, Desired(r))
             read == [l EXCEPT !.base = T, !.exp = T, !.stage = "state-inspected"]
             chosen == [read EXCEPT !.cur = CHOOSE b \in choice : TRUE]
             ok == IF Unexpected(l, T) THEN Failed(r, read, "conflict")
                   ELSE IF choice = {} THEN Failed(r, read, "slot")
                   ELSE Go("listCerts", chosen)
             bad == Failed(r, l, "failed")
  <1>0. l \in Local /\ T \in Template
    BY RequestsTyped DEF Inv
  <1>1. Query(c, "inspect", ok, bad) /\ pc[c] = "inspect"
    BY DEF Inspect, Query
  <1>2. read \in Local /\ Untouched(read)
    BY <1>0, <1>1, OpeningUntouched DEF Local, Stages, Untouched
  <1> HIDE DEF read, chosen, choice
  <1>3. ASSUME Undisturbed, c \in sessions
        PROVE  Clean(running, startup)
    BY <1>1, <1>3, TidyFacts DEF Tidy, TidyBefore
  <1>4. ASSUME Undisturbed, c \in sessions
        PROVE  Tidy(r, ok.at, ok.loc, running, startup)
    <2>1. Proper(r, Failed(r, read, "conflict"), running, startup) /\ Proper(r, Failed(r, read, "slot"), running, startup)
      BY <1>2, <1>3, <1>4, OpeningTidy
    <2>2. Proper(r, Go("listCerts", chosen), running, startup)
      BY <1>3, <1>4 DEF Proper, Tidy, TidyBefore, TidyAfter
    <2> QED
      BY <2>1, <2>2 DEF Proper
  <1>5. ok.at \in {"listCerts", "logoff"}
    <2>1. Failed(r, read, "conflict").at = "logoff" /\ Failed(r, read, "slot").at = "logoff"
      BY <1>2, FailedOpening
    <2> QED
      BY <2>1
  <1> HIDE DEF ok, bad
  <1> QED
    BY <1>1, <1>4, <1>5, QueryTidy

LEMMA ListCertsTidy ==
    ASSUME TidyPremises, Inv, CallShaped, StoreInv, TidyInv, NEW c \in Callers, ListCerts(c)
    PROVE  TidyInv'
  <1> DEFINE r == call[c]
             l == loc[c]
             e == [l EXCEPT !.seen = StoreFiles("cert")]
             ok == Go("listKeys", e)
             bad == Failed(r, l, "failed")
  <1>1. Query(c, "listCerts", ok, bad) /\ pc[c] = "listCerts"
    BY DEF ListCerts, Query
  <1>2. e.seen = StoreFiles("cert") /\ ok.at = "listKeys" /\ ok.loc = e
    BY CallFacts DEF Local
  <1> HIDE DEF ok, bad, e
  <1>3. Undisturbed /\ c \in sessions => Tidy(r, ok.at, ok.loc, running, startup)
    BY <1>1, <1>2, TidyFacts DEF Tidy, TidyBefore, TidyAfter, StoreFiles
  <1> QED
    BY <1>1, <1>2, <1>3, QueryTidy

LEMMA ListKeysTidy ==
    ASSUME TidyPremises, Inv, CallShaped, StoreInv, TidyInv, NEW c \in Callers, ListKeys(c)
    PROVE  TidyInv'
  <1> DEFINE r == call[c]
             l == loc[c]
             e == [l EXCEPT !.seen = @ \cup StoreFiles("key")]
             ok == Go("listInfo", e)
             bad == Failed(r, l, "failed")
  <1>1. Query(c, "listKeys", ok, bad) /\ pc[c] = "listKeys"
    BY DEF ListKeys, Query
  <1>2. e.seen = l.seen \cup StoreFiles("key") /\ e.up = l.up /\ ok.at = "listInfo" /\ ok.loc = e
    BY CallFacts DEF Local
  <1>3. l.up = {}
    BY <1>1, OpeningUntouched DEF Untouched
  <1>4. \A f \in running.files : f[1] = "cert" \/ f[1] = "key"
    BY DEF Inv, TypeOK, Config, File
  <1> HIDE DEF ok, bad, e
  <1>5. ASSUME Undisturbed, c \in sessions
        PROVE  Tidy(r, ok.at, ok.loc, running, startup)
    <2>1. Clean(running, startup) /\ l.seen = {f \in running.files : f[1] = "cert"}
      BY <1>1, <1>5, TidyFacts DEF Tidy, TidyBefore
    <2>2. e.seen = Refs(running)
      BY <1>2, <1>4, <2>1 DEF StoreFiles, Clean
    <2>3. Loaded(e, running, startup)
      BY <1>2, <1>3, <2>1, <2>2 DEF Clean, Loaded
    <2> QED
      BY <1>2, <2>3, LoadedTidy
  <1> QED
    BY <1>1, <1>2, <1>5, QueryTidy

LEMMA BeforeFacts ==
    ASSUME TidyPremises, Inv, CallShaped, StoreInv, TidyInv, Undisturbed, NEW c \in sessions,
           pc[c] \in Before
    PROVE  Loaded(loc[c], running, startup) /\ ~ loc[c].mutated
  BY TidyFacts DEF Tidy, TidyBefore, Shape, Expected, Course, Untouched

LEMMA ListInfoTidy ==
    ASSUME TidyPremises, Inv, CallShaped, StoreInv, TidyInv, NEW c \in Callers, ListInfo(c)
    PROVE  TidyInv'
  <1> DEFINE r == call[c]
             l == loc[c]
             e == [l EXCEPT !.info = StoreFiles("cert")]
             ok == AfterListing(r, e)
             bad == Failed(r, l, "failed")
  <1>1. Query(c, "listInfo", ok, bad) /\ pc[c] = "listInfo"
    BY DEF ListInfo, Query
  <1>2. e \in Local /\ e.seen = l.seen /\ e.up = l.up /\ e.mutated = l.mutated
    BY CallFacts, StoreFilesTyped DEF Inv, Local
  <1> HIDE DEF e
  <1>3. Undisturbed /\ c \in sessions => Proper(r, ok, running, startup)
    BY <1>1, <1>2, BeforeFacts, TidyFacts, MaterialTidy DEF Loaded
  <1>4. ok.at # "auth"
    BY <1>2, MaterialOnward DEF Onward
  <1> HIDE DEF ok, bad
  <1> QED
    BY <1>1, <1>3, <1>4, QueryTidy DEF Proper

(* An upload, f to be listed nowhere yet. *)
LEMMA UploadTidy ==
    ASSUME NEW R \in Config, NEW S \in Config, NEW l \in Local, Loaded(l, R, S), ~ l.mutated,
           NEW f \in File, NEW R2, NEW S2, Effect(R, S, UploadOf({f}), R2, S2)
    PROVE  /\ Uploaded(l, f) \in Local /\ Loaded(Uploaded(l, f), R2, S2) /\ ~ Uploaded(l, f).mutated
           /\ R2 \in Config /\ S2 \in Config
  <1>1. UploadOf({f}) \in Message /\ UploadOf({f}).op = "upload" /\ UploadOf({f}).files = {f}
    BY NoDelete DEF UploadOf
  <1>2. R2.tmpl = R.tmpl /\ R2.server = R.server /\ R2.files = R.files \cup {f} /\ S2 = S
    BY <1>1, UploadEffect
  <1>3. Uploaded(l, f) \in Local /\ Uploaded(l, f).up = l.up \cup {f} /\ Uploaded(l, f).seen = l.seen
        /\ Uploaded(l, f).mutated = l.mutated
    BY DEF Uploaded, Local
  <1>4. Refs(R2) = Refs(R)
    BY <1>2, SameRefs
  <1> QED
    BY <1>1, <1>2, <1>3, <1>4, EffectTyped DEF Loaded

LEMMA UploadAccepted ==
    ASSUME NEW R, NEW S, NEW l, Loaded(l, R, S), NEW f, f \notin l.seen \cup l.up
    PROVE  ~ MayRefuse(R, UploadOf({f}))
  BY DEF MayRefuse, Loaded, UploadOf

LEMMA UpKeyTidy ==
    ASSUME TidyPremises, Inv, CallShaped, StoreInv, TidyInv, NEW c \in Callers, UpKey(c)
    PROVE  TidyInv'
  <1> DEFINE r == call[c]
             l == loc[c]
             f == <<"key", r.name>>
             e == Uploaded(l, f)
             ok == AfterKey(r, e)
             bad == Failed(r, l, "failed")
  <1>0. r \in Request /\ l \in Local /\ f \in File
    BY CallFacts DEF File, Request
  <1>1. Send(c, "upKey", UploadOf({f}), ok, bad) /\ pc[c] = "upKey"
    BY DEF UpKey, Send
  <1>2. UploadOf({f}) \in Message
    BY <1>0, NoDelete
  <1>3. e \in Local
    BY <1>0 DEF Local, Uploaded
  <1> HIDE DEF e, f
  <1>4. ok.at # "auth"
    BY <1>3, MaterialOnward DEF Onward
  <1>5. ASSUME Undisturbed, c \in sessions
        PROVE  /\ ~ MayRefuse(running, UploadOf({f}))
               /\ \A R2, S2 : Effect(running, startup, UploadOf({f}), R2, S2) => Tidy(r, ok.at, ok.loc, R2, S2)
    <2>1. Loaded(l, running, startup) /\ ~ l.mutated /\ ~ r.create /\ running \in Config /\ startup \in Config
      BY <1>1, <1>5, BeforeFacts, TidyFacts
    <2>2. f \notin l.seen \cup l.up
      BY <1>1, <1>5, TidyFacts DEF Shape, Material, f
    <2>3. ASSUME NEW R2, NEW S2, Effect(running, startup, UploadOf({f}), R2, S2)
          PROVE  Tidy(r, ok.at, ok.loc, R2, S2)
      <3>1. Loaded(e, R2, S2) /\ ~ e.mutated /\ R2 \in Config /\ S2 \in Config
        BY <1>0, <2>1, <2>3, UploadTidy DEF e
      <3> QED
        BY <1>3, <2>1, <3>1, MaterialTidy DEF Proper
    <2> QED
      BY <2>1, <2>2, <2>3, UploadAccepted
  <1> HIDE DEF ok, bad
  <1> QED
    BY <1>1, <1>2, <1>4, <1>5, SendTidy

LEMMA UpCertTidy ==
    ASSUME TidyPremises, Inv, CallShaped, StoreInv, TidyInv, NEW c \in Callers, UpCert(c)
    PROVE  TidyInv'
  <1> DEFINE r == call[c]
             l == loc[c]
             f == <<"cert", r.name>>
             e == Uploaded(l, f)
             ok == AfterCert(r, e)
             bad == Failed(r, l, "failed")
  <1>0. r \in Request /\ l \in Local /\ f \in File
    BY CallFacts DEF File, Request
  <1>1. Send(c, "upCert", UploadOf({f}), ok, bad) /\ pc[c] = "upCert"
    BY DEF UpCert, Send
  <1>2. UploadOf({f}) \in Message
    BY <1>0, NoDelete
  <1>3. e \in Local
    BY <1>0 DEF Local, Uploaded
  <1> HIDE DEF e, f
  <1>4. ok.at # "auth"
    BY <1>3, MaterialOnward DEF Onward
  <1>5. ASSUME Undisturbed, c \in sessions
        PROVE  /\ ~ MayRefuse(running, UploadOf({f}))
               /\ \A R2, S2 : Effect(running, startup, UploadOf({f}), R2, S2) => Tidy(r, ok.at, ok.loc, R2, S2)
    <2>1. Loaded(l, running, startup) /\ ~ l.mutated /\ ~ r.create /\ running \in Config /\ startup \in Config
      BY <1>1, <1>5, BeforeFacts, TidyFacts
    <2>2. f \notin l.seen \cup l.up
      BY <1>1, <1>5, TidyFacts DEF Shape, Material, f
    <2>3. ASSUME NEW R2, NEW S2, Effect(running, startup, UploadOf({f}), R2, S2)
          PROVE  Tidy(r, ok.at, ok.loc, R2, S2)
      <3>1. Loaded(e, R2, S2) /\ ~ e.mutated /\ R2 \in Config /\ S2 \in Config
        BY <1>0, <2>1, <2>3, UploadTidy DEF e
      <3> QED
        BY <1>3, <2>1, <3>1, MaterialTidy DEF Proper
    <2> QED
      BY <2>1, <2>2, <2>3, UploadAccepted
  <1> HIDE DEF ok, bad
  <1> QED
    BY <1>1, <1>2, <1>4, <1>5, SendTidy

LEMMA UpChainTidy ==
    ASSUME TidyPremises, Inv, CallShaped, StoreInv, TidyInv, NEW c \in Callers, UpChain(c)
    PROVE  TidyInv'
  <1> DEFINE r == call[c]
             l == loc[c]
             f == <<"cert", r.chain>>
             e == Uploaded(l, f)
             ok == Ready(r, e)
             bad == Failed(r, l, "failed")
  <1>0. r \in Request /\ l \in Local /\ f \in File
    <2>1. r.chain # NoName
      BY DEF Inv, LocalsFit, Fits, UpChain, Send
    <2> QED
      BY <2>1, CallFacts DEF File, Request
  <1>1. Send(c, "upChain", UploadOf({f}), ok, bad) /\ pc[c] = "upChain"
    BY DEF UpChain, Send
  <1>2. UploadOf({f}) \in Message
    BY <1>0, NoDelete
  <1>3. e \in Local
    BY <1>0 DEF Local, Uploaded
  <1> HIDE DEF e, f
  <1>4. ok.at # "auth"
    BY <1>3, MaterialOnward DEF Onward
  <1>5. ASSUME Undisturbed, c \in sessions
        PROVE  /\ ~ MayRefuse(running, UploadOf({f}))
               /\ \A R2, S2 : Effect(running, startup, UploadOf({f}), R2, S2) => Tidy(r, ok.at, ok.loc, R2, S2)
    <2>1. Loaded(l, running, startup) /\ ~ l.mutated /\ ~ r.create /\ running \in Config /\ startup \in Config
      BY <1>1, <1>5, BeforeFacts, TidyFacts
    <2>2. f \notin l.seen \cup l.up
      <3>1. Desired(r) \in AllBindings
        BY <1>5, TidyFacts, DesiredKnown
      <3>2. r.chain # r.name
        BY <3>1 DEF TidyPremises, Desired
      <3>3. f \notin l.seen /\ l.up \subseteq {<<"key", r.name>>, <<"cert", r.name>>}
        BY <1>1, <1>5, TidyFacts DEF Shape, Material, f
      <3> QED
        BY <3>2, <3>3 DEF f
    <2>3. ASSUME NEW R2, NEW S2, Effect(running, startup, UploadOf({f}), R2, S2)
          PROVE  Tidy(r, ok.at, ok.loc, R2, S2)
      <3>1. Loaded(e, R2, S2) /\ ~ e.mutated /\ R2 \in Config /\ S2 \in Config
        BY <1>0, <2>1, <2>3, UploadTidy DEF e
      <3> QED
        BY <1>3, <2>1, <3>1, MaterialTidy DEF Proper
    <2> QED
      BY <2>1, <2>2, <2>3, UploadAccepted
  <1> HIDE DEF ok, bad
  <1> QED
    BY <1>1, <1>2, <1>4, <1>5, SendTidy

LEMMA PreBindTidy ==
    ASSUME TidyPremises, Inv, CallShaped, StoreInv, TidyInv, NEW c \in Callers, PreBind(c)
    PROVE  TidyInv'
  <1> DEFINE r == call[c]
             l == loc[c]
             go == Go(IF Desired(r) \in l.base.certs THEN "verifyBound" ELSE "bind", l)
             ok == Require(r, l, go)
             bad == Failed(r, l, "failed")
  <1>1. Query(c, "preBind", ok, bad) /\ pc[c] = "preBind" /\ l \in Local
    BY CallFacts DEF PreBind, Query
  <1>2. ok.at # "auth"
    BY <1>1, RequireOnward DEF Onward
  <1>3. ASSUME Undisturbed, c \in sessions
        PROVE  Tidy(r, ok.at, ok.loc, running, startup)
    <2>1. ok = go
      BY <1>1, <1>3, RequireMet
    <2>2. Loaded(l, running, startup)
      BY <1>1, <1>3, BeforeFacts
    <2>3. FilesOf(Desired(r)) \subseteq running.files
      BY <1>1, <1>3, <2>2, TidyFacts DEF Shape, Material, Loaded
    <2>4. go.at \in {"verifyBound", "bind"} /\ go.loc = l
      OBVIOUS
    <2> HIDE DEF go
    <2>5. Tidy(r, go.at, l, running, startup)
      BY <2>2, <2>3, <2>4 DEF Tidy, TidyBefore, TidyAfter
    <2> QED
      BY <2>1, <2>4, <2>5
  <1> HIDE DEF ok, bad
  <1> QED
    BY <1>1, <1>2, <1>3, QueryTidy

(* A binding that is served already needed no upload. *)
LEMMA VerifyBoundTidy ==
    ASSUME TidyPremises, Inv, CallShaped, StoreInv, TidyInv, NEW c \in Callers, VerifyBound(c)
    PROVE  TidyInv'
  <1> DEFINE r == call[c]
             l == loc[c]
             go == AfterBinding(r, l, FALSE)
             ok == Require(r, l, go)
             bad == Failed(r, l, "failed")
  <1>1. Query(c, "verifyBound", ok, bad) /\ pc[c] = "verifyBound" /\ l \in Local
    BY CallFacts DEF VerifyBound, Query
  <1>2. ok.at # "auth"
    BY <1>1, BoundOnward, RequireOnward DEF Onward
  <1>3. ASSUME Undisturbed, c \in sessions
        PROVE  Tidy(r, ok.at, ok.loc, running, startup)
    <2>1. ok = go
      BY <1>1, <1>3, RequireMet
    <2>2. Loaded(l, running, startup)
      BY <1>1, <1>3, BeforeFacts
    <2>3. /\ running.tmpl[r.tmpl] = l.exp /\ l.exp = l.base /\ Desired(r) \in l.base.certs
          /\ l.up \subseteq FilesOf(Desired(r)) \ l.seen
          /\ l.cur \in SelectCurrent(l.base, r.current, Desired(r))
          /\ r.cleanup /\ ~ r.noWrite /\ r \in Request
          /\ running \in Config /\ startup \in Config
      BY <1>1, <1>3, TidyFacts DEF Shape, Common, Expected, Phase, Matching
    <2>4. r.tmpl \in Templates
      BY <2>3 DEF Request
    <2>5. FilesOf(Desired(r)) \subseteq Refs(running)
      BY <2>3, <2>4, BoundInRefs
    <2>6. Clean(running, startup)
      BY <2>2, <2>3, <2>5, CleanConfig DEF Loaded
    <2>7. Replaces(r, l) => l.cur \in l.exp.certs
      BY <2>3 DEF Replaces, SelectCurrent
    <2>8. Leftover(r, l) \subseteq Refs(running)
      BY <2>3, <2>4, <2>7, BoundInRefs DEF Leftover
    <2>9. running.files = Refs(running) \cup Leftover(r, l) /\ startup = running
      BY <2>6, <2>8 DEF Clean
    <2>10. Proper(r, go, running, startup)
      BY <1>1, <2>3, <2>7, <2>9, AfterBindingTidy
    <2> QED
      BY <2>1, <2>10 DEF Proper
  <1> HIDE DEF ok, bad
  <1> QED
    BY <1>1, <1>2, <1>3, QueryTidy

----------------------------------------------------------------------------
(* The change of the template.                                             *)

(* The binding to retire is one of the baseline. *)
LEMMA CurrentKnown ==
    ASSUME TidyPremises, Inv, CallShaped, StoreInv, TidyInv, Undisturbed, NEW c \in sessions,
           pc[c] \in Forward \ Opening
    PROVE  /\ loc[c].cur \in SelectCurrent(loc[c].base, call[c].current, Desired(call[c]))
           /\ Replaces(call[c], loc[c]) => loc[c].cur \in loc[c].base.certs
           /\ Replaces(call[c], loc[c]) => loc[c].cur \in AllBindings
           /\ Desired(call[c]) \in AllBindings /\ loc[c].base.certs \subseteq AllBindings
  <1> DEFINE r == call[c]
             l == loc[c]
  <1>1. pc[c] # "rbPersist"
    BY TidyFacts DEF Tidy
  <1>2. l.cur \in SelectCurrent(l.base, r.current, Desired(r)) /\ l.base.certs \subseteq AllBindings
    BY <1>1, TidyFacts DEF Shape, Expected, Phase, Baseline
  <1>3. Replaces(r, l) => l.cur \in l.base.certs
    BY <1>2 DEF Replaces, SelectCurrent
  <1>4. Desired(r) \in AllBindings
    BY TidyFacts, DesiredKnown
  <1> QED
    BY <1>2, <1>3, <1>4

(* What leaves a template leaves no more than its own files. *)
LEMMA RefsLeft ==
    ASSUME NEW R, NEW R2, NEW t, OneTemplate(R, t, R2), NEW F,
           \A b \in R.tmpl[t].certs : b \in R2.tmpl[t].certs \/ FilesOf(b) \subseteq F
    PROVE  Refs(R) \subseteq Refs(R2) \cup F
  BY InRefs DEF OneTemplate, TemplateFiles

LEMMA RefsJoined ==
    ASSUME NEW R, NEW R2, NEW t, OneTemplate(R, t, R2), NEW F,
           \A b \in R2.tmpl[t].certs : b \in R.tmpl[t].certs \/ FilesOf(b) \subseteq F
    PROVE  Refs(R2) \subseteq Refs(R) \cup F
  BY InRefs DEF OneTemplate, TemplateFiles

(* Binding adds the new certificate, or exchanges the only one for it. *)
BoundIn(R, t, D, R2) ==
    /\ OneTemplate(R, t, R2) /\ R2.tmpl[t] \in Template
    /\ \/ R2.tmpl[t].certs = R.tmpl[t].certs \cup {D}
       \/ \E x : R.tmpl[t].certs = {x} /\ R2.tmpl[t].certs = {D}

LEMMA BindOutcome ==
    ASSUME TidyPremises, NEW R \in Config, NEW S, NEW t \in Templates, NEW D \in AllBindings, D \in Binding,
           R.tmpl[t].certs \subseteq AllBindings, D \notin R.tmpl[t].certs,
           NEW R2, NEW S2, Effect(R, S, BindOf(t, D), R2, S2)
    PROVE  S2 = S /\ BoundIn(R, t, D, R2)
  <1> DEFINE m == BindOf(t, D)
             T == R.tmpl[t]
             others == {p \in T.certs : p.cert # D.cert}
             With(rest) == [R EXCEPT !.tmpl[t].certs = rest \cup {D}]
  <1>1. m \in Message /\ m.op = "bind" /\ m.tmpl = t /\ m.binding = D
    BY NoDelete DEF BindOf
  <1>2. others = T.certs
    BY DEF TidyPremises
  <1>3. R2 = With(others) \/ (Cardinality(T.certs) = 1 /\ R2 = With({}))
    BY <1>1 DEF Effect, Results
  <1>4. T \in Template /\ R.tmpl \in [Templates -> Template]
    BY DEF Config
  <1>5. With(T.certs).tmpl[t].certs = T.certs \cup {D} /\ With({}).tmpl[t].certs = {D}
    BY <1>4 DEF Config, Template
  <1>6. Cardinality(T.certs) = 1 => \E x : T.certs = {x}
    <2>1. IsFiniteSet(T.certs)
      BY FS_Subset DEF TidyPremises
    <2> QED
      BY <2>1, FS_Singleton
  <1>7. S2 = S /\ OneTemplate(R, t, R2)
    <2>1. Effect(R, S, m, R2, S2)
      OBVIOUS
    <2> HIDE DEF m
    <2>2. S2 = S /\ OneTemplate(R, m.tmpl, R2)
      BY <1>1, <2>1, BindEffect
    <2> QED
      BY <1>1, <2>2
  <1>8. R2.tmpl[t] \in Template
    <2>1. R2 \in Config
      <3>1. R2 \in Results(R, m)
        BY DEF Effect
      <3> HIDE DEF m
      <3> QED
        BY <1>1, <3>1, ResultsTyped
    <2> QED
      BY <2>1 DEF Config
  <1> HIDE DEF With, m
  <1> QED
    BY <1>2, <1>3, <1>5, <1>6, <1>7, <1>8 DEF BoundIn

LEMMA SameTemplate ==
    ASSUME NEW T \in Template, NEW U \in Template, T.certs = U.certs, T.extra = U.extra
    PROVE  T = U
  BY DEF Template

LEMMA BindTidy ==
    ASSUME TidyPremises, Inv, CallShaped, StoreInv, TidyInv, NEW c \in Callers, Bind(c)
    PROVE  TidyInv'
  <1> DEFINE r == call[c]
             l == loc[c]
             D == Desired(r)
             e == [l EXCEPT !.mutated = TRUE]
             m == BindOf(r.tmpl, D)
             ok == Go("readBack", e)
             bad == Go("readBack", [e EXCEPT !.bindFailed = TRUE])
  <1>1. Send(c, "bind", m, ok, bad) /\ pc[c] = "bind"
    BY DEF Bind, Send
  <1>2. e.base = l.base /\ e.cur = l.cur /\ ok.at = "readBack" /\ ok.loc = e
    BY CallFacts DEF Local
  <1>3. m \in Message /\ m.op = "bind"
    BY NoDelete, CallFacts, DesiredTyped DEF Request
  <1> HIDE DEF ok, bad, e
  <1>4. ASSUME Undisturbed, c \in sessions
        PROVE  /\ ~ MayRefuse(running, m)
               /\ \A R2, S2 : Effect(running, startup, m, R2, S2) => Tidy(r, ok.at, ok.loc, R2, S2)
    <2>1. /\ l.cur \in SelectCurrent(l.base, r.current, D)
          /\ Replaces(r, l) => l.cur \in l.base.certs
          /\ D \in AllBindings /\ l.base.certs \subseteq AllBindings
      BY <1>1, <1>4, CurrentKnown
    <2>2. /\ running.tmpl[r.tmpl] = l.base /\ D \notin l.base.certs
          /\ l.up \subseteq FilesOf(D) /\ FilesOf(D) \subseteq running.files
          /\ r \in Request /\ l \in Local /\ running \in Config
      BY <1>1, <1>4, TidyFacts DEF Shape, Common, Expected, Phase, Matching, Tidy, TidyBefore
    <2>3. Loaded(l, running, startup)
      BY <1>1, <1>4, BeforeFacts
    <2>4. r.tmpl \in Templates /\ D \in Binding /\ D.cert = r.name /\ l.base \in Template
      BY <2>2, DesiredTyped DEF Request, Desired, Local
    <2>5. ~ MayRefuse(running, m)
      BY <2>2 DEF MayRefuse, Results, BindOf
    <2>6. ASSUME NEW R2, NEW S2, Effect(running, startup, m, R2, S2)
          PROVE  Tidy(r, "readBack", e, R2, S2)
      <3> DEFINE T == R2.tmpl[r.tmpl]
                 with == WithBinding(l.base, D)
                 without == WithoutCertificate(with, l.cur.cert)
      <3>1. /\ S2 = startup /\ OneTemplate(running, r.tmpl, R2) /\ T \in Template
            /\ \/ T.certs = l.base.certs \cup {D}
               \/ \E x : l.base.certs = {x} /\ T.certs = {D}
        <4>1. running.tmpl[r.tmpl].certs \subseteq AllBindings /\ D \notin running.tmpl[r.tmpl].certs
          BY <2>1, <2>2
        <4>2. /\ S2 = startup /\ OneTemplate(running, r.tmpl, R2) /\ R2.tmpl[r.tmpl] \in Template
              /\ \/ R2.tmpl[r.tmpl].certs = running.tmpl[r.tmpl].certs \cup {D}
                 \/ \E x : running.tmpl[r.tmpl].certs = {x} /\ R2.tmpl[r.tmpl].certs = {D}
          <5>1. Effect(running, startup, BindOf(r.tmpl, D), R2, S2)
            BY <2>6
          <5>2. running \in Config /\ r.tmpl \in Templates /\ D \in AllBindings /\ D \in Binding
            BY <2>1, <2>2, <2>4
          <5> HIDE DEF D
          <5>3. S2 = startup /\ BoundIn(running, r.tmpl, D, R2)
            BY <4>1, <5>1, <5>2, BindOutcome
          <5> QED
            BY <5>3 DEF BoundIn
        <4> QED
          BY <2>2, <4>2
      <3>2. T.extra = l.base.extra /\ R2.files = running.files
        BY <2>2, <3>1 DEF OneTemplate, T
      <3>3. with \in Template /\ with.certs = l.base.certs \cup {D} /\ with.extra = l.base.extra
        BY <2>4, WithOf
      <3>4. /\ without \in Template /\ without.extra = l.base.extra
            /\ without.certs = {p \in l.base.certs \cup {D} : p.cert # l.cur.cert}
        BY <3>3, WithoutOf
      <3> HIDE DEF with, without, T
      <3>5. \/ T = with
            \/ Replaces(r, l) /\ T = without /\ l.base.certs = {l.cur} /\ T.certs = {D}
        <4>1. CASE T.certs = l.base.certs \cup {D}
          BY <3>1, <3>2, <3>3, <4>1, SameTemplate
        <4>2. ASSUME NEW x, l.base.certs = {x}, T.certs = {D}
              PROVE  Replaces(r, l) /\ T = without /\ l.base.certs = {l.cur}
          <5>1. l.cur = x
            BY <2>1, <2>2, <4>2 DEF SelectCurrent
          <5>2. x \in AllBindings /\ x # D /\ x \in Binding
            BY <2>1, <2>2, <2>4, <4>2 DEF Template
          <5>3. x.cert # D.cert
            BY <2>1, <5>2 DEF TidyPremises
          <5>4. x # NoBinding
            BY <5>2, NamesAssumption DEF Binding, NoBinding
          <5>5. without.certs = {D}
            BY <3>4, <4>2, <5>1, <5>3
          <5>6. T = without
            BY <3>1, <3>2, <3>4, <4>2, <5>5, SameTemplate
          <5> QED
            BY <2>4, <4>2, <5>1, <5>3, <5>4, <5>6 DEF Replaces
        <4> QED
          BY <3>1, <4>1, <4>2
      <3>6. Exchanged(r, e, T)
        BY <1>2, <3>5 DEF Exchanged, Replaces, with, without
      <3>7. Leftover(r, e) = Leftover(r, l)
        BY <1>2 DEF Leftover, Replaces
      <3>8. D \in T.certs
        BY <3>1
      <3>9. Refs(R2) \subseteq R2.files
        <4>1. \A b \in T.certs : b \in running.tmpl[r.tmpl].certs \/ FilesOf(b) \subseteq FilesOf(D)
          BY <2>2, <3>1
        <4>2. Refs(R2) \subseteq Refs(running) \cup FilesOf(D)
          BY <3>1, <4>1, RefsJoined DEF T
        <4> QED
          BY <2>2, <2>3, <3>2, <4>2 DEF Loaded
      <3>10. Leftover(r, l) \subseteq R2.files
        <4>1. Leftover(r, l) \subseteq Refs(running)
          BY <2>1, <2>2, <2>4, BoundInRefs DEF Leftover
        <4> QED
          BY <2>3, <3>2, <4>1 DEF Loaded
      <3>11. R2.files \subseteq Refs(R2) \cup Leftover(r, l)
        <4>1. \A b \in running.tmpl[r.tmpl].certs : b \in T.certs \/ FilesOf(b) \subseteq Leftover(r, l)
          BY <2>2, <3>3, <3>5 DEF Leftover
        <4>2. Refs(running) \subseteq Refs(R2) \cup Leftover(r, l)
          BY <3>1, <4>1, RefsLeft DEF T
        <4>3. FilesOf(D) \subseteq Refs(R2)
          BY <2>4, <3>8, BoundInRefs DEF T
        <4> QED
          BY <2>2, <2>3, <3>2, <4>2, <4>3 DEF Loaded
      <3>12. R2.files = Refs(R2) \cup Leftover(r, e)
        BY <3>7, <3>9, <3>10, <3>11
      <3> QED
        BY <3>6, <3>12 DEF Tidy, TidyBefore, TidyAfter, T
    <2> QED
      BY <1>2, <2>5, <2>6
  <1> HIDE DEF m
  <1> QED
    BY <1>1, <1>2, <1>3, <1>4, SendTidy

LEMMA ReadBackTidy ==
    ASSUME TidyPremises, Inv, CallShaped, StoreInv, TidyInv, NEW c \in Callers, ReadBack(c)
    PROVE  TidyInv'
  <1> DEFINE r == call[c]
             l == loc[c]
             T == running.tmpl[r.tmpl]
             appended == WithBinding(l.base, Desired(r))
             replaced == WithoutCertificate(appended, l.cur.cert)
             bound == [l EXCEPT !.exp = T, !.changed = TRUE, !.stage = "bound"]
             ok == IF T = appended THEN AfterBinding(r, bound, FALSE)
                   ELSE IF Replaces(r, l) /\ T = replaced THEN AfterBinding(r, bound, TRUE)
                   ELSE IF ~ l.bindFailed THEN Failed(r, l, "conflict")
                   ELSE Failed(r, l, IF T = l.base THEN "failed" ELSE "ambiguous")
             bad == Failed(r, l, IF l.bindFailed THEN "ambiguous" ELSE "failed")
  <1>0. r \in Request /\ l \in Local /\ T \in Template
    BY CallFacts, RequestsTyped DEF Inv
  <1>1. Query(c, "readBack", ok, bad) /\ pc[c] = "readBack"
    BY DEF ReadBack, Query
  <1>2. bound \in Local /\ bound.exp = T /\ bound.changed /\ bound.cur = l.cur
    BY <1>0 DEF Local, Stages
  <1> HIDE DEF bound
  <1>3. AfterBinding(r, bound, FALSE).at # "auth" /\ AfterBinding(r, bound, TRUE).at # "auth"
    BY <1>2, BoundOnward DEF Onward
  <1>4. \A err : Failed(r, l, err).at # "auth"
    BY <1>0, FailedOnward DEF Onward
  <1>5. ok.at # "auth"
    BY <1>3, <1>4
  <1>6. ASSUME Undisturbed, c \in sessions
        PROVE  Tidy(r, ok.at, ok.loc, running, startup)
    <2>1. T = appended \/ (Replaces(r, l) /\ T = replaced)
      BY <1>1, <1>6, TidyFacts DEF Tidy, TidyAfter, Exchanged
    <2>2. /\ running.files = Refs(running) \cup Leftover(r, l)
          /\ r.cleanup /\ ~ r.noWrite
      BY <1>1, <1>6, TidyFacts DEF Tidy, TidyAfter
    <2>3. Replaces(r, l) => l.cur \in l.base.certs
      BY <1>1, <1>6, CurrentKnown
    <2>4. Leftover(r, bound) = Leftover(r, l) /\ (Replaces(r, bound) <=> Replaces(r, l))
      BY <1>2 DEF Leftover, Replaces
    <2>5. appended \in Template /\ appended.certs = l.base.certs \cup {Desired(r)}
      BY <1>0, WithOf, DesiredTyped DEF Local
    <2>6. replaced.certs = {p \in appended.certs : p.cert # l.cur.cert}
      BY <2>5, WithoutOf
    <2> HIDE DEF T, appended, replaced
    <2>7. CASE T = appended
      <3>1. Replaces(r, bound) => bound.cur \in bound.exp.certs
        BY <1>2, <2>3, <2>4, <2>5, <2>7
      <3>2. Proper(r, AfterBinding(r, bound, FALSE), running, startup)
        BY <1>2, <2>2, <2>4, <3>1, AfterBindingTidy
      <3> QED
        BY <2>7, <3>2 DEF Proper
    <2>8. CASE T # appended
      <3>1. Replaces(r, l) /\ T = replaced
        BY <2>1, <2>8
      <3>2. ~ Bound(bound.exp, bound.cur.cert)
        BY <1>2, <2>6, <3>1 DEF Bound
      <3>3. Proper(r, AfterBinding(r, bound, TRUE), running, startup)
        BY <1>2, <2>2, <2>4, <3>2, AfterBindingTidy
      <3> QED
        BY <2>8, <3>1, <3>3 DEF Proper
    <2> QED
      BY <2>7, <2>8
  <1> HIDE DEF ok, bad
  <1> QED
    BY <1>1, <1>5, <1>6, QueryTidy

LEMMA AfterFacts ==
    ASSUME TidyPremises, Inv, CallShaped, StoreInv, TidyInv, Undisturbed, NEW c \in sessions,
           pc[c] \in After
    PROVE  /\ running.files = Refs(running) \cup Leftover(call[c], loc[c])
           /\ call[c].cleanup /\ ~ call[c].noWrite
  BY TidyFacts DEF Tidy, TidyAfter

LEMMA PreUnbindTidy ==
    ASSUME TidyPremises, Inv, CallShaped, StoreInv, TidyInv, NEW c \in Callers, PreUnbind(c)
    PROVE  TidyInv'
  <1> DEFINE r == call[c]
             l == loc[c]
             ok == Require(r, l, Go("unbind", l))
             bad == Failed(r, l, "failed")
  <1>1. Query(c, "preUnbind", ok, bad) /\ pc[c] = "preUnbind" /\ l \in Local
    BY CallFacts DEF PreUnbind, Query
  <1>2. ok.at # "auth"
    BY <1>1, RequireOnward DEF Onward
  <1>3. ASSUME Undisturbed, c \in sessions
        PROVE  Tidy(r, ok.at, ok.loc, running, startup)
    <2>1. ok = Go("unbind", l)
      BY <1>1, <1>3, RequireMet
    <2>2. Tidy(r, "unbind", l, running, startup)
      BY <1>1, <1>3, AfterFacts DEF Tidy, TidyBefore, TidyAfter
    <2> QED
      BY <2>1, <2>2
  <1> HIDE DEF ok, bad
  <1> QED
    BY <1>1, <1>2, <1>3, QueryTidy

LEMMA UnbindTidy ==
    ASSUME TidyPremises, Inv, CallShaped, StoreInv, TidyInv, NEW c \in Callers, Unbind(c)
    PROVE  TidyInv'
  <1> DEFINE r == call[c]
             l == loc[c]
             e == [l EXCEPT !.exp = WithoutCertificate(@, l.cur.cert)]
             m == UnbindOf(r.tmpl, l.cur.cert)
             ok == Go("postUnbind", e)
             bad == Failed(r, l, "failed")
  <1>0. r \in Request /\ l \in Local
    BY CallFacts
  <1>1. Send(c, "unbind", m, ok, bad) /\ pc[c] = "unbind"
    BY DEF Unbind, Send
  <1>2. e.cur = l.cur /\ ok.at = "postUnbind" /\ ok.loc = e
    BY <1>0 DEF Local
  <1>3. m \in Message /\ m.op = "unbind" /\ m.tmpl = r.tmpl /\ m.cert = l.cur.cert
    <2>1. l.cur # NoBinding
      BY DEF Inv, LocalsFit, Fits, Retiring, Unbind, Send
    <2> QED
      BY <1>0, <2>1, NoDelete DEF Request, Local, Binding, UnbindOf
  <1> HIDE DEF ok, bad, e, m
  <1>4. ASSUME Undisturbed, c \in sessions
        PROVE  /\ ~ MayRefuse(running, m)
               /\ \A R2, S2 : Effect(running, startup, m, R2, S2) => Tidy(r, ok.at, ok.loc, R2, S2)
    <2>1. Replaces(r, l) /\ l.cur \in l.base.certs /\ l.cur \in AllBindings
      BY <1>1, <1>4, CurrentKnown, TidyFacts DEF Shape, Expected
    <2>2. /\ running.tmpl[r.tmpl] = l.exp /\ l.exp = WithBinding(l.base, Desired(r))
          /\ running \in Config /\ Sound(running)
      BY <1>1, <1>4, TidyFacts DEF Shape, Expected, Phase, Matching
    <2>3. r.tmpl \in Templates
      BY <1>0 DEF Request
    <2>4. l.cur \in running.tmpl[r.tmpl].certs
      BY <1>0, <2>1, <2>2, WithOf, DesiredTyped DEF Local
    <2>5. Bound(running.tmpl[r.tmpl], l.cur.cert)
      BY <2>4 DEF Bound
    <2>6. ~ MayRefuse(running, m)
      BY <1>3, <2>5 DEF MayRefuse, Results
    <2>7. ASSUME NEW R2, NEW S2, Effect(running, startup, m, R2, S2)
          PROVE  Tidy(r, "postUnbind", e, R2, S2)
      <3>1. OneTemplate(running, r.tmpl, R2) /\ R2.tmpl[r.tmpl] = WithoutCertificate(running.tmpl[r.tmpl], l.cur.cert)
        BY <1>3, <2>2, <2>7, UnbindEffect
      <3>2. R2.tmpl[r.tmpl].certs = {p \in running.tmpl[r.tmpl].certs : p.cert # l.cur.cert}
        BY <2>2, <2>3, <3>1, WithoutOf DEF Config
      <3>3. \A b \in running.tmpl[r.tmpl].certs : b \in R2.tmpl[r.tmpl].certs \/ b = l.cur
        BY <2>1, <2>2, <2>3, <3>2 DEF Sound, TidyPremises
      <3>4. Refs(running) \subseteq Refs(R2) \cup FilesOf(l.cur)
        BY <3>1, <3>3, RefsLeft
      <3>5. Refs(R2) \subseteq Refs(running)
        <4>1. Refs(R2) \subseteq Refs(running) \cup {}
          BY <3>1, <3>2, RefsJoined
        <4> QED
          BY <4>1
      <3>6. FilesOf(l.cur) \subseteq Refs(running)
        BY <2>3, <2>4, BoundInRefs
      <3>7. Leftover(r, e) = FilesOf(l.cur) /\ Leftover(r, l) = FilesOf(l.cur)
        BY <1>2, <2>1 DEF Leftover, Replaces
      <3>8. running.files = Refs(running) \cup Leftover(r, l) /\ R2.files = running.files
        BY <1>1, <1>4, <3>1, AfterFacts DEF OneTemplate
      <3>9. R2.files = Refs(R2) \cup Leftover(r, e)
        BY <3>4, <3>5, <3>6, <3>7, <3>8
      <3> QED
        BY <3>9 DEF Tidy, TidyBefore, TidyAfter
    <2> QED
      BY <1>2, <2>6, <2>7
  <1> QED
    BY <1>1, <1>2, <1>3, <1>4, SendTidy

LEMMA PostUnbindTidy ==
    ASSUME TidyPremises, Inv, CallShaped, StoreInv, TidyInv, NEW c \in Callers, PostUnbind(c)
    PROVE  TidyInv'
  <1> DEFINE r == call[c]
             l == loc[c]
             go == OldBindingRemoved(r, l)
             ok == Require(r, l, go)
             bad == Failed(r, l, "failed")
  <1>1. Query(c, "postUnbind", ok, bad) /\ pc[c] = "postUnbind" /\ l \in Local
    BY CallFacts DEF PostUnbind, Query
  <1>2. ok.at # "auth"
    BY <1>1, BoundOnward, RequireOnward DEF Onward
  <1>3. ASSUME Undisturbed, c \in sessions
        PROVE  Tidy(r, ok.at, ok.loc, running, startup)
    <2>1. ok = go
      BY <1>1, <1>3, RequireMet
    <2>2. Proper(r, go, running, startup)
      BY <1>1, <1>3, AfterFacts, OldBindingRemovedTidy
    <2> QED
      BY <2>1, <2>2 DEF Proper
  <1> HIDE DEF ok, bad
  <1> QED
    BY <1>1, <1>2, <1>3, QueryTidy

LEMMA PrePersistTidy ==
    ASSUME TidyPremises, Inv, CallShaped, StoreInv, TidyInv, NEW c \in Callers, PrePersist(c)
    PROVE  TidyInv'
  <1> DEFINE r == call[c]
             l == loc[c]
             ok == Require(r, l, Go("persist", l))
             bad == Failed(r, l, "failed")
  <1>1. Query(c, "prePersist", ok, bad) /\ pc[c] = "prePersist" /\ l \in Local
    BY CallFacts DEF PrePersist, Query
  <1>2. ok.at # "auth"
    BY <1>1, RequireOnward DEF Onward
  <1>3. ASSUME Undisturbed, c \in sessions
        PROVE  Tidy(r, ok.at, ok.loc, running, startup)
    <2>1. ok = Go("persist", l)
      BY <1>1, <1>3, RequireMet
    <2>2. Tidy(r, "persist", l, running, startup)
      BY <1>1, <1>3, AfterFacts DEF Tidy, TidyBefore, TidyAfter
    <2> QED
      BY <2>1, <2>2
  <1> HIDE DEF ok, bad
  <1> QED
    BY <1>1, <1>2, <1>3, QueryTidy

LEMMA WriteAccepted == \A R : ~ MayRefuse(R, WriteMemory)
  BY DEF MayRefuse, WriteMemory

LEMMA PersistTidy ==
    ASSUME TidyPremises, Inv, CallShaped, StoreInv, TidyInv, NEW c \in Callers, Persist(c)
    PROVE  TidyInv'
  <1> DEFINE r == call[c]
             l == loc[c]
             e == [l EXCEPT !.wrote = TRUE, !.stage = "persisted"]
             ok == Cleanup(r, e)
             bad == Go("rbInspect", [l EXCEPT !.full = TRUE])
  <1>1. Send(c, "persist", WriteMemory, ok, bad) /\ pc[c] = "persist"
    BY DEF Persist, Send
  <1>2. e \in Local /\ e.cur = l.cur
    BY CallFacts DEF Local, Stages
  <1> HIDE DEF e
  <1>3. ok.at # "auth"
    BY <1>2, EndOnward DEF Onward
  <1>4. ASSUME Undisturbed, c \in sessions
        PROVE  \A R2, S2 : Effect(running, startup, WriteMemory, R2, S2) => Tidy(r, ok.at, ok.loc, R2, S2)
    <2>1. \A R2, S2 : Effect(running, startup, WriteMemory, R2, S2) => R2 = running /\ S2 = running
      BY <1>4, TidyFacts, NoDelete, WriteEffect
    <2>2. Leftover(r, e) = Leftover(r, l)
      BY <1>2 DEF Leftover, Replaces
    <2>3. Proper(r, ok, running, running)
      BY <1>1, <1>4, <2>2, AfterFacts, CleanupTidy
    <2> QED
      BY <2>1, <2>3 DEF Proper
  <1> HIDE DEF ok, bad
  <1> QED
    BY <1>1, <1>3, <1>4, NoDelete, WriteAccepted, SendTidy

----------------------------------------------------------------------------
(* The cleanup.                                                            *)

(* Before the first delete everything is saved. *)
LEMMA ScanFacts ==
    ASSUME TidyPremises, Inv, CallShaped, StoreInv, TidyInv, Undisturbed, NEW c \in sessions,
           pc[c] \in Cleaning
    PROVE  /\ Leftover(call[c], loc[c]) = FilesOf(loc[c].cur) /\ loc[c].cur \in AllBindings
           /\ FilesOf(Desired(call[c])) \subseteq Refs(running)
  <1> DEFINE r == call[c]
             l == loc[c]
  <1>1. /\ Replaces(r, l) /\ l.exp = Rotated(r, l) /\ running.tmpl[r.tmpl] = l.exp
        /\ r \in Request /\ l \in Local
    BY TidyFacts DEF Shape, Expected, Phase, Matching
  <1>2. l.cur \in AllBindings
    BY <1>1, CurrentKnown
  <1>3. Desired(r) \in running.tmpl[r.tmpl].certs
    <2> DEFINE with == WithBinding(l.base, Desired(r))
    <2>1. with \in Template /\ with.certs = l.base.certs \cup {Desired(r)}
      BY <1>1, WithOf, DesiredTyped DEF Local
    <2>2. WithoutCertificate(with, l.cur.cert).certs = {p \in with.certs : p.cert # l.cur.cert}
      BY <2>1, WithoutOf
    <2>3. Desired(r).cert # l.cur.cert
      BY <1>1 DEF Replaces, Desired
    <2>4. running.tmpl[r.tmpl] = WithoutCertificate(with, l.cur.cert)
      BY <1>1 DEF Rotated
    <2> HIDE DEF with
    <2> QED
      BY <2>1, <2>2, <2>3, <2>4
  <1>4. FilesOf(Desired(r)) \subseteq Refs(running)
    BY <1>1, <1>3, BoundInRefs DEF Request
  <1> QED
    BY <1>1, <1>2, <1>4 DEF Leftover

LEMMA ScanClientTidy ==
    ASSUME TidyPremises, Inv, CallShaped, StoreInv, TidyInv, NEW c \in Callers, ScanClient(c)
    PROVE  TidyInv'
  <1> DEFINE r == call[c]
             l == loc[c]
             e == [l EXCEPT !.refs = ClientNames(c)]
             ok == Go("scanServer", e)
             bad == Failed(r, l, "failed")
  <1>1. Query(c, "scanClient", ok, bad) /\ pc[c] = "scanClient"
    BY DEF ScanClient, Query
  <1>2. e.refs = ClientNames(c) /\ e.cur = l.cur /\ ok.at = "scanServer" /\ ok.loc = e
    BY CallFacts DEF Local
  <1> HIDE DEF ok, bad, e
  <1>3. ASSUME Undisturbed, c \in sessions
        PROVE  Tidy(r, ok.at, ok.loc, running, startup)
    <2>1. running.files = Refs(running) \cup Leftover(r, l) /\ startup = running
      BY <1>1, <1>3, TidyFacts DEF Tidy, TidyAfter
    <2>2. Leftover(r, e) = Leftover(r, l)
      BY <1>2 DEF Leftover, Replaces
    <2>3. e.refs \subseteq NamesIn(Refs(running))
      BY <1>2, InRefs DEF ClientNames, NamesIn
    <2> QED
      BY <1>2, <2>1, <2>2, <2>3 DEF Tidy, TidyBefore, TidyAfter
  <1> QED
    BY <1>1, <1>2, <1>3, QueryTidy

LEMMA ScanServerTidy ==
    ASSUME TidyPremises, Inv, CallShaped, StoreInv, TidyInv, NEW c \in Callers, ScanServer(c)
    PROVE  TidyInv'
  <1> DEFINE r == call[c]
             l == loc[c]
             e == [l EXCEPT !.refs = @ \cup NamesIn(running.server)]
             ok == AfterScan(r, e)
             bad == Failed(r, l, "failed")
  <1>1. Query(c, "scanServer", ok, bad) /\ pc[c] = "scanServer"
    BY DEF ScanServer, Query
  <1>2. NamesIn(running.server) \subseteq Names
    BY DEF Inv, TypeOK, Config, NamesIn, File
  <1>3. e \in Local /\ e.refs = l.refs \cup NamesIn(running.server) /\ e.cur = l.cur
    BY <1>2, CallFacts DEF Local
  <1> HIDE DEF e
  <1>4. ok.at # "auth"
    BY <1>3, EndOnward DEF Onward
  <1>5. ASSUME Undisturbed, c \in sessions
        PROVE  Tidy(r, ok.at, ok.loc, running, startup)
    <2>1. /\ running.files = Refs(running) \cup Leftover(r, l) /\ startup = running
          /\ l.refs \subseteq NamesIn(Refs(running)) /\ ~ r.noWrite
          /\ Rooted(running) /\ Sound(running)
      BY <1>1, <1>5, TidyFacts DEF Tidy, TidyAfter
    <2>2. Leftover(r, e) = Leftover(r, l)
      BY <1>3 DEF Leftover, Replaces
    <2>3. e.refs \subseteq NamesIn(Refs(running))
      BY <1>3, <2>1, InRefs DEF NamesIn
    <2>4. /\ Leftover(r, l) = FilesOf(l.cur) /\ l.cur \in AllBindings
          /\ FilesOf(Desired(r)) \subseteq Refs(running)
      BY <1>1, <1>5, ScanFacts
    <2>5. Leftover(r, e) \subseteq Refs(running) \cup DoomedPair(r, e) \cup DoomedChain(r, e)
      BY <1>3, <2>1, <2>2, <2>3, <2>4, LeftoverDoomed
    <2>6. Proper(r, ok, running, running)
      BY <1>3, <2>1, <2>2, <2>3, <2>5, AfterScanTidy
    <2> QED
      BY <2>1, <2>6 DEF Proper
  <1> HIDE DEF ok, bad
  <1> QED
    BY <1>1, <1>4, <1>5, QueryTidy

LEMMA DeletePairTidy ==
    ASSUME TidyPremises, Inv, CallShaped, StoreInv, TidyInv, NEW c \in Callers, DeletePair(c)
    PROVE  TidyInv'
  <1> DEFINE r == call[c]
             l == loc[c]
             doomed == DoomedPair(r, l)
             e == [l EXCEPT !.deleted = doomed]
             m == DeleteOf(doomed)
             ok == AfterPair(r, e)
             bad == Failed(r, l, "failed")
  <1>1. Send(c, "deletePair", m, ok, bad) /\ pc[c] = "deletePair" /\ r \in Request /\ l \in Local
    BY CallFacts DEF DeletePair, Send
  <1>2. doomed \in SUBSET File
    <2>1. l.cur # NoBinding
      BY DEF DeletePair, Send, Inv, LocalsFit, Fits, Retiring
    <2> QED
      BY <1>1, <2>1, DoomedTyped
  <1>3. e \in Local /\ e.deleted = doomed /\ e.cur = l.cur /\ e.refs = l.refs
    BY <1>1, <1>2 DEF Local
  <1>4. m \in Message /\ m.op = "delete" /\ m.files = doomed
    BY <1>2, DeleteOfMessage
  <1>10. DoomedPair(r, e) = doomed /\ DoomedChain(r, e) = DoomedChain(r, l) /\ Leftover(r, e) = Leftover(r, l)
    BY <1>3 DEF DoomedPair, DoomedChain, Leftover, Replaces
  <1> HIDE DEF e, m
  <1>5. ok.at # "auth"
    BY <1>3, EndOnward DEF Onward
  <1>6. ASSUME Undisturbed, c \in sessions
        PROVE  /\ ~ MayRefuse(running, m)
               /\ \A R2, S2 : Effect(running, startup, m, R2, S2) => Tidy(r, ok.at, ok.loc, R2, S2)
    <2>1. /\ running.files = Refs(running) \cup Leftover(r, l) /\ startup = running
          /\ l.refs \subseteq NamesIn(Refs(running)) /\ ~ r.noWrite
          /\ NamesIn(Refs(running)) \subseteq l.refs
          /\ doomed # {} /\ Rooted(running) /\ Sound(running) /\ running \in Config
      BY <1>1, <1>6, TidyFacts DEF Tidy, TidyAfter, Phase, Scanned
    <2>2. /\ Leftover(r, l) = FilesOf(l.cur) /\ l.cur \in AllBindings
          /\ FilesOf(Desired(r)) \subseteq Refs(running)
      BY <1>1, <1>6, ScanFacts
    <2>3. Leftover(r, l) \subseteq Refs(running) \cup doomed \cup DoomedChain(r, l)
      BY <2>1, <2>2, LeftoverDoomed
    <2>4. doomed \cap Refs(running) = {} /\ doomed \subseteq Leftover(r, l)
      BY <2>1, <2>2, DoomedUnreferenced DEF DoomedPair, FilesOf
    <2> HIDE DEF doomed
    <2>5. ~ MayRefuse(running, m)
      BY <1>4, <2>1, <2>4 DEF MayRefuse
    <2>6. ASSUME NEW R2, NEW S2, Effect(running, startup, m, R2, S2)
          PROVE  Tidy(r, ok.at, ok.loc, R2, S2)
      <3>0. running \in Config /\ m \in Message /\ m.op = "delete" /\ m.files = doomed
        BY <1>4, <2>1
      <3>1. R2.tmpl = running.tmpl /\ R2.server = running.server /\ R2.files = running.files \ doomed
        BY <2>6, <3>0, DeleteEffect
      <3>2. Refs(R2) = Refs(running)
        BY <3>1, SameRefs
      <3>3. R2.files = Refs(R2) \cup (Leftover(r, e) \ DoomedPair(r, e))
        BY <1>10, <2>1, <2>4, <3>1, <3>2
      <3>4. /\ Leftover(r, e) \subseteq Refs(R2) \cup DoomedPair(r, e) \cup DoomedChain(r, e)
            /\ e.refs \subseteq NamesIn(Refs(R2)) /\ e.deleted # {}
        BY <1>3, <1>10, <2>1, <2>3, <3>2
      <3>5. Proper(r, ok, R2, S2)
        BY <1>3, <2>1, <3>3, <3>4, AfterPairTidy
      <3> QED
        BY <3>5 DEF Proper
    <2> QED
      BY <2>5, <2>6
  <1> HIDE DEF ok, bad
  <1> QED
    BY <1>1, <1>4, <1>5, <1>6, SendTidy

LEMMA DeleteChainTidy ==
    ASSUME TidyPremises, Inv, CallShaped, StoreInv, TidyInv, NEW c \in Callers, DeleteChain(c)
    PROVE  TidyInv'
  <1> DEFINE r == call[c]
             l == loc[c]
             doomed == DoomedChain(r, l)
             e == [l EXCEPT !.deleted = @ \cup doomed]
             m == DeleteOf(doomed)
             ok == AfterCleanup(r, e)
             bad == Failed(r, l, "failed")
  <1>1. Send(c, "deleteChain", m, ok, bad) /\ pc[c] = "deleteChain" /\ r \in Request /\ l \in Local
    BY CallFacts DEF DeleteChain, Send
  <1>2. doomed \in SUBSET File
    <2>1. l.cur # NoBinding
      BY DEF DeleteChain, Send, Inv, LocalsFit, Fits, Retiring
    <2> QED
      BY <1>1, <2>1, DoomedTyped
  <1>3. e \in Local /\ e.deleted = l.deleted \cup doomed
    BY <1>1, <1>2 DEF Local
  <1>4. m \in Message /\ m.op = "delete" /\ m.files = doomed
    BY <1>2, DeleteOfMessage
  <1> HIDE DEF e, m
  <1>5. ok.at # "auth"
    BY <1>3, EndOnward DEF Onward
  <1>6. ASSUME Undisturbed, c \in sessions
        PROVE  /\ ~ MayRefuse(running, m)
               /\ \A R2, S2 : Effect(running, startup, m, R2, S2) => Tidy(r, ok.at, ok.loc, R2, S2)
    <2>1. /\ running.files = Refs(running) \cup (Leftover(r, l) \ DoomedPair(r, l))
          /\ l.refs \subseteq NamesIn(Refs(running)) /\ ~ r.noWrite
          /\ NamesIn(Refs(running)) \subseteq l.refs
          /\ doomed # {} /\ Rooted(running) /\ Sound(running) /\ running \in Config
      BY <1>1, <1>6, TidyFacts DEF Tidy, TidyAfter, Phase, Scanned
    <2>2. /\ Leftover(r, l) = FilesOf(l.cur) /\ l.cur \in AllBindings
          /\ FilesOf(Desired(r)) \subseteq Refs(running)
      BY <1>1, <1>6, ScanFacts
    <2>3. Leftover(r, l) \subseteq Refs(running) \cup DoomedPair(r, l) \cup doomed
      BY <2>1, <2>2, LeftoverDoomed
    <2>4. doomed \cap Refs(running) = {} /\ doomed \subseteq Leftover(r, l)
      BY <2>1, <2>2, DoomedUnreferenced DEF DoomedChain, FilesOf
    <2>7. doomed \cap DoomedPair(r, l) = {}
      <3>1. l.cur.chain # l.cur.cert
        BY <2>2 DEF TidyPremises
      <3> QED
        BY <3>1 DEF DoomedChain, DoomedPair, PairOf, ChainOf
    <2> HIDE DEF doomed
    <2>5. ~ MayRefuse(running, m)
      BY <1>4, <2>1, <2>4, <2>7 DEF MayRefuse
    <2>6. ASSUME NEW R2, NEW S2, Effect(running, startup, m, R2, S2)
          PROVE  Tidy(r, ok.at, ok.loc, R2, S2)
      <3>0. running \in Config /\ m \in Message /\ m.op = "delete" /\ m.files = doomed
        BY <1>4, <2>1
      <3>1. R2.tmpl = running.tmpl /\ R2.server = running.server /\ R2.files = running.files \ doomed
        BY <2>6, <3>0, DeleteEffect
      <3>2. Refs(R2) = Refs(running)
        BY <3>1, SameRefs
      <3>3. R2.files = Refs(R2)
        BY <2>1, <2>3, <2>4, <3>1, <3>2
      <3>4. Proper(r, ok, R2, S2)
        BY <1>3, <2>1, <3>3, AfterCleanupTidy
      <3> QED
        BY <3>4 DEF Proper
    <2> QED
      BY <2>5, <2>6
  <1> HIDE DEF ok, bad
  <1> QED
    BY <1>1, <1>4, <1>5, <1>6, SendTidy

LEMMA PersistCleanupTidy ==
    ASSUME TidyPremises, Inv, CallShaped, StoreInv, TidyInv, NEW c \in Callers, PersistCleanup(c)
    PROVE  TidyInv'
  <1> DEFINE r == call[c]
             l == loc[c]
             ok == Complete(l)
             bad == Failed(r, l, "failed")
  <1>1. Send(c, "persistCleanup", WriteMemory, ok, bad) /\ pc[c] = "persistCleanup"
    BY DEF PersistCleanup, Send
  <1>2. ok.at # "auth"
    BY DEF Complete
  <1>3. ASSUME Undisturbed, c \in sessions
        PROVE  \A R2, S2 : Effect(running, startup, WriteMemory, R2, S2) => Tidy(r, ok.at, ok.loc, R2, S2)
    <2>1. \A R2, S2 : Effect(running, startup, WriteMemory, R2, S2) => R2 = running /\ S2 = running
      BY <1>3, TidyFacts, NoDelete, WriteEffect
    <2>2. Clean(running, running)
      BY <1>1, <1>3, TidyFacts DEF Tidy, TidyAfter, Clean
    <2>3. Proper(r, ok, running, running)
      BY <2>2, CompleteTidy
    <2> QED
      BY <2>1, <2>3 DEF Proper
  <1> HIDE DEF ok, bad
  <1> QED
    BY <1>1, <1>2, <1>3, NoDelete, WriteAccepted, SendTidy

----------------------------------------------------------------------------
(* The rollback of a collision.                                            *)

LEMMA UndoPairTidy ==
    ASSUME TidyPremises, Inv, CallShaped, StoreInv, TidyInv, NEW c \in Callers, UndoPair(c)
    PROVE  TidyInv'
  <1> DEFINE r == call[c]
             l == loc[c]
             pair == PairOf(Desired(r))
             F == l.up \cap pair
             m == DeleteOf(F)
             k == [l EXCEPT !.up = @ \ pair]
             ok == Go(IF l.up \subseteq pair THEN "undoCerts" ELSE "undoChain", l)
             bad == UndoFailed(r, l)
  <1>1. Send(c, "undoPair", m, ok, bad) /\ pc[c] = "undoPair" /\ l \in Local
    BY CallFacts DEF UndoPair, Send
  <1>2. F \in SUBSET File /\ k.up = l.up \ pair /\ k.seen = l.seen
    BY <1>1 DEF Local
  <1>3. m \in Message /\ m.op = "delete" /\ m.files = F
    BY <1>2, DeleteOfMessage
  <1>4. ok.at # "auth"
    OBVIOUS
  <1> HIDE DEF m, k
  <1>5. ASSUME Undisturbed, c \in sessions
        PROVE  /\ ~ MayRefuse(running, m)
               /\ \A R2, S2 : Effect(running, startup, m, R2, S2) => Tidy(r, ok.at, ok.loc, R2, S2)
    <2>1. /\ Loaded(l, running, startup) /\ ~ l.full /\ running \in Config /\ startup \in Config
          /\ l.up \cap l.seen = {}
      BY <1>1, <1>5, TidyFacts DEF Tidy, TidyBefore, Shape, Common
    <2>2. ~ MayRefuse(running, m)
      BY <1>3, <2>1 DEF MayRefuse, Loaded
    <2>3. ASSUME NEW R2, NEW S2, Effect(running, startup, m, R2, S2)
          PROVE  Tidy(r, ok.at, ok.loc, R2, S2)
      <3>1. R2.tmpl = running.tmpl /\ R2.server = running.server /\ R2.files = running.files \ F /\ S2 = startup
        BY <1>3, <2>1, <2>3, DeleteEffect
      <3>2. Refs(R2) = Refs(running) /\ R2 \in Config
        BY <1>3, <2>1, <2>3, <3>1, SameRefs, EffectTyped
      <3>3. Loaded(k, R2, S2)
        BY <1>2, <2>1, <3>1, <3>2 DEF Loaded
      <3>4. CASE l.up \subseteq pair
        <4>1. Clean(R2, S2)
          BY <1>2, <2>1, <3>1, <3>2, <3>3, <3>4, CleanConfig DEF Loaded
        <4>2. ok = Go("undoCerts", l)
          BY <3>4
        <4> QED
          BY <2>1, <4>1, <4>2 DEF Tidy, TidyBefore, TidyAfter
      <3>5. CASE ~ (l.up \subseteq pair)
        <4>2. ok = Go("undoChain", l)
          BY <3>5
        <4> QED
          BY <2>1, <3>3, <4>2 DEF Tidy, TidyBefore, TidyAfter, k
      <3> QED
        BY <3>4, <3>5
    <2> QED
      BY <2>2, <2>3
  <1> HIDE DEF ok, bad
  <1> QED
    BY <1>1, <1>3, <1>4, <1>5, SendTidy

LEMMA UndoChainTidy ==
    ASSUME TidyPremises, Inv, CallShaped, StoreInv, TidyInv, NEW c \in Callers, UndoChain(c)
    PROVE  TidyInv'
  <1> DEFINE r == call[c]
             l == loc[c]
             F == l.up \ PairOf(Desired(r))
             m == DeleteOf(F)
             k == [l EXCEPT !.up = @ \ PairOf(Desired(r))]
             ok == Go("undoCerts", l)
             bad == UndoFailed(r, l)
  <1>1. Send(c, "undoChain", m, ok, bad) /\ pc[c] = "undoChain" /\ l \in Local
    BY CallFacts DEF UndoChain, Send
  <1>2. F \in SUBSET File /\ k.up = F /\ k.seen = l.seen
    BY <1>1 DEF Local
  <1>3. m \in Message /\ m.op = "delete" /\ m.files = F
    BY <1>2, DeleteOfMessage
  <1>4. ok.at # "auth"
    OBVIOUS
  <1> HIDE DEF m
  <1>5. ASSUME Undisturbed, c \in sessions
        PROVE  /\ ~ MayRefuse(running, m)
               /\ \A R2, S2 : Effect(running, startup, m, R2, S2) => Tidy(r, ok.at, ok.loc, R2, S2)
    <2>1. /\ Loaded(k, running, startup) /\ ~ l.full /\ running \in Config /\ startup \in Config
          /\ l.up \cap l.seen = {}
      BY <1>1, <1>5, TidyFacts DEF Tidy, TidyBefore, Shape, Common
    <2> HIDE DEF k
    <2>2. ~ MayRefuse(running, m)
      BY <1>2, <1>3, <2>1 DEF MayRefuse, Loaded
    <2>3. ASSUME NEW R2, NEW S2, Effect(running, startup, m, R2, S2)
          PROVE  Tidy(r, ok.at, ok.loc, R2, S2)
      <3>1. R2.tmpl = running.tmpl /\ R2.server = running.server /\ R2.files = running.files \ F /\ S2 = startup
        BY <1>3, <2>1, <2>3, DeleteEffect
      <3>2. Refs(R2) = Refs(running) /\ R2 \in Config
        BY <1>3, <2>1, <2>3, <3>1, SameRefs, EffectTyped
      <3>3. Clean(R2, S2)
        BY <1>2, <2>1, <3>1, <3>2, CleanConfig DEF Loaded
      <3> QED
        BY <2>1, <3>3 DEF Tidy, TidyBefore, TidyAfter
    <2> QED
      BY <2>2, <2>3
  <1> HIDE DEF ok, bad
  <1> QED
    BY <1>1, <1>3, <1>4, <1>5, SendTidy

LEMMA UndoCertsTidy ==
    ASSUME TidyPremises, Inv, CallShaped, StoreInv, TidyInv, NEW c \in Callers, UndoCerts(c)
    PROVE  TidyInv'
  <1> DEFINE r == call[c]
             l == loc[c]
             e == [l EXCEPT !.info = StoreFiles("cert")]
             ok == Go("undoKeys", e)
             bad == UndoFailed(r, l)
  <1>1. Query(c, "undoCerts", ok, bad) /\ pc[c] = "undoCerts"
    BY DEF UndoCerts, Query
  <1>2. e.full = l.full /\ ok.at = "undoKeys" /\ ok.loc = e
    BY CallFacts DEF Local
  <1> HIDE DEF ok, bad, e
  <1>3. Undisturbed /\ c \in sessions => Tidy(r, ok.at, ok.loc, running, startup)
    BY <1>1, <1>2, TidyFacts DEF Tidy, TidyBefore, TidyAfter
  <1> QED
    BY <1>1, <1>2, <1>3, QueryTidy

LEMMA UndoKeysTidy ==
    ASSUME TidyPremises, Inv, CallShaped, StoreInv, TidyInv, NEW c \in Callers, UndoKeys(c)
    PROVE  TidyInv'
  <1> DEFINE r == call[c]
             l == loc[c]
             ok == IF l.up \cap (l.info \cup StoreFiles("key")) = {} THEN Undone(l) ELSE UndoFailed(r, l)
             bad == UndoFailed(r, l)
  <1>1. Query(c, "undoKeys", ok, bad) /\ pc[c] = "undoKeys" /\ l \in Local
    BY CallFacts DEF UndoKeys, Query
  <1>2. ok.at # "auth"
    BY <1>1, RollbackOnward DEF Onward
  <1>3. ASSUME Undisturbed, c \in sessions
        PROVE  Tidy(r, ok.at, ok.loc, running, startup)
    <2>1. Clean(running, startup) /\ ~ l.full /\ ~ l.attempted
      BY <1>1, <1>3, TidyFacts DEF Tidy, TidyBefore, Shape, Common
    <2>2. ok.at = "logoff"
      BY <2>1 DEF Undone, UndoFailed
    <2> QED
      BY <2>1, <2>2 DEF Tidy, TidyBefore, TidyAfter
  <1> HIDE DEF ok, bad
  <1> QED
    BY <1>1, <1>2, <1>3, QueryTidy

----------------------------------------------------------------------------
(* What an undisturbed call never comes to.                                *)

LEMMA QueryNever ==
    ASSUME Inv, TidyInv, NEW c \in Callers, NEW label \in InCall \ {"auth"}, NEW ok, NEW bad,
           Query(c, label, ok, bad), Undisturbed'
    PROVE  Undisturbed /\ c \in sessions /\ pc[c] = label
  <1>1. Undisturbed /\ pc[c] = label
    BY CalmBreak DEF Query, Undisturbed
  <1> QED
    BY <1>1 DEF TidyInv, Active

LEMMA SendNever ==
    ASSUME Inv, TidyInv, NEW c \in Callers, NEW label \in InCall \ {"auth"}, NEW m, NEW ok, NEW bad,
           Send(c, label, m, ok, bad), Undisturbed'
    PROVE  Undisturbed /\ c \in sessions /\ pc[c] = label
  <1>1. Undisturbed /\ pc[c] = label
    BY CalmBreak DEF Send, Undisturbed
  <1> QED
    BY <1>1 DEF TidyInv, Active

LEMMA NeverTidy ==
    ASSUME TidyPremises, Inv, CallShaped, StoreInv, TidyInv, NEW c \in Callers,
           \/ CreatePersist(c) \/ UndoPersist(c)
           \/ RbInspect(c) \/ RbBind(c) \/ RbReread(c) \/ RbUnbind(c) \/ RbVerify(c) \/ RbPersist(c)
    PROVE  TidyInv'
  <1> SUFFICES ASSUME Undisturbed'
               PROVE  FALSE
    BY DEF TidyInv
  <1>1. Undisturbed /\ c \in sessions /\ pc[c] \in Restoring \cup Staging
    <2>1. CASE CreatePersist(c)
      BY <2>1, SendNever DEF CreatePersist
    <2>2. CASE UndoPersist(c)
      BY <2>2, SendNever DEF UndoPersist
    <2>3. CASE RbInspect(c)
      BY <2>3, QueryNever DEF RbInspect
    <2>4. CASE RbBind(c)
      BY <2>4, SendNever DEF RbBind
    <2>5. CASE RbReread(c)
      BY <2>5, QueryNever DEF RbReread
    <2>6. CASE RbUnbind(c)
      BY <2>6, SendNever DEF RbUnbind
    <2>7. CASE RbVerify(c)
      BY <2>7, QueryNever DEF RbVerify
    <2>8. CASE RbPersist(c)
      BY <2>8, SendNever DEF RbPersist
    <2> QED
      BY <2>1, <2>2, <2>3, <2>4, <2>5, <2>6, <2>7, <2>8
  <1> QED
    BY <1>1, TidyFacts DEF Tidy, Shape, Course

----------------------------------------------------------------------------
(* Calls, and what happens around them.                                    *)

(* A caller that has no session moves on without getting one. *)
LEMMA OutsideTidy ==
    ASSUME Inv, TidyInv, NEW c \in Callers, c \notin sessions, NEW o, Take(c, o),
           o.at \notin InCall \/ o.at = "auth", Undisturbed' => Undisturbed,
           UNCHANGED appliance, \A d \in Callers \ {c} : call'[d] = call[d]
    PROVE  TidyInv'
  <1> SUFFICES ASSUME Undisturbed'
               PROVE  TidyInv'
    BY DEF TidyInv
  <1>1. /\ pc'[c] = o.at
        /\ \A d \in Callers \ {c} : pc'[d] = pc[d] /\ loc'[d] = loc[d]
    BY TakeOther
  <1>2. UNCHANGED <<running, startup, sessions, doubt>> /\ Undisturbed /\ sessions \subseteq Callers
    BY DEF appliance, Inv, TypeOK
  <1>3. Rooted(running') /\ Clean(running', startup') = Clean(running, startup)
    BY <1>2 DEF TidyInv, Rooted, Clean
  <1>4. \A d \in sessions' : Tidy(call'[d], pc'[d], loc'[d], running', startup')
    BY <1>1, <1>2 DEF TidyInv
  <1>5. \A d \in Callers : doubt'[d] = {} /\ (Active(d)' /\ pc'[d] # "auth" => d \in sessions')
    BY <1>1, <1>2 DEF TidyInv, Active
  <1> QED
    BY <1>2, <1>3, <1>4, <1>5 DEF TidyInv, Rooted

LEMMA InvokeTidy ==
    ASSUME Inv, StoreInv, TidyInv, NEW c \in Callers, Invoke(c)
    PROVE  TidyInv'
  <1>1. PICK r \in Requests[c] :
            /\ pc[c] \in Rest /\ call' = [call EXCEPT ![c] = r] /\ UNCHANGED appliance
            /\ Spend("call")
            /\ Take(c, Go("lock", Fresh(IF r.pinned THEN {running.tmpl[r.tmpl]} ELSE {})))
    BY DEF Invoke
  <1>2. \A d \in Callers \ {c} : call'[d] = call[d]
    BY <1>1 DEF Inv, TypeOK
  <1>3. c \notin sessions
    BY <1>1, NoSession
  <1>4. Undisturbed' => Undisturbed
    BY <1>1, SpendOther DEF Undisturbed, Budget
  <1> QED
    BY <1>1, <1>2, <1>3, <1>4, OutsideTidy

LEMMA RetryTidy ==
    ASSUME Inv, StoreInv, TidyInv, NEW c \in Callers, Retry(c)
    PROVE  TidyInv'
  <1>1. /\ pc[c] \in Rest /\ UNCHANGED <<appliance, call, used>>
        /\ Take(c, Go("lock", Fresh({})))
    BY DEF Retry
  <1>2. c \notin sessions /\ (Undisturbed' => Undisturbed)
    BY <1>1, NoSession DEF Undisturbed
  <1> QED
    BY <1>1, <1>2, OutsideTidy

LEMMA LockTidy ==
    ASSUME Inv, StoreInv, TidyInv, NEW c \in Callers, Lock(c)
    PROVE  TidyInv'
  <1>1. /\ pc[c] = "lock" /\ UNCHANGED <<appliance, call, used>>
        /\ Take(c, Go("auth", loc[c]))
    BY DEF Lock, OnSession, StoreInv, Premises
  <1>2. c \notin sessions /\ (Undisturbed' => Undisturbed)
    BY <1>1, NoSession DEF Undisturbed
  <1> QED
    BY <1>1, <1>2, OutsideTidy

(* The mutex has kept everybody else away, so the call finds the appliance *)
(* as tidy as the last one has left it.                                    *)
LEMMA AuthTidy ==
    ASSUME Inv, StoreInv, TidyInv, NEW c \in Callers, Auth(c)
    PROVE  TidyInv'
  <1> SUFFICES ASSUME Undisturbed'
               PROVE  TidyInv'
    BY DEF TidyInv
  <1>1. /\ sessions' = sessions \cup {c} /\ Take(c, Go("version", loc[c])) /\ UNCHANGED used
        /\ UNCHANGED <<running, startup, doubt, call>> /\ pc[c] = "auth"
    BY Disturbed DEF Auth
  <1>2. Undisturbed
    BY <1>1 DEF Undisturbed
  <1>3. sessions = {}
    <2> SUFFICES ASSUME NEW d \in sessions
                 PROVE  FALSE
      OBVIOUS
    <2>1. d \in Callers /\ Active(d) /\ pc[d] # "auth"
      BY DEF Inv, TypeOK, StoreInv
    <2>2. Active(c) /\ ClientOf[c] = ClientOf[d]
      BY <1>1, <2>1 DEF Active, StoreInv, Premises
    <2>3. c = d
      BY <2>1, <2>2 DEF Inv, ManagedWritesExclusive
    <2> QED
      BY <1>1, <2>1, <2>3
  <1>4. /\ pc'[c] = "version" /\ loc'[c] = loc[c]
        /\ \A d \in Callers \ {c} : pc'[d] = pc[d] /\ loc'[d] = loc[d]
    BY <1>1, TakeOther
  <1>5. Rooted(running) /\ Clean(running, startup)
    BY <1>2, <1>3 DEF TidyInv
  <1>6. Tidy(call[c], "version", loc[c], running, startup)
    BY <1>5 DEF Tidy, TidyBefore, TidyAfter
  <1>7. \A d \in sessions' : Tidy(call'[d], pc'[d], loc'[d], running', startup')
    BY <1>1, <1>3, <1>4, <1>6
  <1>8. \A d \in Callers : doubt'[d] = {} /\ (Active(d)' /\ pc'[d] # "auth" => d \in sessions')
    BY <1>1, <1>2, <1>4 DEF TidyInv, Active
  <1> QED
    BY <1>1, <1>5, <1>7, <1>8 DEF TidyInv, Rooted

LEMMA LogoffTidy ==
    ASSUME Inv, StoreInv, TidyInv, NEW c \in Callers, Logoff(c)
    PROVE  TidyInv'
  <1> SUFFICES ASSUME Undisturbed'
               PROVE  TidyInv'
    BY DEF TidyInv
  <1>1. /\ sessions' = sessions \ {c} /\ doubt' = [doubt EXCEPT ![c] = {}]
        /\ UNCHANGED <<running, startup, call>> /\ pc[c] = "logoff"
    BY DEF Logoff
  <1>2. PICK e \in {"none", "logoff"} :
            /\ IF e = "none" THEN c \in sessions /\ UNCHANGED used ELSE Breaks(c)
            /\ Take(c, Go("returned",
                       [Fresh({}) EXCEPT !.stage = loc[c].stage,
                                         !.err = IF loc[c].err = "none" THEN e ELSE loc[c].err]))
    BY DEF Logoff
  <1>3. Undisturbed
    BY <1>2, CalmBreak DEF Undisturbed
  <1>4. c \in sessions
    BY <1>1, <1>3 DEF TidyInv, Active
  <1>5. sessions' = {}
    BY <1>1, <1>4, OneSession
  <1>6. Rooted(running) /\ Clean(running, startup)
    BY <1>1, <1>3, <1>4 DEF TidyInv, Tidy, TidyBefore
  <1>7. /\ pc'[c] = "returned"
        /\ \A d \in Callers \ {c} : pc'[d] = pc[d] /\ loc'[d] = loc[d]
    BY <1>2, TakeOther
  <1>8. \A d \in Callers : doubt'[d] = {}
    BY <1>1, <1>3 DEF TidyInv, Inv, TypeOK
  <1>9. \A d \in Callers : Active(d)' /\ pc'[d] # "auth" => d \in sessions'
    <2> SUFFICES ASSUME NEW d \in Callers, Active(d)', pc'[d] # "auth"
                 PROVE  FALSE
      OBVIOUS
    <2>1. d # c /\ Active(d) /\ pc[d] # "auth"
      BY <1>7 DEF Active
    <2>2. d \in sessions
      BY <1>3, <2>1 DEF TidyInv
    <2> QED
      BY <1>4, <2>1, <2>2, OneSession
  <1> QED
    BY <1>1, <1>5, <1>6, <1>8, <1>9 DEF TidyInv, Rooted, Clean

LEMMA EnvironmentTidy ==
    ASSUME Inv, StoreInv, TidyInv, stray = {}, Environment
    PROVE  TidyInv'
  <1> SUFFICES ASSUME Undisturbed'
               PROVE  FALSE
    BY DEF TidyInv
  <1>1. CASE OperatorEdit
    BY <1>1, Disturbed DEF OperatorEdit
  <1>2. CASE Reboot
    BY <1>2, Disturbed DEF Reboot
  <1>3. ASSUME NEW k \in Clients, Crash(k)
        PROVE  FALSE
    BY <1>3, Disturbed DEF Crash
  <1>4. ASSUME NEW k \in Clients, CloseSession(k)
        PROVE  FALSE
    BY <1>4 DEF CloseSession, StoreInv, Premises
  <1>5. ASSUME NEW c \in Callers, Deliver(c)
        PROVE  FALSE
    <2>1. doubt[c] # {} /\ Undisturbed
      BY <1>5 DEF Deliver, Undisturbed
    <2> QED
      BY <2>1 DEF TidyInv
  <1>6. ~ Land
    BY DEF Land
  <1> QED
    BY <1>1, <1>2, <1>3, <1>4, <1>5, <1>6 DEF Environment

LEMMA RotateTidy ==
    ASSUME TidyPremises, Inv, CallShaped, StoreInv, TidyInv, NEW c \in Callers, Rotate(c)
    PROVE  TidyInv'
  BY VersionTidy, InspectTidy, ListCertsTidy, ListKeysTidy, ListInfoTidy, UpKeyTidy, UpCertTidy,
     UpChainTidy, PreBindTidy, BindTidy, ReadBackTidy, VerifyBoundTidy, PreUnbindTidy, UnbindTidy,
     PostUnbindTidy, PrePersistTidy, PersistTidy, ScanClientTidy, ScanServerTidy, DeletePairTidy,
     DeleteChainTidy, PersistCleanupTidy, NeverTidy DEF Rotate

LEMMA RollbackTidy ==
    ASSUME TidyPremises, Inv, CallShaped, StoreInv, TidyInv, NEW c \in Callers, Rollback(c)
    PROVE  TidyInv'
  BY UndoPairTidy, UndoChainTidy, UndoCertsTidy, UndoKeysTidy, NeverTidy DEF Rollback

LEMMA NextTidy ==
    ASSUME TidyPremises, Inv, CallShaped, StoreInv, TidyInv, stray = {}, [Next]_vars
    PROVE  TidyInv'
  <1>1. ASSUME NEW c \in Callers, Invoke(c) \/ Retry(c) \/ Lock(c) \/ Auth(c) \/ Logoff(c)
        PROVE  TidyInv'
    BY <1>1, InvokeTidy, RetryTidy, LockTidy, AuthTidy, LogoffTidy
  <1>2. ASSUME NEW c \in Callers, Rotate(c) \/ Rollback(c)
        PROVE  TidyInv'
    BY <1>2, RotateTidy, RollbackTidy
  <1>3. ASSUME NEW c \in Callers, Unlock(c)
        PROVE  TidyInv'
    BY <1>3 DEF Unlock, OnSession, StoreInv, Premises
  <1>4. CASE UNCHANGED vars
    BY <1>4 DEF vars, TidyInv, Undisturbed, Active, Rooted, Clean, Tidy, TidyBefore, TidyAfter
  <1> QED
    BY <1>1, <1>2, <1>3, <1>4, EnvironmentTidy DEF Next, Step, Finished

LEMMA Spending ==
    ASSUME [Next]_vars
    PROVE  UNCHANGED used \/ \E b \in Budget : Spend(b)
  <1> USE DEF Budget, Breaks
  <1>1. ASSUME NEW c \in Callers, Rotate(c)
        PROVE  UNCHANGED used \/ Spend("fault")
    BY <1>1 DEF Rotate, Query, Send, appliance, Version, Inspect, ListCerts, ListKeys, ListInfo,
         UpKey, UpCert, UpChain, PreBind, Bind, ReadBack, VerifyBound, PreUnbind, Unbind,
         PostUnbind, PrePersist, Persist, ScanClient, ScanServer, DeletePair, DeleteChain,
         PersistCleanup, CreatePersist
  <1>2. ASSUME NEW c \in Callers, Rollback(c)
        PROVE  UNCHANGED used \/ Spend("fault")
    BY <1>2 DEF Rollback, Query, Send, appliance, RbInspect, RbBind, RbReread, RbUnbind, RbVerify,
         RbPersist, UndoPair, UndoChain, UndoCerts, UndoKeys, UndoPersist
  <1>3. ASSUME NEW c \in Callers,
               Invoke(c) \/ Retry(c) \/ Lock(c) \/ Auth(c) \/ Logoff(c) \/ Unlock(c)
        PROVE  UNCHANGED used \/ Spend("fault") \/ Spend("call")
    BY <1>3 DEF Invoke, Retry, Lock, Auth, Logoff, Unlock
  <1>4. CASE Environment
    BY <1>4 DEF Environment, OperatorEdit, Reboot, Crash, CloseSession, Land, Deliver
  <1> QED
    BY <1>1, <1>2, <1>3, <1>4 DEF Next, Step, Finished, vars

(* Nobody leaves a request behind who can log off. *)
NoneLate == Undisturbed => stray = {} /\ landed = {}

LEMMA NextNoneLate ==
    ASSUME Inv, Premises, NoneLate, TidyInv, [Next]_vars
    PROVE  NoneLate' /\ (Undisturbed' => Undisturbed)
  <1> SUFFICES ASSUME Undisturbed'
               PROVE  stray' = {} /\ landed' = {} /\ Undisturbed
    BY DEF NoneLate
  <1>1. Undisturbed
    <2>1. CASE UNCHANGED used
      BY <2>1 DEF Undisturbed
    <2>2. ASSUME NEW b \in Budget, Spend(b)
          PROVE  Undisturbed
      BY <2>2 DEF Undisturbed, Spend, Inv, TypeOK, Budget
    <2> QED
      BY <2>1, <2>2, Spending
  <1>2. stray = {} /\ landed = {}
    BY <1>1 DEF NoneLate
  <1>3. \A c \in Callers : doubt[c] = {}
    BY <1>1 DEF TidyInv
  <1>4. ASSUME NEW c \in Callers, Rotate(c)
        PROVE  UNCHANGED <<stray, landed>>
    BY <1>4 DEF Rotate, Query, Send, appliance, Version, Inspect, ListCerts, ListKeys, ListInfo,
         UpKey, UpCert, UpChain, PreBind, Bind, ReadBack, VerifyBound, PreUnbind, Unbind,
         PostUnbind, PrePersist, Persist, ScanClient, ScanServer, DeletePair, DeleteChain,
         PersistCleanup, CreatePersist
  <1>5. ASSUME NEW c \in Callers, Rollback(c)
        PROVE  UNCHANGED <<stray, landed>>
    BY <1>5 DEF Rollback, Query, Send, appliance, RbInspect, RbBind, RbReread, RbUnbind, RbVerify,
         RbPersist, UndoPair, UndoChain, UndoCerts, UndoKeys, UndoPersist
  <1>6. ASSUME NEW c \in Callers,
               Invoke(c) \/ Retry(c) \/ Lock(c) \/ Auth(c) \/ Unlock(c)
        PROVE  UNCHANGED <<stray, landed>>
    BY <1>6 DEF Invoke, Retry, Lock, Auth, Unlock, appliance
  <1>7. ASSUME NEW c \in Callers, Logoff(c)
        PROVE  UNCHANGED <<stray, landed>>
    BY <1>3, <1>7 DEF Logoff
  <1>8. ASSUME NEW k \in Clients, Crash(k) \/ CloseSession(k)
        PROVE  FALSE
    BY <1>8, Disturbed DEF Crash, CloseSession, Premises
  <1>9. Environment => stray' = {} /\ landed' = {}
    BY <1>2, <1>8 DEF Environment, OperatorEdit, Reboot, Land, Deliver
  <1> QED
    BY <1>1, <1>2, <1>4, <1>5, <1>6, <1>7, <1>9 DEF Next, Step, Finished, vars

LEMMA InitTidy == Premises /\ TidyPremises /\ Init => TidyInv
  <1> SUFFICES ASSUME Premises, TidyPremises, Init
               PROVE  TidyInv
    OBVIOUS
  <1>1. running \in InitialConfigs /\ startup = running
    BY DEF Init
  <1>2. Rooted(running) /\ Clean(running, startup)
    BY <1>1 DEF Rooted, Clean, TidyPremises
  <1>3. sessions = {} /\ \A c \in Callers : doubt[c] = {} /\ pc[c] = "idle"
    BY DEF Init, OnSession, Premises
  <1> QED
    BY <1>2, <1>3 DEF TidyInv, Active

(* When everybody has finished and nothing has interfered, the appliance   *)
(* holds exactly the files its templates refer to, also after a reboot:    *)
(* the cleanup removes the whole of the replaced binding, and a call that  *)
(* ends early (a revision that is not the expected one, nothing to choose, *)
(* a name that is taken) takes back what it has uploaded.                  *)
THEOREM NothingIsLeftBehind == Premises /\ TidyPremises /\ Spec => []NothingLeftBehind
  <1> DEFINE I == Inv /\ CallShaped /\ (landed = {} => StoreInv)
             J == NoneLate /\ TidyInv
  <1>1. Premises /\ TidyPremises /\ I /\ J /\ [Next]_vars => J'
    <2> SUFFICES ASSUME Premises, TidyPremises, I, J, [Next]_vars, Undisturbed'
                 PROVE  NoneLate' /\ TidyInv'
      BY DEF NoneLate, TidyInv
    <2>1. Undisturbed /\ NoneLate'
      BY NextNoneLate
    <2>2. stray = {} /\ StoreInv
      BY <2>1 DEF NoneLate
    <2> QED
      BY <2>1, <2>2, NextTidy
  <1>2. Premises /\ TidyPremises => (Premises /\ TidyPremises)'
    BY DEF Premises
  <1>3. Premises /\ Spec => []I
    BY StoreInvHolds
  <1>4. Premises /\ TidyPremises /\ Init => J
    BY InitTidy DEF Init, NoneLate
  <1>5. I /\ J => NothingLeftBehind
    <2> SUFFICES ASSUME I, J, Undisturbed, \A c \in Callers : pc[c] = "returned"
                 PROVE  running.files = Store!Refs(running) /\ startup = running
      BY DEF NothingLeftBehind
    <2>1. sessions = {}
      BY DEF NoneLate, Inv, TypeOK, StoreInv, Active
    <2> QED
      BY <2>1 DEF TidyInv, Clean, Refs
  <1> HIDE DEF I, J
  <1> QED
    BY <1>1, <1>2, <1>3, <1>4, <1>5, PTL DEF Spec
====

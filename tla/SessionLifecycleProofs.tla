---- MODULE SessionLifecycleProofs ----
(***************************************************************************)
(* The safety properties of SessionLifecycle for any number of goroutines, *)
(* partitions and requests per managed write.                              *)
(***************************************************************************)
EXTENDS SessionLifecycle, TLAPS

(* Who holds lifecycle, and who waits for it, as seen from the goroutines. *)
LockHeld ==
    \A u \in Users :
        /\ pc[u] \in {"granted", "sent"} <=> u \in readers
        /\ pc[u] = "blocked" <=> u \in blocked
        /\ pc[u] \in {"drain", "logoff"} <=> writer = u

(* A logoff excludes readers, and both it and a request need a session     *)
(* that is not closed.                                                     *)
Guarded ==
    \A u \in Users :
        /\ pc[u] = "logoff" => readers = {} /\ ~ closed
        /\ pc[u] = "sent" => ~ closed

(* Nobody has the session while it is being opened, and what each phase of *)
(* StartSession may rely on.                                               *)
Started ==
    /\ opening # "open" => \A u \in Users : pc[u] = "idle"
    /\ opening = "auth" => active = Shared /\ ~ closed
    /\ opening \in {"resolve", "select", "abandon"} => signature = "valid" /\ ~ closed
    /\ opening = "resolve" => ByID
    /\ opening \in {"select", "open"} /\ ByID => configured.id \in PartitionIDs
    /\ opening = "open" => active = Target
    /\ opening = "open" /\ ~ closed => signature = "valid"
    /\ FailedStartLogsOff

Inv == TypeOK /\ LockHeld /\ Guarded /\ Started

LEMMA TargetTyped ==
    ASSUME configured \in Configuration,
           ByID => configured.id \in PartitionIDs
    PROVE  Target \in Partitions \cup {Shared}
  BY InventoryAssumption DEF Target, Configuration, ByID

LEMMA InitInv == Init => Inv
  <1> SUFFICES ASSUME Init PROVE Inv
    OBVIOUS
  <1>1. TypeOK
    <2>1. configured \in Configuration
      BY ConfigurationAssumption DEF Init
    <2>2. left \in [Users -> 0 .. Length]
      BY LengthAssumption DEF Init
    <2>3. /\ pc \in [Users -> Labels]
          /\ readers \subseteq Users /\ blocked \subseteq Users
          /\ writer \in Users \cup {Nobody} /\ managed \in Users \cup {Nobody}
      BY DEF Init, Labels
    <2>4. astray \in BOOLEAN /\ closed \in BOOLEAN
      BY DEF Init
    <2> QED
      BY <2>1, <2>2, <2>3, <2>4 DEF Init, TypeOK, Phases
  <1>2. LockHeld /\ Guarded
    BY NobodyAssumption DEF Init, LockHeld, Guarded
  <1>3. Started
    BY DEF Init, Started, FailedStartLogsOff
  <1> QED
    BY <1>1, <1>2, <1>3 DEF Inv

----------------------------------------------------------------------------
(* The steps of StartSession.                                              *)

LEMMA OpeningKeeps ==
    ASSUME Inv, NEW phase \in Phases \ {"open"}, Opening(phase),
           closed' \in BOOLEAN
    PROVE  LockHeld' /\ Guarded' /\ (\A u \in Users : pc'[u] = "idle")
  BY DEF Inv, Opening, LockHeld, Guarded, Started, lifecycle

LEMMA AuthenticateInv == Inv /\ Authenticate => Inv'
  <1> SUFFICES ASSUME Inv, Authenticate PROVE Inv'
    OBVIOUS
  <1>1. opening = "auth" /\ UNCHANGED <<configured, readers, writer, blocked, managed, pc, left, result>>
    BY DEF Authenticate, Opening, lifecycle
  <1>2. UNCHANGED <<active, closed>>
    BY DEF Authenticate
  <1>3. LockHeld' /\ Guarded' /\ (\A u \in Users : pc'[u] = "idle")
    BY <1>1, <1>2 DEF Inv, LockHeld, Guarded, Started
  <1>4. CASE /\ signature' = "valid"
             /\ opening' = AfterAuthentication
             /\ UNCHANGED astray
    <2> USE <1>1, <1>2, <1>4
    <2>1. ByID' = ByID
      BY DEF ByID
    <2>2. CASE configured.by = "none"
      <3>1. ~ ByID /\ opening' = "open" /\ Target' = Shared
        BY <2>2 DEF ByID, AfterAuthentication, Target
      <3> QED
        BY <1>3, <2>1, <3>1 DEF Inv, TypeOK, Started, FailedStartLogsOff, Phases
    <2>3. CASE configured.by # "none"
      <3>1. opening' \in {"select", "abandon", "resolve"}
        BY <2>3 DEF AfterAuthentication
      <3>2. /\ opening' = "resolve" => ByID
            /\ opening' = "select" => ~ ByID
        BY <2>3 DEF AfterAuthentication, ByID, Inv, TypeOK, Configuration
      <3> QED
        BY <1>3, <2>1, <3>1, <3>2 DEF Inv, TypeOK, Started, FailedStartLogsOff, Phases
    <2> QED
      BY <2>2, <2>3
  <1>5. CASE signature' \in {"none", "valid"} /\ opening' = "failed" /\ astray' = (signature' = "valid")
    BY <1>1, <1>2, <1>3, <1>5 DEF Inv, TypeOK, Started, FailedStartLogsOff, Phases
  <1> QED
    BY <1>4, <1>5 DEF Authenticate

LEMMA ResolveInv == Inv /\ Resolve => Inv'
  BY DEF Resolve, Opening, server, lifecycle, Inv, TypeOK, LockHeld, Guarded, Started,
         FailedStartLogsOff, Phases, ByID

LEMMA SelectPartitionInv == Inv /\ SelectPartition => Inv'
  <1> SUFFICES ASSUME Inv, SelectPartition PROVE Inv'
    OBVIOUS
  <1>1. /\ opening = "select"
        /\ UNCHANGED <<configured, readers, writer, blocked, managed, pc, left, result>>
        /\ UNCHANGED <<signature, astray, closed>>
    BY DEF SelectPartition, Opening, lifecycle
  <1>2. Target \in Partitions \cup {Shared}
    BY <1>1, TargetTyped DEF Inv, TypeOK, Started
  <1>3. Target' = Target /\ ByID' = ByID
    BY <1>1 DEF Target, ByID
  <1>4. \/ active' = Target /\ opening' = "open"
        \/ active' \in {active, Target} /\ opening' = "abandon"
    BY DEF SelectPartition
  <1>5. TypeOK'
    BY <1>1, <1>2, <1>4 DEF Inv, TypeOK, Phases
  <1>6. LockHeld' /\ Guarded'
    BY <1>1 DEF Inv, LockHeld, Guarded
  <1>7. Started'
    BY <1>1, <1>3, <1>4 DEF Inv, Started, FailedStartLogsOff
  <1> QED
    BY <1>5, <1>6, <1>7 DEF Inv

LEMMA AbandonInv == Inv /\ Abandon => Inv'
  BY DEF Abandon, LoggedOff, Opening, lifecycle, Inv, TypeOK, LockHeld, Guarded, Started,
         FailedStartLogsOff, Phases

----------------------------------------------------------------------------
(* The steps of the goroutines.  They leave the appliance alone until the  *)
(* logoff, and a session in use has been opened.                           *)

LEMMA StartedKept ==
    ASSUME Inv, opening = "open", UNCHANGED <<configured, opening, server, closed>>
    PROVE  Started'
  BY DEF Inv, Started, FailedStartLogsOff, server, Target, ByID

LEMMA InUse ==
    ASSUME Inv, NEW u \in Users, pc[u] # "idle"
    PROVE  opening = "open"
  BY DEF Inv, Started

(* A step that only moves the caller, between labels without a lock.       *)
LEMMA MoveInv ==
    ASSUME Inv, NEW u \in Users, opening = "open",
           pc[u] \in {"idle", "managed", "rlock", "lock"},
           NEW label \in {"managed", "rlock", "lock"}, Goto(u, label),
           UNCHANGED <<configured, opening, server, closed, lifecycle, result>>,
           managed' \in Users \cup {Nobody}, left' \in [Users -> 0 .. Length]
    PROVE  Inv'
  <1>1. TypeOK'
    BY DEF Inv, TypeOK, Goto, server, lifecycle, Labels
  <1>2. LockHeld' /\ Guarded'
    BY DEF Inv, TypeOK, LockHeld, Guarded, Goto, lifecycle
  <1> QED
    BY <1>1, <1>2, StartedKept DEF Inv

LEMMA BeginInv ==
    ASSUME Inv, NEW u \in Users, Begin(u)
    PROVE  Inv'
  BY MoveInv DEF Begin, Request, ManagedWrite, Close, At, Inv, TypeOK

LEMMA LockManagedInv ==
    ASSUME Inv, NEW u \in Users, LockManaged(u)
    PROVE  Inv'
  <1>1. /\ pc[u] = "managed" /\ Goto(u, "rlock") /\ managed' = u
        /\ left' = [left EXCEPT ![u] = Length - 1]
        /\ UNCHANGED <<configured, opening, server, closed, lifecycle, result>>
    BY DEF LockManaged, At
  <1>2. left' \in [Users -> 0 .. Length]
    BY <1>1, LengthAssumption DEF Inv, TypeOK
  <1> QED
    BY <1>1, <1>2, InUse, MoveInv

LEMMA RLockInv ==
    ASSUME Inv, NEW u \in Users, RLock(u)
    PROVE  Inv'
  <1>1. pc[u] = "rlock" /\ UNCHANGED <<configured, opening, server, closed, writer, managed, left, result>>
    BY DEF RLock, At
  <1>2. Started'
    BY <1>1, InUse, StartedKept
  <1>3. CASE writer = Nobody /\ readers' = readers \cup {u} /\ Goto(u, "granted") /\ UNCHANGED blocked
    <2>1. TypeOK' /\ LockHeld'
      BY <1>1, <1>3 DEF Inv, TypeOK, LockHeld, Goto, server, Labels
    <2>2. Guarded'
      BY <1>1, <1>3, NobodyAssumption DEF Inv, TypeOK, LockHeld, Guarded, Goto
    <2> QED
      BY <1>2, <2>1, <2>2 DEF Inv
  <1>4. CASE blocked' = blocked \cup {u} /\ Goto(u, "blocked") /\ UNCHANGED readers
    BY <1>1, <1>2, <1>4 DEF Inv, TypeOK, LockHeld, Guarded, Goto, server, Labels
  <1> QED
    BY <1>3, <1>4 DEF RLock

LEMMA SendInv ==
    ASSUME Inv, NEW u \in Users, Send(u)
    PROVE  Inv'
  <1>1. /\ pc[u] = "granted" /\ ~ closed /\ Goto(u, "sent")
        /\ UNCHANGED <<configured, opening, server, closed, lifecycle, managed, left, result>>
    BY DEF Send, At
  <1>2. Started'
    BY <1>1, InUse, StartedKept
  <1> QED
    BY <1>1, <1>2 DEF Inv, TypeOK, LockHeld, Guarded, Goto, server, lifecycle, Labels

LEMMA ReleaseInv ==
    ASSUME Inv, NEW u \in Users, pc[u] \in {"granted", "sent"}, UNCHANGED <<configured, opening>>,
           Release(u)
    PROVE  Inv'
  <1>1. readers' = readers \ {u} /\ UNCHANGED <<server, closed, writer, blocked, result>>
    BY DEF Release
  <1>2. PICK label \in {"rlock", "idle"} : Goto(u, label)
    BY DEF Release
  <1>3. left' \in [Users -> 0 .. Length] /\ managed' \in Users \cup {Nobody}
    BY LengthAssumption DEF Release, Inv, TypeOK
  <1>4. TypeOK'
    BY <1>1, <1>2, <1>3 DEF Inv, TypeOK, Goto, server, Labels
  <1>5. LockHeld' /\ Guarded'
    BY <1>1, <1>2 DEF Inv, TypeOK, LockHeld, Guarded, Goto
  <1>6. Started'
    BY <1>1, InUse, StartedKept
  <1> QED
    BY <1>4, <1>5, <1>6 DEF Inv

LEMMA AnnounceInv ==
    ASSUME Inv, NEW u \in Users, Announce(u)
    PROVE  Inv'
  <1>1. /\ pc[u] = "lock" /\ writer = Nobody /\ writer' = u /\ Goto(u, "drain")
        /\ UNCHANGED <<configured, opening, server, closed, readers, blocked, managed, left, result>>
    BY DEF Announce, At
  <1>2. Started'
    BY <1>1, InUse, StartedKept
  <1> QED
    BY <1>1, <1>2, NobodyAssumption DEF Inv, TypeOK, LockHeld, Guarded, Goto, server, Labels

LEMMA LogoffInv ==
    ASSUME Inv, NEW u \in Users, Logoff(u)
    PROVE  Inv'
  <1>1. /\ pc[u] = "drain" /\ readers = {} /\ ~ closed /\ Goto(u, "logoff")
        /\ UNCHANGED <<configured, opening, server, closed, lifecycle, managed, left, result>>
    BY DEF Logoff, At
  <1>2. Started'
    BY <1>1, InUse, StartedKept
  <1> QED
    BY <1>1, <1>2 DEF Inv, TypeOK, LockHeld, Guarded, Goto, server, lifecycle, Labels

(* The goroutines that waited in RLock hold the lock from now on; no       *)
(* logoff is left that they could disturb.                                 *)
LEMMA UnlockKeeps ==
    ASSUME Inv, NEW u \in Users, pc[u] \in {"drain", "logoff"}, readers = {},
           NEW res \in {"none", "nil", "error"}, Unlock(u, res)
    PROVE  /\ LockHeld'
           /\ Guarded'
           /\ readers' \subseteq Users /\ blocked' \subseteq Users
           /\ writer' \in Users \cup {Nobody} /\ managed' \in Users \cup {Nobody}
           /\ pc' \in [Users -> Labels]
           /\ left' \in [Users -> 0 .. Length]
           /\ result' \in {"none", "nil", "error"}
  <1>1. /\ readers' = blocked /\ blocked' = {} /\ writer' = Nobody /\ result' = res
        /\ pc' = [v \in Users |-> IF v = u THEN "idle" ELSE IF v \in blocked THEN "granted" ELSE pc[v]]
        /\ UNCHANGED <<managed, left>>
    BY DEF Unlock
  <1>2. u \notin blocked /\ writer = u
    BY DEF Inv, LockHeld
  <1>3. \A v \in Users : pc[v] # "sent" /\ (pc[v] \in {"drain", "logoff"} => v = u)
    BY <1>2 DEF Inv, LockHeld
  <1>4. LockHeld'
    BY <1>1, <1>2, <1>3, NobodyAssumption DEF Inv, TypeOK, LockHeld
  <1>5. Guarded'
    BY <1>1, <1>3 DEF Guarded
  <1> QED
    BY <1>1, <1>4, <1>5 DEF Inv, TypeOK, Labels

LEMMA CloseAgainInv ==
    ASSUME Inv, NEW u \in Users, CloseAgain(u)
    PROVE  Inv'
  <1>1. /\ pc[u] = "drain" /\ readers = {} /\ Unlock(u, "nil")
        /\ UNCHANGED <<configured, opening, server, closed>>
    BY DEF CloseAgain, At
  <1>2. Started'
    BY <1>1, InUse, StartedKept
  <1> QED
    BY <1>1, <1>2, UnlockKeeps DEF Inv, TypeOK, server

LEMMA LogoffAnsweredInv ==
    ASSUME Inv, NEW u \in Users, LogoffAnswered(u)
    PROVE  Inv'
  <1>1. PICK error \in BOOLEAN :
            LoggedOff(error) /\ Unlock(u, IF error THEN "error" ELSE "nil")
    BY DEF LogoffAnswered
  <1>2. pc[u] = "logoff" /\ UNCHANGED <<configured, opening>> /\ opening = "open"
    BY InUse DEF LogoffAnswered, At
  <1>3. readers = {}
    BY <1>2 DEF Inv, Guarded
  <1>4. closed' = TRUE /\ UNCHANGED active /\ astray' \in BOOLEAN /\ signature' \in {"none", "valid", "ended"}
    BY <1>1 DEF LoggedOff, Inv, TypeOK
  <1>5. Started'
    BY <1>2, <1>4 DEF Inv, Started, FailedStartLogsOff, Target, ByID
  <1> QED
    BY <1>1, <1>2, <1>3, <1>4, <1>5, UnlockKeeps DEF Inv, TypeOK

----------------------------------------------------------------------------
LEMMA NextInv == Inv /\ [Next]_vars => Inv'
  <1> SUFFICES ASSUME Inv, [Next]_vars PROVE Inv'
    OBVIOUS
  <1>1. CASE Open
    BY <1>1, AuthenticateInv, ResolveInv, SelectPartitionInv, AbandonInv DEF Open
  <1>2. ASSUME NEW u \in Users, Begin(u) \/ LockManaged(u) \/ Announce(u) PROVE Inv'
    BY <1>2, BeginInv, LockManagedInv, AnnounceInv
  <1>3. ASSUME NEW u \in Users, Step(u) PROVE Inv'
    BY <1>3, RLockInv, SendInv, ReleaseInv, CloseAgainInv, LogoffInv, LogoffAnsweredInv
    DEF Step, Refuse, Answer, At
  <1>4. CASE UNCHANGED vars
    BY <1>4 DEF vars, server, lifecycle, Inv, TypeOK, LockHeld, Guarded, Started,
                FailedStartLogsOff, Target, ByID
  <1> QED
    BY <1>1, <1>2, <1>3, <1>4 DEF Next

THEOREM InvHolds == Spec => []Inv
  BY InitInv, NextInv, PTL DEF Spec

(* Type correctness of the session for any set of goroutines.              *)
THEOREM TypeCorrect == Spec => []TypeOK
  BY InvHolds, PTL DEF Inv

(* The RWMutex does what client.go:190 says of it: a request that waits    *)
(* for its answer has a valid signature and no logoff beside it.           *)
THEOREM LogoffSafe == Spec => []LogoffNeverRaces
  <1>1. Inv => LogoffNeverRaces
    <2> SUFFICES ASSUME Inv, NEW u \in Users, pc[u] = "sent"
                 PROVE  signature = "valid" /\ \A v \in Users : pc[v] # "logoff"
      BY DEF LogoffNeverRaces
    <2>1. u \in readers /\ ~ closed
      BY DEF Inv, LockHeld, Guarded
    <2>2. signature = "valid"
      BY <2>1, InUse DEF Inv, Started
    <2> QED
      BY <2>1, <2>2 DEF Inv, Guarded
  <1> QED
    BY <1>1, InvHolds, PTL

(* Close logs the signature off once, whoever calls it how often.          *)
THEOREM LoggedOffOnce == Spec => []LogoffOnce
  <1>1. Inv => LogoffOnce
    BY DEF Inv, LockHeld, Guarded, LogoffOnce
  <1> QED
    BY <1>1, InvHolds, PTL

(* No request of a session leaves its partition.                           *)
THEOREM PartitionKept == Spec => []RequestsInPartition
  <1>1. Inv => RequestsInPartition
    <2> SUFFICES ASSUME Inv PROVE RequestsInPartition
      OBVIOUS
    <2>1. ASSUME NEW u \in Users, pc[u] = "sent"
          PROVE  active = Target /\ (ByID => configured.id \in PartitionIDs)
      BY <2>1, InUse DEF Inv, Started
    <2>2. configured.by = "digits" => configured.id \in Nat
      BY InventoryAssumption DEF Inv, TypeOK, Configuration
    <2> QED
      BY <2>1, <2>2, InventoryAssumption DEF RequestsInPartition, Target, ByID
  <1> QED
    BY <1>1, InvHolds, PTL

(* A failed StartSession does not leak a signature it could have ended.    *)
THEOREM FailedStartClean == Spec => []FailedStartLogsOff
  BY InvHolds, PTL DEF Inv, Started
====

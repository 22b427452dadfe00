---- MODULE SessionLifecycle ----
(***************************************************************************)
(* The life of one a10.Session: StartSession authenticates and selects the *)
(* partition, goroutines then share the session for single requests and    *)
(* for managed writes of several requests, and Close logs it off.          *)
(*                                                                         *)
(* lifecycle is a sync.RWMutex: doJSON and doMultipart hold it for         *)
(* reading while their request is under way, Close for writing.  A Lock    *)
(* that waits for readers keeps new readers out, and an Unlock lets all    *)
(* the readers in that have waited.  Every request may fail; the appliance *)
(* may have carried it out or not.                                         *)
(***************************************************************************)
EXTENDS Integers

CONSTANTS
    Users,              \* goroutines that share the session
    Nobody,             \* the holder of a free lock
    Partitions,         \* partition names
    Shared,             \* the shared partition, where a session starts
    Inventory,          \* the names by ID, as the appliance lists them
    MaxID,              \* the largest PartitionID, 2^32 - 1 in the code
    Spelling,           \* the names that are spelled like numbers, by number
    Configurations,     \* partitions a Client may be configured with
    Length              \* how many requests a managed write makes at most

PartitionIDs == DOMAIN Inventory
Numerals == DOMAIN Spelling

(* Config.Partition and Config.PartitionID: nothing, a name, an ID the     *)
(* appliance may or may not have, or a name made of digits.                *)
Configuration ==
    [by : {"none"}] \cup [by : {"name"}, name : Partitions]
        \cup [by : {"id"}, id : 1 .. MaxID] \cup [by : {"digits"}, id : Numerals]

ASSUME NobodyAssumption == Nobody \notin Users
ASSUME SharedAssumption == Shared \notin Partitions
ASSUME InventoryAssumption ==
    /\ MaxID \in Nat
    /\ PartitionIDs \subseteq 1 .. MaxID
    /\ Inventory \in [PartitionIDs -> Partitions]
    /\ Numerals \subseteq Nat
    /\ Spelling \in [Numerals -> Partitions]
ASSUME ConfigurationAssumption == Configurations \subseteq Configuration
ASSUME LengthAssumption == Length \in Nat \ {0}

VARIABLES
    configured, \* Client.partition, Client.partitionID
    opening,    \* how far StartSession has come
    signature,  \* what the appliance thinks of the signature
    active,     \* the partition the signature has selected
    astray,     \* an answer that granted or should have ended the signature got lost
    closed,     \* Session.closed
    readers,    \* goroutines that hold lifecycle for reading
    writer,     \* the one that waits for the readers, or holds it for writing
    blocked,    \* goroutines that wait in RLock
    managed,    \* the holder of managedMu
    pc,         \* per goroutine, what it is doing
    left,       \* per goroutine, the requests it may still make in this call
    result      \* what the last Close returned

server == <<signature, active, astray>>
lifecycle == <<readers, writer, blocked>>
vars == <<configured, opening, server, closed, lifecycle, managed, pc, left, result>>

Phases == {"auth", "resolve", "select", "abandon", "failed", "open"}

Labels == {"idle", "managed", "rlock", "blocked", "granted", "sent", "lock", "drain", "logoff"}

Init ==
    /\ configured \in Configurations
    /\ opening = "auth"
    /\ signature = "none"
    /\ active = Shared
    /\ astray = FALSE
    /\ closed = FALSE
    /\ readers = {} /\ writer = Nobody /\ blocked = {}
    /\ managed = Nobody
    /\ pc = [u \in Users |-> "idle"]
    /\ left = [u \in Users |-> 0]
    /\ result = "none"

----------------------------------------------------------------------------
(* StartSession.  Nobody else has the session yet, so its locks are free.  *)

Opening(phase) ==
    /\ opening = phase
    /\ UNCHANGED <<configured, lifecycle, managed, pc, left, result>>

(* Mutant: a name of digits is a name. *)
ByIDTyped == configured.by = "id"

(* The selector is an ID: digits are one when they fit into 32 bits. *)
ByID ==
    \/ configured.by = "id"
    \/ configured.by = "digits" /\ configured.id <= MaxID

(* The partition the configuration stands for, once it is resolved. *)
Target ==
    IF configured.by = "none" THEN Shared
    ELSE IF configured.by = "name" THEN configured.name
    ELSE IF ByID THEN Inventory[configured.id]
    ELSE Spelling[configured.id]

(* resolvePartition up to its request.  ParsePartitionID refuses zero. *)
AfterAuthentication ==
    IF configured.by = "none" THEN "open"
    ELSE IF configured.by = "name" \/ ~ ByID THEN "select"
    ELSE IF configured.id = 0 THEN "abandon"
    ELSE "resolve"

Authenticate ==
    /\ Opening("auth")
    /\ \/ /\ signature' = "valid"
          /\ opening' = AfterAuthentication
          /\ UNCHANGED astray
       \/ /\ signature' \in {"none", "valid"}
          /\ opening' = "failed"
          /\ astray' = (signature' = "valid")
    /\ UNCHANGED <<active, closed>>

(* The inventory is read and searched for the ID. *)
Resolve ==
    /\ Opening("resolve")
    /\ \/ configured.id \in PartitionIDs /\ opening' = "select"
       \/ opening' = "abandon"
    /\ UNCHANGED <<server, closed>>

(* Mutant: a failed selection returns without Close. *)
SelectUnclosed ==
    /\ Opening("select")
    /\ \/ Target \in {Inventory[i] : i \in PartitionIDs} /\ active' = Target /\ opening' = "open"
       \/ active' \in {active, Target} /\ opening' = "failed"
    /\ UNCHANGED <<signature, astray, closed>>

(* Mutant: the session is handed out whatever the answer. *)
SelectUnchecked ==
    /\ Opening("select")
    /\ active' \in {active, Target} /\ opening' = "open"
    /\ UNCHANGED <<signature, astray, closed>>

(* The appliance knows the partitions of its inventory. *)
SelectPartition ==
    /\ Opening("select")
    /\ \/ Target \in {Inventory[i] : i \in PartitionIDs} /\ active' = Target /\ opening' = "open"
       \/ active' \in {active, Target} /\ opening' = "abandon"
    /\ UNCHANGED <<signature, astray, closed>>

(* The answer to a logoff. *)
LoggedOff(error) ==
    /\ IF error THEN signature' \in {signature, "ended"} ELSE signature' = "ended"
    /\ astray' = (astray \/ signature' = "valid")
    /\ closed' = TRUE
    /\ UNCHANGED active

Abandon ==
    /\ Opening("abandon")
    /\ \E error \in BOOLEAN : LoggedOff(error)
    /\ opening' = "failed"

----------------------------------------------------------------------------
(* Requests: Session.doJSON and doMultipart.                               *)

At(u, label) ==
    /\ pc[u] = label
    /\ UNCHANGED <<configured, opening>>

Goto(u, label) == pc' = [pc EXCEPT ![u] = label]

(* A single request takes no managedMu. *)
Request(u) ==
    /\ At(u, "idle") /\ opening = "open"
    /\ Goto(u, "rlock")
    /\ UNCHANGED <<server, closed, lifecycle, managed, left, result>>

ManagedWrite(u) ==
    /\ At(u, "idle") /\ opening = "open"
    /\ Goto(u, "managed")
    /\ UNCHANGED <<server, closed, lifecycle, managed, left, result>>

LockManaged(u) ==
    /\ At(u, "managed")
    /\ managed = Nobody
    /\ managed' = u
    /\ left' = [left EXCEPT ![u] = Length - 1]
    /\ Goto(u, "rlock")
    /\ UNCHANGED <<server, closed, lifecycle, result>>

(* Mutant: new readers come in beside those the writer waits for. *)
RLockBarging(u) ==
    /\ At(u, "rlock")
    /\ IF writer = Nobody \/ pc[writer] = "drain"
         THEN readers' = readers \cup {u} /\ Goto(u, "granted") /\ UNCHANGED blocked
         ELSE blocked' = blocked \cup {u} /\ Goto(u, "blocked") /\ UNCHANGED readers
    /\ UNCHANGED <<server, closed, writer, managed, left, result>>

RLock(u) ==
    /\ At(u, "rlock")
    /\ IF writer = Nobody
         THEN readers' = readers \cup {u} /\ Goto(u, "granted") /\ UNCHANGED blocked
         ELSE blocked' = blocked \cup {u} /\ Goto(u, "blocked") /\ UNCHANGED readers
    /\ UNCHANGED <<server, closed, writer, managed, left, result>>

(* Mutant: one request too many. *)
ReleaseOneMore(u) ==
    /\ readers' = readers \ {u}
    /\ \/ left[u] >= 0 /\ Goto(u, "rlock") /\ left' = [left EXCEPT ![u] = @ - 1] /\ UNCHANGED managed
       \/ /\ Goto(u, "idle")
          /\ left' = [left EXCEPT ![u] = 0]
          /\ managed' = IF managed = u THEN Nobody ELSE managed
    /\ UNCHANGED <<server, closed, writer, blocked, result>>

(* RUnlock; a managed write may make another request, also after an error, *)
(* and frees managedMu when it is done.                                    *)
Release(u) ==
    /\ readers' = readers \ {u}
    /\ \/ left[u] > 0 /\ Goto(u, "rlock") /\ left' = [left EXCEPT ![u] = @ - 1] /\ UNCHANGED managed
       \/ /\ Goto(u, "idle")
          /\ left' = [left EXCEPT ![u] = 0]
          /\ managed' = IF managed = u THEN Nobody ELSE managed
    /\ UNCHANGED <<server, closed, writer, blocked, result>>

(* Mutant: closed is not looked at once the lock is there. *)
SendUnchecked(u) ==
    /\ At(u, "granted")
    /\ Goto(u, "sent")
    /\ UNCHANGED <<server, closed, lifecycle, managed, left, result>>

Send(u) ==
    /\ At(u, "granted")
    /\ ~ closed
    /\ Goto(u, "sent")
    /\ UNCHANGED <<server, closed, lifecycle, managed, left, result>>

(* "A10 session is closed" *)
Refuse(u) == At(u, "granted") /\ closed /\ Release(u)

Answer(u) == At(u, "sent") /\ Release(u)

----------------------------------------------------------------------------
(* Close.                                                                  *)

Close(u) ==
    /\ At(u, "idle") /\ opening = "open"
    /\ Goto(u, "lock")
    /\ UNCHANGED <<server, closed, lifecycle, managed, left, result>>

(* Lock makes itself known and then waits for the readers. *)
Announce(u) ==
    /\ At(u, "lock")
    /\ writer = Nobody
    /\ writer' = u
    /\ Goto(u, "drain")
    /\ UNCHANGED <<server, closed, readers, blocked, managed, left, result>>

(* Unlock lets everybody in who waited in RLock. *)
Unlock(u, res) ==
    /\ readers' = readers \cup blocked
    /\ blocked' = {}
    /\ writer' = Nobody
    /\ pc' = [v \in Users |-> IF v = u THEN "idle" ELSE IF v \in blocked THEN "granted" ELSE pc[v]]
    /\ result' = res
    /\ UNCHANGED <<managed, left>>

(* The second Close. *)
CloseAgain(u) ==
    /\ At(u, "drain") /\ readers = {}
    /\ closed
    /\ Unlock(u, "nil")
    /\ UNCHANGED <<server, closed>>

(* Mutant: closed is not looked at. *)
LogoffAgain(u) ==
    /\ At(u, "drain") /\ readers = {}
    /\ Goto(u, "logoff")
    /\ UNCHANGED <<server, closed, lifecycle, managed, left, result>>

Logoff(u) ==
    /\ At(u, "drain") /\ readers = {}
    /\ ~ closed
    /\ Goto(u, "logoff")
    /\ UNCHANGED <<server, closed, lifecycle, managed, left, result>>

LogoffAnswered(u) ==
    /\ At(u, "logoff")
    /\ \E error \in BOOLEAN :
          /\ LoggedOff(error)
          /\ Unlock(u, IF error THEN "error" ELSE "nil")

----------------------------------------------------------------------------
Open == Authenticate \/ Resolve \/ SelectPartition \/ Abandon

Begin(u) == Request(u) \/ ManagedWrite(u) \/ Close(u)

Step(u) ==
    \/ RLock(u) \/ Send(u) \/ Refuse(u) \/ Answer(u)
    \/ CloseAgain(u) \/ Logoff(u) \/ LogoffAnswered(u)

Next ==
    \/ Open
    \/ \E u \in Users : Begin(u) \/ LockManaged(u) \/ Announce(u) \/ Step(u)
    \/ opening = "failed" /\ UNCHANGED vars

Spec == Init /\ [][Next]_vars

(* Requests are answered or time out, goroutines run, and the mutexes do   *)
(* not starve a waiter.  Nothing obliges anybody to use the session.       *)
Fairness ==
    /\ WF_vars(Open)
    /\ \A u \in Users : WF_vars(Step(u)) /\ SF_vars(LockManaged(u)) /\ SF_vars(Announce(u))

FairSpec == Spec /\ Fairness

----------------------------------------------------------------------------
(* Every variable has its type.                                            *)
TypeOK ==
    /\ configured \in Configuration
    /\ opening \in Phases
    /\ signature \in {"none", "valid", "ended"}
    /\ active \in Partitions \cup {Shared}
    /\ astray \in BOOLEAN
    /\ closed \in BOOLEAN
    /\ readers \subseteq Users /\ blocked \subseteq Users
    /\ writer \in Users \cup {Nobody}
    /\ managed \in Users \cup {Nobody}
    /\ pc \in [Users -> Labels]
    /\ left \in [Users -> 0 .. Length]
    /\ result \in {"none", "nil", "error"}

(* "lifecycle prevents logoff from racing an in-flight request"            *)
(* (client.go:190): while a request waits for its answer the signature is  *)
(* valid and no logoff has been sent.                                      *)
LogoffNeverRaces ==
    \A u \in Users : pc[u] = "sent" =>
        /\ signature = "valid"
        /\ \A v \in Users : pc[v] # "logoff"

(* Close is safe to call more than once, also from several goroutines: the *)
(* signature is logged off once, and never with the empty token.           *)
LogoffOnce ==
    \A u, v \in Users : pc[u] = "logoff" => ~ closed /\ (pc[v] = "logoff" => u = v)

(* Requests run in the partition the Client was configured with, never in  *)
(* the shared one a new signature starts in, and digits that are an ID     *)
(* never select the partition of that name (resolvePartition).             *)
RequestsInPartition ==
    \A u \in Users : pc[u] = "sent" =>
        /\ configured.by = "none" => active = Shared
        /\ configured.by = "name" => active = configured.name
        /\ configured.by \in {"id", "digits"} =>
              \/ configured.id \in PartitionIDs /\ active = Inventory[configured.id]
              \/ configured.id > MaxID /\ active = Spelling[configured.id]

(* A StartSession that fails leaves a valid signature behind only when the *)
(* appliance's answer to the authentication or to the logoff got lost.     *)
FailedStartLogsOff == opening = "failed" /\ signature = "valid" => astray

(* Every call returns, Close among them, however many requests the other   *)
(* goroutines make: a waiting Close keeps new requests out.                *)
CallsReturn == \A u \in Users : pc[u] # "idle" ~> pc[u] = "idle"

(* "Close invalidates the aXAPI signature.  It is safe to call more than   *)
(* once." (client.go:304): when Close says that all went well, the         *)
(* signature is not valid any more.  The code does not keep this, since a  *)
(* failed logoff also closes the Session.                                  *)
ClosedMeansLoggedOff == result = "nil" => signature # "valid"

(* "Numeric strings are interpreted as IDs" (client.go:38-39): requests of *)
(* a Client configured with digits run in the partition of that ID.        *)
(* The code does not keep this, since digits beyond 32 bits are a name to  *)
(* it.                                                                     *)
NumericMeansID ==
    \A u \in Users : pc[u] = "sent" /\ configured.by = "digits" =>
        configured.id \in PartitionIDs /\ active = Inventory[configured.id]
====

---- MODULE ManagedMaterial ----
(***************************************************************************)
(* Certificate bundles (certificate.go) and the files they become: what    *)
(* ParseCertificateBundle accepts, the names managedNamesForPrefix derives *)
(* from prefix and checksum, and CreateManagedCertificate, which uploads,  *)
(* reuses what is already there under a managed name and takes back what   *)
(* it uploaded, beside the import command, which only uploads.             *)
(*                                                                         *)
(* The calls run one after the other, as managedMu makes those of one      *)
(* Client; calls of several processes are the matter of CertSync, where a  *)
(* name stands for its content.  This module is why it may.  Deletes and   *)
(* failures in between leave any part of a bundle behind.                  *)
(*                                                                         *)
(* A file name is the sequence of the words of its prefix and its suffix,  *)
(* where a digest stands for the checksum of one bundle and no other: the  *)
(* code truncates SHA-256 to 128 bits.                                     *)
(***************************************************************************)
EXTENDS Integers, SequencesExt

CONSTANTS
    Word,           \* words of file names, without separators
    Odd,            \* a run of characters sanitizeName does not allow
    Chain,          \* the word "chain"
    Certificate,    \* certificates: records, see below
    NoLock,         \* the passphrase of a key that is not encrypted
    Inputs,         \* what callers read from PEM files
    NamePrefixes,       \* the name prefixes they give
    ImportNames,    \* the names they import under
    NameLimit,      \* the longest file name, in words
    MaxTime,        \* bounds the clock
    Limit           \* bounds calls, deletes and failures

(* A certificate's key, the key it is signed with, whether it is a CA, the *)
(* operational metadata ACOS shows of it and its validity.                 *)
ASSUME CertificateAssumption ==
    \A c \in Certificate :
        DOMAIN c = {"key", "signer", "ca", "meta", "from", "until"} /\ c.ca \in BOOLEAN

Budget == {"call", "delete", "failure"}

ASSUME WordAssumption == Chain \in Word /\ Odd \notin Word
ASSUME PrefixAssumption == NamePrefixes \subseteq Seq(Word \cup {Odd})
ASSUME ImportAssumption == ImportNames \subseteq Seq(Word) \ {<<>>}
ASSUME BoundAssumption == NameLimit \in Nat \ {0, 1} /\ MaxTime \in Nat /\ Limit \in [Budget -> Nat]

VARIABLES
    store,      \* the files on the appliance
    now,        \* the time
    pc,         \* the request the call is about to send
    call,       \* the call in progress
    known,      \* the files the call has listed
    uploaded,   \* the files it has uploaded
    done,       \* the calls that have returned without an error
    used        \* how much of Limit is spent

vars == <<store, now, pc, call, known, uploaded, done, used>>

----------------------------------------------------------------------------
(* ParseCertificateBundle: the first certificate is the leaf, the rest of  *)
(* its file comes before the chain files.                                  *)

ChainOf(in) == Tail(in.certs) \o FlattenSeq(in.chains)

BundleOf(in) == [certificate |-> Head(in.certs), key |-> in.key.of, chain |-> ChainOf(in)]

(* splitCertificates and ParseEncryptedKey: every file has certificates    *)
(* and nothing else, and an encrypted key has its passphrase.              *)
Parsed(in) ==
    /\ in.certs # <<>> /\ \A i \in DOMAIN in.chains : in.chains[i] # <<>>
    /\ Range(in.certs) \cup Range(ChainOf(in)) \subseteq Certificate
    /\ in.key.lock \in {NoLock, in.passphrase}

Signs(issuer, child) == issuer.ca /\ child.signer = issuer.key

(* Mutant: the leaf is not compared with its issuer. *)
ValidChainFromIssuer(leaf, chain) ==
    \A i \in DOMAIN chain : chain[i].ca /\ (i > 1 => Signs(chain[i], chain[i - 1]))

ValidChain(leaf, chain) ==
    \A i \in DOMAIN chain : Signs(chain[i], (<<leaf>> \o chain)[i])

Accepted(in) ==
    /\ Parsed(in)
    /\ LET b == BundleOf(in) IN b.certificate.key = b.key /\ ValidChain(b.certificate, b.chain)

(* validateForSync *)
Current(b, t) ==
    \A c \in {b.certificate} \cup Range(b.chain) : c.from <= t /\ t <= c.until

(* Mutant: the chain is not part of the checksum. *)
ChecksumOfPair(b) == <<b.certificate, b.key>>

Checksum(b) == <<b.certificate, b.key, b.chain>>

----------------------------------------------------------------------------
(* Names.                                                                  *)

(* sanitizeName leaves out what it does not allow. *)
Sanitized(prefix) ==
    LET kept[i \in 0 .. Len(prefix)] ==
            IF i = 0 THEN <<>>
            ELSE kept[i - 1] \o (IF prefix[i] \in Word THEN <<prefix[i]>> ELSE <<>>)
    IN kept[Len(prefix)]

Limited(prefix, suffix) ==
    LET longest == NameLimit - Len(suffix) IN
    (IF Len(prefix) > longest THEN SubSeq(prefix, 1, longest) ELSE prefix) \o suffix

(* A file of one of the two stores; chains are among the certificates. *)
File(kind, name, content) == [kind |-> kind, name |-> name, content |-> content]

Managed(b, prefix) ==
    [op |-> "create", bundle |-> b,
     name |-> Limited(Sanitized(prefix), <<Checksum(b)>>),
     chain |-> Limited(Sanitized(prefix), <<Chain, Checksum(b)>>)]

Imported(b, name) ==
    [op |-> "import", bundle |-> b, name |-> name, chain |-> Append(name, Chain)]

KeyFile(c) == File("key", c.name, <<c.bundle.key>>)
CertificateFile(c) == File("certificate", c.name, <<c.bundle.certificate>>)
ChainFile(c) == File("certificate", c.chain, c.bundle.chain)

Wanted(c) ==
    {KeyFile(c), CertificateFile(c)} \cup {f \in {ChainFile(c)} : f.content # <<>>}

SamePlace(f, g) == f.kind = g.kind /\ f.name = g.name

At(files, f) == {g \in files : SamePlace(f, g)}

(* Mutant: whatever has the name will do. *)
CollidesNever(f, g) == FALSE

(* verifyManagedCertificateCollision compares what ACOS shows of the first *)
(* certificate of a file.  Nothing is known of a key.                      *)
Collides(f, g) == f.kind = "certificate" /\ g.content[1].meta # f.content[1].meta

----------------------------------------------------------------------------
Idle == [op |-> "none"]

Init ==
    /\ store = {}
    /\ now = 0
    /\ pc = "idle"
    /\ call = Idle
    /\ known = {}
    /\ uploaded = {}
    /\ done = {}
    /\ used = [b \in Budget |-> 0]

Spend(b) ==
    /\ used[b] < Limit[b]
    /\ used' = [used EXCEPT ![b] = @ + 1]

(* Mutant: the next call inherits what this one uploaded. *)
ReturnKeeping == pc' = "idle" /\ call' = Idle /\ known' = {} /\ UNCHANGED uploaded

Return == pc' = "idle" /\ call' = Idle /\ known' = {} /\ uploaded' = {}

Create(in, prefix) ==
    /\ pc = "idle"
    /\ Accepted(in) /\ Current(BundleOf(in), now)
    /\ Sanitized(prefix) # <<>>
    /\ Spend("call")
    /\ call' = Managed(BundleOf(in), prefix)
    /\ pc' = "list"
    /\ UNCHANGED <<store, now, known, uploaded, done>>

(* import reads the bundle, opens a session and lists nothing. *)
Import(in, name) ==
    /\ pc = "idle"
    /\ Accepted(in)
    /\ Spend("call")
    /\ call' = Imported(BundleOf(in), name)
    /\ pc' = "key"
    /\ UNCHANGED <<store, now, known, uploaded, done>>

(* The three listings; nothing has been changed when one of them fails. *)
List ==
    /\ pc = "list"
    /\ \/ known' = store /\ pc' = "key" /\ UNCHANGED <<call, uploaded, used>>
       \/ Spend("failure") /\ Return
    /\ UNCHANGED <<store, now, done>>

(* An error: create takes back what it has uploaded, import leaves it. *)
Fail ==
    IF call.op = "create" /\ uploaded # {}
      THEN pc' = "undo" /\ UNCHANGED <<call, known, uploaded>>
      ELSE Return

(* Mutant: a file found is taken back on failure, too. *)
ReuseClaiming(f, next) ==
    /\ \E g \in At(known, f) : ~ Collides(f, g)
    /\ uploaded' = uploaded \cup {f}
    /\ pc' = next
    /\ UNCHANGED <<store, call, known, used>>

(* A file of the name is there. *)
Reuse(f, next) ==
    /\ \E g \in At(known, f) : ~ Collides(f, g)
    /\ pc' = next
    /\ UNCHANGED <<store, call, known, uploaded, used>>

Refuse(f) ==
    /\ \E g \in At(known, f) : Collides(f, g)
    /\ Fail
    /\ UNCHANGED <<store, used>>

(* An import of a file that is there changes nothing; without an answer    *)
(* nobody knows.                                                           *)
Upload(f, next) ==
    /\ At(known, f) = {}
    /\ \/ /\ At(store, f) = {}
          /\ store' = store \cup {f}
          /\ uploaded' = uploaded \cup {f}
          /\ pc' = next
          /\ UNCHANGED <<call, known, used>>
       \/ /\ At(store, f) # {}
          /\ Fail
          /\ UNCHANGED <<store, used>>
       \/ /\ Spend("failure")
          /\ store' \in {store} \cup {store \cup {g} : g \in {h \in {f} : At(store, h) = {}}}
          /\ Fail

Put(f, next) == Reuse(f, next) \/ Refuse(f) \/ Upload(f, next)

PutKey == pc = "key" /\ Put(KeyFile(call), "certificate") /\ UNCHANGED <<now, done>>

PutCertificate ==
    /\ pc = "certificate"
    /\ Put(CertificateFile(call), IF call.bundle.chain = <<>> THEN "save" ELSE "chain")
    /\ UNCHANGED <<now, done>>

PutChain == pc = "chain" /\ Put(ChainFile(call), "save") /\ UNCHANGED <<now, done>>

(* WriteMemory, unless it was declined or create changed nothing. *)
Save ==
    /\ pc = "save"
    /\ \/ done' = done \cup {call} /\ Return /\ UNCHANGED used
       \/ uploaded # {} /\ Spend("failure") /\ Fail /\ UNCHANGED done
    /\ UNCHANGED <<store, now>>

(* rollbackUploadedMaterial *)
Undo ==
    /\ pc = "undo"
    /\ \/ store' = store \ uploaded /\ UNCHANGED used
       \/ Spend("failure") /\ \E gone \in SUBSET uploaded : store' = store \ gone
    /\ Return
    /\ UNCHANGED <<now, done>>

(* The process ends.  An upload it was waiting for may have been carried   *)
(* out: then it ends after the upload.                                     *)
Kill ==
    /\ pc # "idle"
    /\ Spend("failure")
    /\ Return
    /\ UNCHANGED <<store, now, done>>

(* Somebody deletes a file of a bundle. *)
Delete ==
    /\ pc = "idle"
    /\ Spend("delete")
    /\ \E f \in store :
          /\ store' = store \ {f}
          /\ done' = {d \in done : f \notin Wanted(d)}
    /\ UNCHANGED <<now, pc, call, known, uploaded>>

Tick ==
    /\ now < MaxTime
    /\ now' = now + 1
    /\ UNCHANGED <<store, pc, call, known, uploaded, done, used>>

Next ==
    \/ \E in \in Inputs : \/ \E prefix \in NamePrefixes : Create(in, prefix)
                          \/ \E name \in ImportNames : Import(in, name)
    \/ List \/ PutKey \/ PutCertificate \/ PutChain \/ Save \/ Undo
    \/ Kill \/ Delete \/ Tick

Spec == Init /\ [][Next]_vars

----------------------------------------------------------------------------
Bundles == {BundleOf(in) : in \in {i \in Inputs : Accepted(i)}}

Calls ==
    {Managed(b, prefix) : b \in Bundles, prefix \in {p \in NamePrefixes : Sanitized(p) # <<>>}}
        \cup {Imported(b, name) : b \in Bundles, name \in ImportNames}

Files == UNION {Wanted(c) : c \in Calls}

(* What FlattenSeq makes of the certificates of an accepted chain.         *)
ASSUME ChainAssumption == \A b \in Bundles : b.chain \in Seq(Certificate)

(* A digest is no word, and a leaf is not taken for the issuer it stands   *)
(* before: serial, common name, expiry and key size differ somewhere.      *)
ASSUME DigestAssumption == \A b \in Bundles : Checksum(b) \notin Word
ASSUME MetaAssumption ==
    \A b \in Bundles : b.chain # <<>> => b.chain[1].meta # b.certificate.meta

(* Every variable has its type. *)
TypeOK ==
    /\ store \subseteq Files /\ known \subseteq Files
    /\ now \in 0 .. MaxTime
    /\ pc \in {"idle", "list", "key", "certificate", "chain", "save", "undo"}
    /\ IF pc = "idle" THEN call = Idle /\ uploaded = {}
                      ELSE call \in Calls /\ uploaded \subseteq Wanted(call)
    /\ done \subseteq Calls
    /\ used \in [Budget -> Nat]

(* A call that has returned without an error has all of its material on    *)
(* the appliance, under the names it reports, and nobody's but its own:    *)
(* whatever earlier calls left behind, and whatever later ones take back.  *)
CompletedHolds == \A c \in done : Wanted(c) \subseteq store

(* "immutable file names" (sync.go:60): what stands under a managed name   *)
(* is of the very bundle, left by whichever call under whichever prefix,   *)
(* so that an interrupted call can be repeated.  The chain of one prefix   *)
(* may have the name of another prefix's certificate.                      *)
NamesIdentify ==
    pc # "idle" /\ call.op = "create" =>
        \A f \in Wanted(call) : \A g \in At(store, f) :
            \/ g = f
            \/ f.kind = "certificate"
                  /\ g.content \in {<<call.bundle.certificate>>, call.bundle.chain}

(* What a client that trusts nothing but the leaf comes to, going from     *)
(* each certificate to its issuers: what every set has that has the leaf   *)
(* and the issuers of its members.                                         *)
Reached(leaf, certs) ==
    {c \in {leaf} \cup certs :
        \A trusted \in SUBSET ({leaf} \cup certs) :
            leaf \in trusted /\ (\A child \in trusted, issuer \in certs :
                                    Signs(issuer, child) => issuer \in trusted)
                => c \in trusted}

(* The files of a completed call can be served: the key is the leaf's, and *)
(* every certificate of the chain file is a CA that leads from the leaf    *)
(* towards the root.                                                       *)
StagedVerifies ==
    \A c \in done :
        \A f \in At(store, CertificateFile(c)) :
            /\ At(store, File("key", f.name, <<f.content[1].key>>)) \subseteq
                   {File("key", f.name, <<f.content[1].key>>)}
            /\ c.bundle.chain # <<>> =>
                   \A g \in At(store, ChainFile(c)) :
                       Range(g.content) \subseteq Reached(f.content[1], Range(g.content))

(* "PEM structure, X.509 dates, ... are validated before aXAPI is          *)
(* contacted" (docs/API.md, ParseCertificateBundle).  The code does not    *)
(* keep this, since import does not look at dates.                         *)
DatesValidated ==
    [][pc = "idle" /\ pc' # "idle" => Current(call'.bundle, now)]_vars
====

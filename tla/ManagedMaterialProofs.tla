---- MODULE ManagedMaterialProofs ----
(***************************************************************************)
(* Proofs about bundles and the files they become: a managed name stands   *)
(* for one bundle, and so a completed call has its material.               *)
(***************************************************************************)
EXTENDS ManagedMaterial, SequenceTheorems, WellFoundedInduction, TLAPS

----------------------------------------------------------------------------
(* What sanitizeName leaves consists of words.  The two inductions over    *)
(* its loop, that it is defined and what it leaves, each look at the first *)
(* number of rounds at which the claim would fail.                         *)

(* In a nonempty set of numbers one is the first. *)
LEMMA FirstOf ==
    ASSUME NEW T, T \subseteq Nat, T # {}
    PROVE  \E i \in T : \A j \in T : ~ (j < i)
  <1>1. PICK i \in T : \A j \in T : ~ (<<j, i>> \in OpToRel(<, Nat))
    BY WFMin, NatLessThanWellFounded, Zenon
  <1>2. \A j \in T : j < i => <<j, i>> \in OpToRel(<, Nat)
    BY Zenon DEF OpToRel
  <1> QED BY <1>1, <1>2

(* What the loop has after i words. *)
Kept(prefix, before, i) ==
    IF i = 0 THEN <<>>
    ELSE before[i - 1] \o (IF prefix[i] \in Word THEN <<prefix[i]>> ELSE <<>>)

LEMMA SanitizedTyped ==
    ASSUME NEW prefix, Len(prefix) \in Nat
    PROVE  Sanitized(prefix) \in Seq(Word)
  <1> DEFINE Defined(n, f) == f = [i \in 0 .. n |-> Kept(prefix, f, i)]
             kept == CHOOSE f : Defined(Len(prefix), f)
             undefined == {n \in Nat : ~ \E f : Defined(n, f)}
             odd == {n \in 0 .. Len(prefix) : kept[n] \notin Seq(Word)}
  <1>1. undefined = {}
    <2> SUFFICES ASSUME undefined # {} PROVE FALSE
      OBVIOUS
    <2>1. PICK n \in undefined : \A m \in undefined : ~ (m < n)
      BY FirstOf
    <2>2. CASE n = 0
      <3> DEFINE f == [i \in 0 .. 0 |-> <<>>]
      <3>1. \A i \in 0 .. 0 : Kept(prefix, f, i) = <<>>
        BY DEF Kept
      <3>2. f = [i \in 0 .. 0 |-> Kept(prefix, f, i)]
        BY <3>1
      <3> HIDE DEF f
      <3> QED BY <2>1, <2>2, <3>2
    <2>3. CASE n # 0
      <3>1. n - 1 \in Nat /\ n - 1 < n /\ n \in Nat
        BY <2>1, <2>3
      <3>2. PICK f : Defined(n - 1, f)
        BY <2>1, <3>1
      <3> DEFINE g == [i \in 0 .. n |-> IF i = n THEN Kept(prefix, f, n) ELSE f[i]]
      <3>3. \A i \in 0 .. n : g[i] = Kept(prefix, g, i)
        <4> TAKE i \in 0 .. n
        <4>1. i # 0 => i - 1 \in 0 .. n /\ i - 1 # n /\ g[i - 1] = f[i - 1]
          BY <3>1
        <4>2. Kept(prefix, g, i) = Kept(prefix, f, i)
          BY <4>1 DEF Kept
        <4>3. i # n => f[i] = Kept(prefix, f, i)
          <5>1. i # n => i \in 0 .. n - 1
            BY <3>1
          <5> QED BY <3>2, <5>1
        <4> QED BY <4>2, <4>3
      <3>4. g = [i \in 0 .. n |-> g[i]]
        OBVIOUS
      <3> HIDE DEF g
      <3>5. g = [i \in 0 .. n |-> Kept(prefix, g, i)]
        BY <3>3, <3>4
      <3> QED BY <2>1, <3>5
    <2> QED BY <2>2, <2>3
  <1>2. \E f : Defined(Len(prefix), f)
    BY <1>1
  <1>3. kept = [i \in 0 .. Len(prefix) |-> Kept(prefix, kept, i)]
    BY <1>2
  <1>3a. \A i \in 0 .. Len(prefix) : kept[i] = Kept(prefix, kept, i)
    BY <1>3
  <1>4. Sanitized(prefix) = kept[Len(prefix)]
    BY DEF Sanitized, Kept
  <1> HIDE DEF kept
  <1>5. odd = {}
    <2> SUFFICES ASSUME odd # {} PROVE FALSE
      OBVIOUS
    <2>1. PICK n \in odd : \A m \in odd : ~ (m < n)
      <3>1. odd \subseteq Nat
        OBVIOUS
      <3> QED BY <3>1, FirstOf
    <2>2. n \in 0 .. Len(prefix) /\ kept[n] = Kept(prefix, kept, n)
      BY <1>3a, <2>1
    <2>3. n # 0
      <3>1. n = 0 => kept[n] = <<>>
        BY <2>2 DEF Kept
      <3>2. <<>> \in Seq(Word)
        OBVIOUS
      <3>3. kept[n] \notin Seq(Word)
        BY <2>1
      <3> QED BY <3>1, <3>2, <3>3
    <2>4. n - 1 \in 0 .. Len(prefix) /\ n - 1 < n
      BY <2>2, <2>3
    <2>5. kept[n - 1] \in Seq(Word)
      BY <2>1, <2>4
    <2>6. (IF prefix[n] \in Word THEN <<prefix[n]>> ELSE <<>>) \in Seq(Word)
      OBVIOUS
    <2>7. kept[n] \in Seq(Word)
      BY <2>2, <2>3, <2>5, <2>6, ConcatProperties DEF Kept
    <2> QED BY <2>7
  <1>6. Len(prefix) \in 0 .. Len(prefix)
    OBVIOUS
  <1> QED BY <1>4, <1>5, <1>6

----------------------------------------------------------------------------
(* A managed name ends with the digest of its bundle.                      *)

LEMMA LimitedTyped ==
    ASSUME NEW S, NEW prefix \in Seq(S), NEW suffix \in Seq(S),
           NEW n \in {1, 2}, Len(suffix) = n
    PROVE  /\ Limited(prefix, suffix) \in Seq(S)
           /\ Len(Limited(prefix, suffix)) \in Nat \ {0}
           /\ Limited(prefix, suffix)[Len(Limited(prefix, suffix))] = suffix[Len(suffix)]
  <1> DEFINE longest == NameLimit - n
             first == IF Len(prefix) > longest THEN SubSeq(prefix, 1, longest) ELSE prefix
  <1>1. longest \in Nat
    <2>1. NameLimit \in Nat /\ NameLimit >= 2
      BY BoundAssumption
    <2> QED BY <2>1
  <1>2. first \in Seq(S)
    <2>1. CASE Len(prefix) > longest
      <3>1. \A i \in 1 .. longest : prefix[i] \in S
        BY <1>1, <2>1
      <3> HIDE DEF longest
      <3>2. SubSeq(prefix, 1, longest) \in Seq(S)
        BY <1>1, <3>1, SubSeqProperties
      <3> QED BY <2>1, <3>2
    <2>2. CASE ~ (Len(prefix) > longest)
      BY <2>2
    <2> QED BY <2>1, <2>2
  <1>3. Limited(prefix, suffix) = first \o suffix
    BY DEF Limited
  <1> HIDE DEF first, longest
  <1>4. first \o suffix \in Seq(S) /\ Len(first \o suffix) = Len(first) + Len(suffix)
    BY <1>2, ConcatProperties
  <1>5. Len(first) \in Nat
    BY <1>2
  <1>6. (first \o suffix)[Len(first) + Len(suffix)] = suffix[Len(suffix)]
    BY <1>2, <1>5, ConcatProperties
  <1>7. Len(first) + Len(suffix) \in Nat \ {0}
    BY <1>5
  <1> HIDE DEF Limited
  <1>8. Len(Limited(prefix, suffix)) = Len(first) + Len(suffix)
    BY <1>3, <1>4
  <1> QED BY <1>3, <1>4, <1>6, <1>7, <1>8

LEMMA ManagedNames ==
    ASSUME NEW b \in Bundles, NEW prefix \in NamePrefixes
    PROVE  \A name \in {Managed(b, prefix).name, Managed(b, prefix).chain} :
              Len(name) \in Nat \ {0} /\ name[Len(name)] = Checksum(b)
  <1> DEFINE S == Word \cup {Checksum(b)}
  <1>1. Sanitized(prefix) \in Seq(S)
    <2>1. Len(prefix) \in Nat
      BY PrefixAssumption
    <2> QED BY <2>1, SanitizedTyped
  <1>2. <<Checksum(b)>> \in Seq(S) /\ <<Chain, Checksum(b)>> \in Seq(S)
    BY WordAssumption
  <1> HIDE DEF S
  <1>3. Len(<<Checksum(b)>>) = 1 /\ Len(<<Chain, Checksum(b)>>) = 2
    OBVIOUS
  <1>4. <<Checksum(b)>>[1] = Checksum(b) /\ <<Chain, Checksum(b)>>[2] = Checksum(b)
    OBVIOUS
  <1>5. ASSUME NEW suffix \in {<<Checksum(b)>>, <<Chain, Checksum(b)>>}
        PROVE  LET name == Limited(Sanitized(prefix), suffix) IN
                  Len(name) \in Nat \ {0} /\ name[Len(name)] = Checksum(b)
    <2>1. suffix \in Seq(S) /\ Len(suffix) \in {1, 2} /\ suffix[Len(suffix)] = Checksum(b)
      BY <1>2, <1>3, <1>4
    <2> QED BY <1>1, <2>1, LimitedTyped
  <1> QED BY <1>5 DEF Managed

LEMMA ImportedNames ==
    ASSUME NEW b \in Bundles, NEW name \in ImportNames
    PROVE  \A n \in {Imported(b, name).name, Imported(b, name).chain} : n[Len(n)] \in Word
  <1>1. name \in Seq(Word) /\ name # <<>>
    BY ImportAssumption
  <1>2. Len(name) \in 1 .. Len(name)
    BY <1>1, EmptySeq
  <1>3. name[Len(name)] \in Word
    BY <1>1, <1>2
  <1>4. Append(name, Chain)[Len(Append(name, Chain))] = Chain
    BY <1>1, WordAssumption, AppendProperties
  <1> QED BY <1>3, <1>4, WordAssumption DEF Imported

(* The bundle of a managed name. *)
LEMMA CallTyped ==
    ASSUME NEW c \in Calls
    PROVE  /\ c.bundle \in Bundles /\ c.op \in {"create", "import"}
           /\ \A name \in {c.name, c.chain} :
                 IF c.op = "create" THEN name[Len(name)] = Checksum(c.bundle)
                                    ELSE name[Len(name)] \in Word
  <1>1. ASSUME NEW b \in Bundles, NEW prefix \in NamePrefixes, c = Managed(b, prefix)
        PROVE  /\ c.bundle = b /\ c.op = "create"
               /\ \A name \in {c.name, c.chain} : name[Len(name)] = Checksum(b)
    BY <1>1, ManagedNames DEF Managed
  <1>2. ASSUME NEW b \in Bundles, NEW name \in ImportNames, c = Imported(b, name)
        PROVE  /\ c.bundle = b /\ c.op = "import"
               /\ \A n \in {c.name, c.chain} : n[Len(n)] \in Word
    BY <1>2, ImportedNames DEF Imported
  <1> QED BY <1>1, <1>2 DEF Calls

LEMMA WantedFile ==
    ASSUME NEW c, NEW f \in Wanted(c)
    PROVE  /\ f.kind \in {"key", "certificate"} /\ f.name \in {c.name, c.chain}
           /\ f.kind = "key" => f = KeyFile(c)
           /\ f.kind = "certificate" =>
                 f = CertificateFile(c) \/ (f = ChainFile(c) /\ c.bundle.chain # <<>>)
  <1>1. CASE f = KeyFile(c)
    BY <1>1 DEF KeyFile, File
  <1>2. CASE f = CertificateFile(c)
    BY <1>2 DEF CertificateFile, File
  <1>3. CASE f = ChainFile(c) /\ f.content # <<>>
    BY <1>3 DEF ChainFile, File
  <1> QED BY <1>1, <1>2, <1>3 DEF Wanted

LEMMA Identity ==
    ASSUME NEW c \in Calls, c.op = "create", NEW f \in Wanted(c), NEW g \in Files, SamePlace(f, g)
    PROVE  \/ g = f
           \/ /\ f.kind = "certificate" /\ g.kind = "certificate"
              /\ \/ f = CertificateFile(c) /\ g.content = c.bundle.chain /\ c.bundle.chain # <<>>
                 \/ f = ChainFile(c) /\ g.content = <<c.bundle.certificate>> /\ c.bundle.chain # <<>>
  <1>1. PICK d \in Calls : g \in Wanted(d)
    BY DEF Files
  <1>2. f.name \in {c.name, c.chain} /\ g.name \in {d.name, d.chain}
        /\ f.name = g.name /\ f.kind = g.kind
    BY <1>1, WantedFile DEF SamePlace
  <1>3. c.bundle \in Bundles /\ d.bundle \in Bundles /\ d.op \in {"create", "import"}
    BY CallTyped
  <1>4. f.name[Len(f.name)] = Checksum(c.bundle)
    BY <1>2, CallTyped
  <1>5. d.op = "create"
    BY <1>2, <1>3, <1>4, CallTyped, DigestAssumption
  <1>6. Checksum(d.bundle) = Checksum(c.bundle)
    BY <1>2, <1>4, <1>5, CallTyped
  <1>7. /\ d.bundle.certificate = c.bundle.certificate
        /\ d.bundle.key = c.bundle.key /\ d.bundle.chain = c.bundle.chain
    BY <1>6 DEF Checksum
  <1>8. CASE f.kind = "key"
    <2>1. f = KeyFile(c) /\ g = KeyFile(d)
      BY <1>1, <1>2, <1>8, WantedFile
    <2>2. c.name = d.name
      BY <1>2, <2>1 DEF KeyFile, File
    <2> QED BY <1>7, <2>1, <2>2 DEF KeyFile
  <1>9. CASE f.kind = "certificate"
    <2>1. f = CertificateFile(c) \/ (f = ChainFile(c) /\ c.bundle.chain # <<>>)
      BY <1>9, WantedFile
    <2>2. g = CertificateFile(d) \/ (g = ChainFile(d) /\ c.bundle.chain # <<>>)
      BY <1>1, <1>2, <1>7, <1>9, WantedFile
    <2> QED BY <1>2, <1>7, <1>9, <2>1, <2>2 DEF CertificateFile, ChainFile, File
  <1> QED BY <1>8, <1>9, WantedFile

(* What a call reuses is its own material. *)
LEMMA ReusedIsWanted ==
    ASSUME NEW c \in Calls, c.op = "create", NEW f \in Wanted(c), NEW g \in Files,
           SamePlace(f, g), ~ Collides(f, g)
    PROVE  g = f
  <1> SUFFICES ASSUME g # f PROVE FALSE
    OBVIOUS
  <1>1. /\ f.kind = "certificate" /\ c.bundle.chain # <<>>
        /\ \/ f = CertificateFile(c) /\ g.content = c.bundle.chain
           \/ f = ChainFile(c) /\ g.content = <<c.bundle.certificate>>
    BY Identity
  <1>2. g.content[1].meta = f.content[1].meta
    BY <1>1 DEF Collides
  <1>3. c.bundle.chain[1].meta # c.bundle.certificate.meta
    BY <1>1, CallTyped, MetaAssumption
  <1> QED BY <1>1, <1>2, <1>3 DEF CertificateFile, ChainFile, File

----------------------------------------------------------------------------
(* The invariant.                                                          *)

(* A place holds one file. *)
Unique == \A f, g \in store : SamePlace(f, g) => f = g

(* What a call has listed or uploaded is there until it returns; only      *)
(* create lists.                                                           *)
Sighted ==
    /\ pc = "idle" => known = {}
    /\ pc = "list" => call.op = "create"
    /\ pc # "undo" => known \subseteq store /\ uploaded \subseteq store
    /\ pc # "idle" /\ call.op = "import" => known = {}

(* What a call has come past is there. *)
Progress ==
    /\ pc \in {"certificate", "chain", "save"} => KeyFile(call) \in store
    /\ pc = "chain" => CertificateFile(call) \in store /\ call.bundle.chain # <<>>
    /\ pc = "save" => Wanted(call) \subseteq store

(* Nobody takes back what a completed call relies on. *)
Own == \A d \in done : Wanted(d) \cap uploaded = {}

MInv == TypeOK /\ Unique /\ Sighted /\ Progress /\ Own /\ CompletedHolds

LEMMA WantedTyped ==
    ASSUME NEW c \in Calls
    PROVE  /\ Wanted(c) \subseteq Files /\ KeyFile(c) \in Wanted(c)
           /\ CertificateFile(c) \in Wanted(c)
           /\ c.bundle.chain # <<>> => ChainFile(c) \in Wanted(c)
           /\ \A f \in Wanted(c) :
                 \/ f \in {KeyFile(c), CertificateFile(c)}
                 \/ f = ChainFile(c) /\ c.bundle.chain # <<>>
  <1>1. ChainFile(c).content = c.bundle.chain
    BY DEF ChainFile, File
  <1> QED BY <1>1 DEF Wanted, Files

LEMMA InitInv == Init => MInv
  <1> SUFFICES ASSUME Init PROVE MInv
    OBVIOUS
  <1>1. TypeOK
    BY BoundAssumption DEF Init, TypeOK, Idle
  <1> QED BY <1>1 DEF Init, MInv, Unique, Sighted, Progress, Own, CompletedHolds

LEMMA SpendTyped ==
    ASSUME TypeOK, NEW b \in Budget, Spend(b)
    PROVE  used' \in [Budget -> Nat]
  <1>1. used \in [Budget -> Nat] /\ used[b] + 1 \in Nat
    BY DEF TypeOK
  <1> QED BY <1>1 DEF Spend

(* The next call starts from nothing. *)
LEMMA ReturnInv ==
    ASSUME MInv, Return, Unique', store' \subseteq Files, used' \in [Budget -> Nat],
           now' = now, done' \subseteq Calls, \A c \in done' : Wanted(c) \subseteq store'
    PROVE  MInv'
  <1>1. TypeOK'
    BY DEF MInv, TypeOK, Return, Idle
  <1>2. CompletedHolds'
    <2> SUFFICES ASSUME NEW c \in done' PROVE Wanted(c) \subseteq store'
      BY DEF CompletedHolds
    <2> QED OBVIOUS
  <1>3. Sighted' /\ Progress' /\ Own'
    BY DEF Return, Sighted, Progress, Own, Idle
  <1> QED BY <1>1, <1>2, <1>3 DEF MInv

LEMMA FailInv ==
    ASSUME MInv, pc # "idle", Fail, Unique', store \subseteq store', store' \subseteq Files,
           used' \in [Budget -> Nat], now' = now, done' = done
    PROVE  MInv'
  <1>1. done' \subseteq Calls /\ \A c \in done' : Wanted(c) \subseteq store'
    BY DEF MInv, TypeOK, CompletedHolds
  <1>2. CASE Return
    BY <1>1, <1>2, ReturnInv
  <1>3. CASE call.op = "create" /\ pc' = "undo" /\ UNCHANGED <<call, known, uploaded>>
    <2>1. TypeOK'
      BY <1>1, <1>3 DEF MInv, TypeOK
    <2>2. Sighted' /\ Progress'
      BY <1>3 DEF Sighted, Progress
    <2>3. CompletedHolds' /\ Own'
      BY <1>1, <1>3 DEF MInv, CompletedHolds, Own
    <2> QED BY <2>1, <2>2, <2>3 DEF MInv
  <1> QED BY <1>2, <1>3 DEF Fail

(* Whichever way a file is put, it is there if the call goes on, and a     *)
(* file is claimed only by the call that brought it.                       *)
LEMMA PutStep ==
    ASSUME MInv, pc \in {"key", "certificate", "chain"}, NEW f \in Wanted(call), NEW next,
           Put(f, next)
    PROVE  /\ store \subseteq store' /\ store' \subseteq Files /\ Unique'
           /\ used' \in [Budget -> Nat]
           /\ \/ Fail
              \/ /\ pc' = next /\ call' = call /\ known' = known
                 /\ f \in store'
                 /\ uploaded' \subseteq uploaded \cup ({f} \ store)
  <1>1. call \in Calls /\ store \subseteq Files /\ used \in [Budget -> Nat] /\ f \in Files
    BY WantedTyped DEF MInv, TypeOK
  <1>2. CASE Reuse(f, next)
    <2>1. PICK g \in At(known, f) : ~ Collides(f, g)
      BY <1>2 DEF Reuse
    <2>2. g \in known /\ g \in store /\ SamePlace(f, g)
      BY <2>1 DEF At, MInv, Sighted
    <2>3. call.op = "create"
      BY <1>1, <2>2, CallTyped DEF MInv, Sighted
    <2>4. g = f
      BY <1>1, <2>1, <2>2, <2>3, ReusedIsWanted
    <2>5. UNCHANGED <<store, call, known, uploaded, used>> /\ pc' = next
      BY <1>2 DEF Reuse
    <2> QED BY <1>1, <2>2, <2>4, <2>5 DEF MInv, Unique
  <1>3. CASE Refuse(f)
    BY <1>1, <1>3 DEF Refuse, MInv, Unique
  <1>4. CASE Upload(f, next)
    <2> DEFINE Added == At(store, f) = {} /\ store' = store \cup {f}
    <2>1. Added => Unique' /\ f \notin store
      BY DEF At, SamePlace, MInv, Unique
    <2>2. store' = store => Unique'
      BY DEF MInv, Unique
    <2>3. CASE Added /\ uploaded' = uploaded \cup {f} /\ pc' = next
               /\ UNCHANGED <<call, known, used>>
      BY <1>1, <2>1, <2>3
    <2>4. CASE Fail /\ UNCHANGED <<store, used>>
      BY <1>1, <2>2, <2>4
    <2>5. CASE Spend("failure") /\ Fail
               /\ store' \in {store} \cup {store \cup {g} : g \in {h \in {f} : At(store, h) = {}}}
      <3>1. used' \in [Budget -> Nat]
        BY <2>5, SpendTyped DEF Budget, MInv
      <3>2. store' = store \/ Added
        BY <2>5
      <3> QED BY <1>1, <2>1, <2>2, <2>5, <3>1, <3>2
    <2> QED BY <1>4, <2>3, <2>4, <2>5 DEF Upload
  <1> QED BY <1>2, <1>3, <1>4 DEF Put

LEMMA PutInv ==
    ASSUME MInv, pc \in {"key", "certificate", "chain"}, NEW f \in Wanted(call),
           NEW next \in {"certificate", "chain", "save"}, Put(f, next), UNCHANGED <<now, done>>,
           f \in store' => KeyFile(call) \in store',
           f \in store' /\ next = "chain" =>
               CertificateFile(call) \in store' /\ call.bundle.chain # <<>>,
           f \in store' /\ next = "save" => Wanted(call) \subseteq store'
    PROVE  MInv'
  <1>1. /\ store \subseteq store' /\ store' \subseteq Files /\ Unique'
        /\ used' \in [Budget -> Nat]
    BY PutStep
  <1>2. CASE Fail
    BY <1>1, <1>2, FailInv
  <1>3. CASE /\ pc' = next /\ call' = call /\ known' = known
             /\ f \in store'
             /\ uploaded' \subseteq uploaded \cup ({f} \ store)
    <2>1. TypeOK'
      BY <1>1, <1>3 DEF MInv, TypeOK
    <2>2. Sighted'
      BY <1>1, <1>3 DEF MInv, Sighted
    <2>3. Progress'
      <3>1. KeyFile(call)' = KeyFile(call) /\ CertificateFile(call)' = CertificateFile(call)
            /\ Wanted(call)' = Wanted(call)
        BY <1>3
      <3> QED BY <1>3, <3>1 DEF Progress
    <2>4. CompletedHolds'
      BY <1>1 DEF MInv, CompletedHolds
    <2>5. Own'
      BY <1>3 DEF MInv, Own, CompletedHolds
    <2> QED BY <1>1, <2>1, <2>2, <2>3, <2>4, <2>5 DEF MInv
  <1> QED BY <1>2, <1>3, PutStep

(* Nothing but time, or nothing at all, has passed. *)
LEMMA SameInv ==
    ASSUME MInv, UNCHANGED <<store, pc, call, known, uploaded, done, used>>,
           now' \in 0 .. MaxTime
    PROVE  MInv'
  BY DEF MInv, TypeOK, Unique, Sighted, Progress, Own, CompletedHolds

(* A call begins. *)
LEMMA BeginInv ==
    ASSUME MInv, pc = "idle", NEW c \in Calls, call' = c, Spend("call"),
           \/ pc' = "list" /\ c.op = "create"
           \/ pc' = "key",
           UNCHANGED <<store, now, known, uploaded, done>>
    PROVE  MInv'
  <1>1. uploaded = {} /\ known = {}
    BY DEF MInv, TypeOK, Sighted
  <1>2. TypeOK'
    <2>1. used' \in [Budget -> Nat]
      BY SpendTyped DEF Budget, MInv
    <2> QED BY <1>1, <2>1 DEF MInv, TypeOK
  <1>3. Unique' /\ Own' /\ CompletedHolds'
    BY DEF MInv, Unique, Own, CompletedHolds
  <1>4. Sighted' /\ Progress'
    BY <1>1 DEF Sighted, Progress
  <1> QED BY <1>2, <1>3, <1>4 DEF MInv

LEMMA ListInv == MInv /\ List => MInv'
  <1> SUFFICES ASSUME MInv, List PROVE MInv'
    OBVIOUS
  <1>1. pc = "list" /\ UNCHANGED <<store, now, done>> /\ Unique'
    BY DEF List, MInv, Unique
  <1>2. CASE known' = store /\ pc' = "key" /\ UNCHANGED <<call, uploaded, used>>
    <2>1. TypeOK'
      BY <1>1, <1>2 DEF MInv, TypeOK
    <2>2. Sighted'
      BY <1>1, <1>2 DEF MInv, Sighted
    <2>3. Progress' /\ Own' /\ CompletedHolds'
      BY <1>1, <1>2 DEF MInv, Progress, Own, CompletedHolds
    <2> QED BY <1>1, <2>1, <2>2, <2>3 DEF MInv
  <1>3. CASE Spend("failure") /\ Return
    <2>1. used' \in [Budget -> Nat]
      BY <1>3, SpendTyped DEF Budget, MInv
    <2>2. store' \subseteq Files /\ done' \subseteq Calls
          /\ \A c \in done' : Wanted(c) \subseteq store'
      BY <1>1 DEF MInv, TypeOK, CompletedHolds
    <2> QED BY <1>1, <1>3, <2>1, <2>2, ReturnInv
  <1> QED BY <1>2, <1>3 DEF List

LEMMA PutsInv == MInv /\ (PutKey \/ PutCertificate \/ PutChain) => MInv'
  <1> SUFFICES ASSUME MInv, PutKey \/ PutCertificate \/ PutChain PROVE MInv'
    OBVIOUS
  <1>1. /\ pc \in {"key", "certificate", "chain"} /\ UNCHANGED <<now, done>>
        /\ call \in Calls
    BY DEF PutKey, PutCertificate, PutChain, MInv, TypeOK
  <1>2. CASE PutKey
    <2>1. KeyFile(call) \in Wanted(call)
      BY <1>1, WantedTyped
    <2>2. Put(KeyFile(call), "certificate")
      BY <1>2 DEF PutKey
    <2> QED BY <1>1, <2>1, <2>2, PutInv
  <1>3. CASE PutCertificate
    <2> DEFINE f == CertificateFile(call)
               next == IF call.bundle.chain = <<>> THEN "save" ELSE "chain"
    <2>1. f \in Wanted(call) /\ Put(f, next) /\ KeyFile(call) \in store
      BY <1>1, <1>3, WantedTyped DEF PutCertificate, MInv, Progress
    <2>2. store \subseteq store'
      BY <1>1, <2>1, PutStep
    <2>3. call.bundle.chain = <<>> => Wanted(call) = {KeyFile(call), f}
      BY <1>1, WantedTyped
    <2>4. /\ f \in store' => KeyFile(call) \in store'
          /\ f \in store' /\ next = "chain" => f \in store' /\ call.bundle.chain # <<>>
          /\ f \in store' /\ next = "save" => Wanted(call) \subseteq store'
      BY <2>1, <2>2, <2>3
    <2>5. next \in {"certificate", "chain", "save"}
      OBVIOUS
    <2> HIDE DEF next
    <2> QED BY <1>1, <2>1, <2>4, <2>5, PutInv
  <1>4. CASE PutChain
    <2> DEFINE f == ChainFile(call)
    <2>1. /\ f \in Wanted(call) /\ Put(f, "save")
          /\ KeyFile(call) \in store /\ CertificateFile(call) \in store
      BY <1>1, <1>4, WantedTyped DEF PutChain, MInv, Progress
    <2>2. store \subseteq store'
      BY <1>1, <2>1, PutStep
    <2>3. f \in store' => Wanted(call) \subseteq store'
      BY <1>1, <2>1, <2>2, WantedTyped
    <2> QED BY <1>1, <2>1, <2>2, <2>3, PutInv
  <1> QED BY <1>2, <1>3, <1>4

LEMMA SaveInv == MInv /\ Save => MInv'
  <1> SUFFICES ASSUME MInv, Save PROVE MInv'
    OBVIOUS
  <1>1. /\ pc = "save" /\ UNCHANGED <<store, now>> /\ Unique' /\ store' \subseteq Files
        /\ call \in Calls /\ done \subseteq Calls
    BY DEF Save, MInv, TypeOK, Unique
  <1>2. CASE done' = done \cup {call} /\ Return /\ UNCHANGED used
    <2>1. used' \in [Budget -> Nat] /\ done' \subseteq Calls
      BY <1>1, <1>2 DEF MInv, TypeOK
    <2>2. \A c \in done' : Wanted(c) \subseteq store'
      BY <1>1, <1>2 DEF MInv, CompletedHolds, Progress
    <2> QED BY <1>1, <1>2, <2>1, <2>2, ReturnInv
  <1>3. CASE uploaded # {} /\ Spend("failure") /\ Fail /\ UNCHANGED done
    <2>1. used' \in [Budget -> Nat]
      BY <1>3, SpendTyped DEF Budget, MInv
    <2> QED BY <1>1, <1>3, <2>1, FailInv
  <1> QED BY <1>2, <1>3 DEF Save

LEMMA UndoInv == MInv /\ Undo => MInv'
  <1> SUFFICES ASSUME MInv, Undo PROVE MInv'
    OBVIOUS
  <1>1. Return /\ UNCHANGED <<now, done>>
    BY DEF Undo
  <1>2. used' \in [Budget -> Nat]
    <2>1. CASE UNCHANGED used
      BY <2>1 DEF MInv, TypeOK
    <2>2. CASE Spend("failure")
      BY <2>2, SpendTyped DEF Budget, MInv
    <2> QED BY <2>1, <2>2 DEF Undo
  <1>3. PICK gone \in SUBSET uploaded : store' = store \ gone
    BY DEF Undo
  <1>4. Unique' /\ store' \subseteq Files /\ done' \subseteq Calls
    BY <1>1, <1>3 DEF MInv, TypeOK, Unique
  <1>5. \A c \in done' : Wanted(c) \subseteq store'
    BY <1>1, <1>3 DEF MInv, Own, CompletedHolds
  <1> QED BY <1>1, <1>2, <1>4, <1>5, ReturnInv

LEMMA KillInv == MInv /\ Kill => MInv'
  <1> SUFFICES ASSUME MInv, Kill PROVE MInv'
    OBVIOUS
  <1>1. Return /\ UNCHANGED <<store, now, done>>
    BY DEF Kill
  <1>2. used' \in [Budget -> Nat]
    BY SpendTyped DEF Kill, Budget, MInv
  <1>3. Unique' /\ store' \subseteq Files /\ done' \subseteq Calls
        /\ \A c \in done' : Wanted(c) \subseteq store'
    BY <1>1 DEF MInv, TypeOK, Unique, CompletedHolds
  <1> QED BY <1>1, <1>2, <1>3, ReturnInv

LEMMA DeleteInv == MInv /\ Delete => MInv'
  <1> SUFFICES ASSUME MInv, Delete PROVE MInv'
    OBVIOUS
  <1>1. /\ pc = "idle" /\ UNCHANGED <<now, pc, call, known, uploaded>>
        /\ uploaded = {} /\ known = {}
    BY DEF Delete, MInv, TypeOK, Sighted
  <1>2. PICK f \in store : store' = store \ {f} /\ done' = {d \in done : f \notin Wanted(d)}
    BY DEF Delete
  <1>3. used' \in [Budget -> Nat]
    BY SpendTyped DEF Delete, Budget, MInv
  <1>4. TypeOK'
    BY <1>1, <1>2, <1>3 DEF MInv, TypeOK
  <1>5. Unique' /\ CompletedHolds'
    BY <1>2 DEF MInv, Unique, CompletedHolds
  <1>6. Sighted' /\ Progress' /\ Own'
    BY <1>1 DEF Sighted, Progress, Own
  <1> QED BY <1>4, <1>5, <1>6 DEF MInv

LEMMA NextInv == MInv /\ [Next]_vars => MInv'
  <1> SUFFICES ASSUME MInv, [Next]_vars PROVE MInv'
    OBVIOUS
  <1>1. ASSUME NEW in \in Inputs, NEW prefix \in NamePrefixes, Create(in, prefix)
        PROVE  MInv'
    <2> DEFINE c == Managed(BundleOf(in), prefix)
    <2>1. c \in Calls /\ c.op = "create"
      BY <1>1 DEF Create, Calls, Bundles, Managed
    <2> HIDE DEF c
    <2>2. /\ pc = "idle" /\ call' = c /\ Spend("call") /\ pc' = "list"
          /\ UNCHANGED <<store, now, known, uploaded, done>>
      BY <1>1 DEF Create, c
    <2> QED BY <2>1, <2>2, BeginInv
  <1>2. ASSUME NEW in \in Inputs, NEW name \in ImportNames, Import(in, name)
        PROVE  MInv'
    <2> DEFINE c == Imported(BundleOf(in), name)
    <2>1. c \in Calls
      BY <1>2 DEF Import, Calls, Bundles
    <2> HIDE DEF c
    <2>2. /\ pc = "idle" /\ call' = c /\ Spend("call") /\ pc' = "key"
          /\ UNCHANGED <<store, now, known, uploaded, done>>
      BY <1>2 DEF Import, c
    <2> QED BY <2>1, <2>2, BeginInv
  <1>3. CASE Tick
    <2>1. now' \in 0 .. MaxTime
      BY <1>3, BoundAssumption DEF Tick, MInv, TypeOK
    <2> QED BY <1>3, <2>1, SameInv DEF Tick
  <1>4. CASE UNCHANGED vars
    BY <1>4, SameInv DEF vars, MInv, TypeOK
  <1> QED BY <1>1, <1>2, <1>3, <1>4, ListInv, PutsInv, SaveInv, UndoInv, KillInv, DeleteInv
          DEF Next

(* Every variable has its type, whatever the calls find and leave. *)
THEOREM TypeCorrect == Spec => []TypeOK
  <1>1. MInv => TypeOK
    BY DEF MInv
  <1> QED BY <1>1, InitInv, NextInv, PTL DEF Spec

(* A completed call has its material: certificate.go's names are enough to *)
(* tell its files from every other bundle's.                               *)
THEOREM CompletedCallHolds == Spec => []CompletedHolds
  <1>1. MInv => CompletedHolds
    BY DEF MInv
  <1> QED BY <1>1, InitInv, NextInv, PTL DEF Spec

(* What stands under a managed name is of the very bundle. *)
THEOREM NamesIdentifyBundles == Spec => []NamesIdentify
  <1>1. MInv => NamesIdentify
    <2> SUFFICES ASSUME MInv, pc # "idle", call.op = "create",
                        NEW f \in Wanted(call), NEW g \in At(store, f)
                 PROVE  \/ g = f
                        \/ f.kind = "certificate"
                              /\ g.content \in {<<call.bundle.certificate>>, call.bundle.chain}
      BY DEF NamesIdentify
    <2>1. call \in Calls /\ g \in Files /\ SamePlace(f, g)
      BY DEF MInv, TypeOK, At
    <2> QED BY <2>1, Identity
  <1> QED BY <1>1, InitInv, NextInv, PTL DEF Spec

----------------------------------------------------------------------------
(* What is staged verifies.                                                *)

(* A valid chain leads from the leaf to each of its certificates. *)
LEMMA ChainReached ==
    ASSUME NEW leaf, NEW S, NEW chain \in Seq(S), ValidChain(leaf, chain)
    PROVE  Range(chain) \subseteq Reached(leaf, Range(chain))
  <1> DEFINE certs == Range(chain)
  <1>1. \A i \in 1 .. Len(chain) : chain[i] \in certs
    BY DEF Range
  <1>2. \A c \in certs : \E i \in 1 .. Len(chain) : c = chain[i]
    BY DEF Range
  <1> HIDE DEF certs
  <1>3. ASSUME NEW trusted \in SUBSET ({leaf} \cup certs), leaf \in trusted,
               \A child \in trusted, issuer \in certs : Signs(issuer, child) => issuer \in trusted
        PROVE  certs \subseteq trusted
    <2> DEFINE missed == {i \in 1 .. Len(chain) : chain[i] \notin trusted}
    <2>1. missed = {}
      <3> SUFFICES ASSUME missed # {} PROVE FALSE
        OBVIOUS
      <3>1. missed \subseteq Nat
        OBVIOUS
      <3> HIDE DEF missed
      <3>2. PICK i \in missed : \A j \in missed : ~ (j < i)
        BY <3>1, FirstOf
      <3>3. i \in 1 .. Len(chain) /\ chain[i] \notin trusted
        BY DEF missed
      <3>4. Signs(chain[i], (<<leaf>> \o chain)[i])
        BY <3>3 DEF ValidChain
      <3>5. (<<leaf>> \o chain)[i] \in trusted
        <4>1. CASE i = 1
          BY <1>3, <4>1
        <4>2. CASE i > 1
          <5>1. i - 1 \in 1 .. Len(chain) /\ i - 1 < i
            BY <3>3, <4>2
          <5>2. chain[i - 1] \in trusted
            BY <3>2, <5>1 DEF missed
          <5>3. (<<leaf>> \o chain)[i] = chain[i - 1]
            BY <3>3, <4>2
          <5> QED BY <5>2, <5>3
        <4>3. i = 1 \/ i > 1
          BY <3>3
        <4> QED BY <4>1, <4>2, <4>3
      <3> QED BY <1>1, <1>3, <3>3, <3>4, <3>5
    <2> QED BY <1>2, <2>1
  <1>4. certs \subseteq Reached(leaf, certs)
    BY <1>3 DEF Reached
  <1> QED BY <1>4 DEF certs

(* What was accepted as a bundle: the key is the leaf's, and the chain is  *)
(* valid.                                                                  *)
LEMMA BundleVerifies ==
    ASSUME NEW b \in Bundles
    PROVE  b.key = b.certificate.key /\ ValidChain(b.certificate, b.chain)
  BY DEF Bundles, Accepted

(* The files of a completed call can be served, whatever stands beside     *)
(* them: the key is the leaf's, and the chain leads from the leaf to each  *)
(* of its certificates.                                                    *)
THEOREM StagedMaterialVerifies == Spec => []StagedVerifies
  <1>1. ASSUME MInv
        PROVE  StagedVerifies
    <2> SUFFICES ASSUME NEW c \in done, NEW f \in At(store, CertificateFile(c))
                 PROVE  /\ At(store, File("key", f.name, <<f.content[1].key>>)) \subseteq
                               {File("key", f.name, <<f.content[1].key>>)}
                        /\ c.bundle.chain # <<>> =>
                               \A g \in At(store, ChainFile(c)) :
                                   Range(g.content) \subseteq Reached(f.content[1], Range(g.content))
      BY DEF StagedVerifies
    <2> DEFINE b == c.bundle
    <2>1. c \in Calls /\ Wanted(c) \subseteq store
      BY <1>1 DEF MInv, TypeOK, CompletedHolds
    <2>2. b \in Bundles
      BY <2>1, CallTyped
    <2> HIDE DEF b
    <2>3. b.key = b.certificate.key /\ ValidChain(b.certificate, b.chain)
          /\ b.chain \in Seq(Certificate)
      BY <2>2, BundleVerifies, ChainAssumption
    <2>4. ASSUME NEW g \in Wanted(c), NEW h \in At(store, g)
          PROVE  h = g
      BY <1>1, <2>1 DEF At, MInv, Unique
    <2>5. f = CertificateFile(c)
      BY <2>1, <2>4, WantedTyped
    <2>6. f.name = c.name /\ f.content[1] = b.certificate
      BY <2>5 DEF CertificateFile, File, b
    <2>7. KeyFile(c) = File("key", c.name, <<b.certificate.key>>)
      BY <2>3 DEF KeyFile, b
    <2>8. At(store, KeyFile(c)) \subseteq {KeyFile(c)}
      BY <2>1, <2>4, WantedTyped
    <2>9. ASSUME b.chain # <<>>, NEW g \in At(store, ChainFile(c))
          PROVE  Range(g.content) \subseteq Reached(f.content[1], Range(g.content))
      <3>1. g = ChainFile(c)
        BY <2>1, <2>4, <2>9, WantedTyped DEF b
      <3>2. g.content = b.chain
        BY <3>1 DEF ChainFile, File, b
      <3> QED BY <2>3, <2>6, <3>2, ChainReached
    <2> QED BY <2>6, <2>7, <2>8, <2>9 DEF b
  <1> QED BY <1>1, InitInv, NextInv, PTL DEF Spec
====

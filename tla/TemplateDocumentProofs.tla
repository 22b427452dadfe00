---- MODULE TemplateDocumentProofs ----
(***************************************************************************)
(* Proofs about template documents: a revision stands for a configuration, *)
(* however the appliance renders it, and the scan before a delete finds    *)
(* every file in use.                                                      *)
(***************************************************************************)
EXTENDS TemplateDocument, FiniteSetTheorems, SequenceTheorems, TLAPS

----------------------------------------------------------------------------
(* Sequences, and the bags they become. *)

(* In a nonempty set of numbers one is the first. *)
LEMMA FirstOf ==
    ASSUME NEW T, T \subseteq Nat, T # {}
    PROVE  \E i \in T : \A j \in T : ~ (j < i)
  <1>1. PICK i \in T : \A j \in T : ~ (<<j, i>> \in OpToRel(<, Nat))
    BY WFMin, NatLessThanWellFounded, Zenon
  <1>2. \A j \in T : j < i => <<j, i>> \in OpToRel(<, Nat)
    BY Zenon DEF OpToRel
  <1> QED BY <1>1, <1>2

LEMMA FunctionIsSeq ==
    ASSUME NEW S, NEW n \in Nat, NEW f \in [1 .. n -> S]
    PROVE  f \in Seq(S) /\ Len(f) = n /\ DOMAIN f = 1 .. n
  <1>1. f \in Seq(S)
    BY SeqDef
  <1>2. DOMAIN f = 1 .. Len(f) /\ DOMAIN f = 1 .. n /\ Len(f) \in Nat
    BY <1>1, LenProperties
  <1>3. Len(f) = n
    <2>1. n \in 1 .. n <=> n \in 1 .. Len(f)
      BY <1>2
    <2>2. Len(f) \in 1 .. Len(f) <=> Len(f) \in 1 .. n
      BY <1>2
    <2> QED BY <1>2, <2>1, <2>2
  <1> QED BY <1>1, <1>2, <1>3

LEMMA FiniteRange ==
    ASSUME NEW S, NEW s \in Seq(S)
    PROVE  IsFiniteSet(ToSet(s)) /\ ToSet(s) \subseteq S
  <1>1. DOMAIN s = 1 .. Len(s) /\ Len(s) \in Nat /\ s \in [1 .. Len(s) -> S]
    BY LenProperties
  <1>2. IsFiniteSet(1 .. Len(s))
    BY <1>1, FS_Interval
  <1>3. s \in Surjection(1 .. Len(s), ToSet(s))
    BY <1>1 DEF Surjection, ToSet
  <1>4. IsFiniteSet(ToSet(s))
    BY <1>2, <1>3, FS_Surjection
  <1> QED BY <1>1, <1>4 DEF ToSet

LEMMA OrderOf ==
    ASSUME NEW S, NEW entries \in SUBSET S, IsFiniteSet(entries), NEW s \in Orders(entries)
    PROVE  /\ s \in Seq(S) /\ ToSet(s) = entries
           /\ \A i, j \in DOMAIN s : s[i] = s[j] => i = j
  <1>1. Cardinality(entries) \in Nat
    BY FS_CardinalityType
  <1>2. /\ s \in [1 .. Cardinality(entries) -> entries]
        /\ \A i, j \in DOMAIN s : s[i] = s[j] => i = j
        /\ \A x \in entries : \E i \in 1 .. Cardinality(entries) : s[i] = x
    BY DEF Orders, Bijection, Injection, Surjection, IsInjective
  <1>3. s \in Seq(entries) /\ DOMAIN s = 1 .. Cardinality(entries)
    BY <1>1, <1>2, FunctionIsSeq
  <1>4. s \in Seq(S)
    BY <1>3, SeqMonotonic
  <1>5. ToSet(s) = entries
    BY <1>2, <1>3 DEF ToSet
  <1> QED BY <1>2, <1>4, <1>5

(* No two elements bind the same certificate, key and chain alike. *)
Distinct(s) == \A i, j \in DOMAIN s : FourFields(s[i]) = FourFields(s[j]) => i = j

LEMMA DistinctBag ==
    ASSUME NEW S, NEW s \in Seq(S), Distinct(s)
    PROVE  SortedBindings(s) = [x \in {FourFields(b) : b \in ToSet(s)} |-> 1]
  <1> DEFINE f == [i \in 1 .. Len(s) |-> FourFields(s[i])]
  <1>1. DOMAIN s = 1 .. Len(s)
    BY LenProperties
  <1>2. DOMAIN f = 1 .. Len(s) /\ \A i \in DOMAIN s : f[i] = FourFields(s[i])
    BY <1>1
  <1>3. SortedBindings(s) = ToBag(f)
    BY DEF SortedBindings
  <1> HIDE DEF f
  <1>4. Range(f) = {FourFields(b) : b \in ToSet(s)}
    <2>1. ASSUME NEW x \in Range(f) PROVE x \in {FourFields(b) : b \in ToSet(s)}
      BY <1>1, <1>2 DEF Range, ToSet
    <2>2. ASSUME NEW b \in ToSet(s) PROVE FourFields(b) \in Range(f)
      <3>1. PICK i \in DOMAIN s : b = s[i]
        BY DEF ToSet
      <3> QED BY <1>1, <1>2, <3>1 DEF Range
    <2> QED BY <2>1, <2>2
  <1>5. ASSUME NEW x \in Range(f) PROVE Cardinality({i \in DOMAIN f : f[i] = x}) = 1
    <2>1. PICK i \in DOMAIN f : f[i] = x
      BY DEF Range
    <2>2. \A j \in DOMAIN f : f[j] = x => j = i
      BY <1>1, <1>2, <2>1 DEF Distinct
    <2>3. {j \in DOMAIN f : f[j] = x} = {i}
      BY <2>1, <2>2
    <2> QED BY <2>3, FS_Singleton
  <1>6. ToBag(f) = [x \in Range(f) |-> 1]
    BY <1>5 DEF ToBag
  <1> QED BY <1>3, <1>4, <1>6

(* So the sorted bindings are the same exactly when the sets are. *)
LEMMA SameBag ==
    ASSUME NEW S, NEW s \in Seq(S), Distinct(s), NEW T, NEW t \in Seq(T), Distinct(t)
    PROVE  SortedBindings(s) = SortedBindings(t)
              <=> {FourFields(b) : b \in ToSet(s)} = {FourFields(b) : b \in ToSet(t)}
  <1> DEFINE X == {FourFields(b) : b \in ToSet(s)}
             Y == {FourFields(b) : b \in ToSet(t)}
  <1>1. SortedBindings(s) = [x \in X |-> 1] /\ SortedBindings(t) = [x \in Y |-> 1]
    BY DistinctBag
  <1> HIDE DEF X, Y
  <1>2. DOMAIN [x \in X |-> 1] = X /\ DOMAIN [x \in Y |-> 1] = Y
    OBVIOUS
  <1>3. SortedBindings(s) = SortedBindings(t) <=> X = Y
    BY <1>1, <1>2
  <1> QED BY <1>3 DEF X, Y

----------------------------------------------------------------------------
(* The loop of templateWithoutCertificate.  Both inductions, that the loop *)
(* is defined and what it keeps, look at the first number of rounds at     *)
(* which the claim would fail.                                             *)

Round(certs, cert, before, i) ==
    IF i = 0 THEN << >>
    ELSE IF certs[i].cert = cert THEN before[i - 1]
    ELSE Append(before[i - 1], certs[i])

Loop(certs, cert, n, f) == f = [i \in 0 .. n |-> Round(certs, cert, f, i)]

LEMMA LoopDefined ==
    ASSUME NEW certs, NEW cert, NEW n \in Nat
    PROVE  \E f : Loop(certs, cert, n, f)
  <1> DEFINE undefined == {m \in Nat : ~ \E f : Loop(certs, cert, m, f)}
  <1> SUFFICES ASSUME undefined # {} PROVE FALSE
    OBVIOUS
  <1>1. PICK m \in undefined : \A k \in undefined : ~ (k < m)
    BY FirstOf
  <1>2. CASE m = 0
    <2> DEFINE f == [i \in 0 .. 0 |-> << >>]
    <2>1. \A i \in 0 .. 0 : Round(certs, cert, f, i) = << >>
      BY DEF Round
    <2>2. f = [i \in 0 .. 0 |-> Round(certs, cert, f, i)]
      BY <2>1
    <2> HIDE DEF f
    <2> QED BY <1>1, <1>2, <2>2 DEF Loop
  <1>3. CASE m # 0
    <2>1. m - 1 \in Nat /\ m - 1 < m /\ m \in Nat
      BY <1>1, <1>3
    <2>2. PICK f : Loop(certs, cert, m - 1, f)
      BY <1>1, <2>1
    <2> DEFINE g == [i \in 0 .. m |-> IF i = m THEN Round(certs, cert, f, m) ELSE f[i]]
    <2>3. \A i \in 0 .. m : g[i] = Round(certs, cert, g, i)
      <3> TAKE i \in 0 .. m
      <3>1. i # 0 => i - 1 \in 0 .. m /\ i - 1 # m /\ g[i - 1] = f[i - 1]
        BY <2>1
      <3>2. Round(certs, cert, g, i) = Round(certs, cert, f, i)
        BY <3>1 DEF Round
      <3>3. i # m => f[i] = Round(certs, cert, f, i)
        <4>1. i # m => i \in 0 .. m - 1
          BY <2>1
        <4> QED BY <2>2, <4>1 DEF Loop
      <3> QED BY <3>2, <3>3
    <2>4. g = [i \in 0 .. m |-> g[i]]
      OBVIOUS
    <2> HIDE DEF g
    <2>5. g = [i \in 0 .. m |-> Round(certs, cert, g, i)]
      BY <2>3, <2>4
    <2> QED BY <1>1, <2>5 DEF Loop
  <1> QED BY <1>2, <1>3

(* What is kept of the first n bindings. *)
KeptOf(S, certs, cert, n, s) ==
    /\ s \in Seq(S)
    /\ \A b : b \in ToSet(s) <=> \E i \in 1 .. n : b = certs[i] /\ b.cert # cert
    /\ Distinct(s)

LEMMA AppendKept ==
    ASSUME NEW S, NEW s \in Seq(S), NEW b \in S
    PROVE  /\ Append(s, b) \in Seq(S)
           /\ ToSet(Append(s, b)) = ToSet(s) \cup {b}
           /\ Distinct(s) /\ (\A c \in ToSet(s) : FourFields(c) # FourFields(b))
                 => Distinct(Append(s, b))
  <1> DEFINE t == Append(s, b)
  <1>1. /\ t \in Seq(S) /\ Len(t) = Len(s) + 1
        /\ \A i \in 1 .. Len(s) : t[i] = s[i]
        /\ t[Len(s) + 1] = b
    BY AppendProperties
  <1> HIDE DEF t
  <1>2. Len(s) \in Nat /\ DOMAIN s = 1 .. Len(s) /\ DOMAIN t = 1 .. (Len(s) + 1)
    BY <1>1, LenProperties
  <1>3. \A i \in DOMAIN t : (i \in DOMAIN s /\ t[i] = s[i]) \/ (i = Len(s) + 1 /\ t[i] = b)
    BY <1>1, <1>2
  <1>4. Len(s) + 1 \in DOMAIN t /\ \A i \in DOMAIN s : i \in DOMAIN t
    BY <1>2
  <1>5. ToSet(t) = ToSet(s) \cup {b}
    <2>1. ASSUME NEW x \in ToSet(t) PROVE x \in ToSet(s) \cup {b}
      BY <1>3 DEF ToSet
    <2>2. ASSUME NEW x \in ToSet(s) PROVE x \in ToSet(t)
      BY <1>1, <1>2, <1>4 DEF ToSet
    <2>3. b \in ToSet(t)
      BY <1>1, <1>4 DEF ToSet
    <2> QED BY <2>1, <2>2, <2>3
  <1>6. ASSUME Distinct(s), \A c \in ToSet(s) : FourFields(c) # FourFields(b)
        PROVE  Distinct(t)
    <2>1. \A i \in DOMAIN s : FourFields(s[i]) # FourFields(b)
      BY <1>6 DEF ToSet
    <2> SUFFICES ASSUME NEW i \in DOMAIN t, NEW j \in DOMAIN t,
                        FourFields(t[i]) = FourFields(t[j])
                 PROVE  i = j
      BY DEF Distinct
    <2>2. CASE i \in DOMAIN s /\ t[i] = s[i] /\ j \in DOMAIN s /\ t[j] = s[j]
      BY <1>6, <2>2 DEF Distinct
    <2>3. CASE i = Len(s) + 1 /\ t[i] = b /\ j \in DOMAIN s /\ t[j] = s[j]
      BY <2>1, <2>3
    <2>4. CASE i \in DOMAIN s /\ t[i] = s[i] /\ j = Len(s) + 1 /\ t[j] = b
      BY <2>1, <2>4
    <2> QED BY <1>3, <2>2, <2>3, <2>4
  <1> QED BY <1>1, <1>5, <1>6 DEF t

LEMMA WithoutKeeps ==
    ASSUME NEW S, NEW certs \in Seq(S), NEW cert, Distinct(certs)
    PROVE  /\ Without(certs, cert) \in Seq(S)
           /\ ToSet(Without(certs, cert)) = {b \in ToSet(certs) : b.cert # cert}
           /\ Distinct(Without(certs, cert))
  <1> DEFINE kept == CHOOSE f : Loop(certs, cert, Len(certs), f)
             odd == {n \in 0 .. Len(certs) : ~ KeptOf(S, certs, cert, n, kept[n])}
  <1>1. Len(certs) \in Nat /\ DOMAIN certs = 1 .. Len(certs)
        /\ \A i \in 1 .. Len(certs) : certs[i] \in S
    BY LenProperties, ElementOfSeq
  <1>2. Loop(certs, cert, Len(certs), kept)
    BY <1>1, LoopDefined
  <1>3. Without(certs, cert) = kept[Len(certs)]
    BY DEF Without, Loop, Round
  <1> HIDE DEF kept
  <1>4. \A i \in 0 .. Len(certs) : kept[i] = Round(certs, cert, kept, i)
    BY <1>2 DEF Loop
  <1>5. odd = {}
    <2> SUFFICES ASSUME odd # {} PROVE FALSE
      OBVIOUS
    <2>1. PICK n \in odd : \A m \in odd : ~ (m < n)
      <3>1. odd \subseteq Nat
        OBVIOUS
      <3> QED BY <3>1, FirstOf
    <2>2. n \in 0 .. Len(certs) /\ kept[n] = Round(certs, cert, kept, n)
      BY <1>4, <2>1
    <2>3. n # 0
      <3> SUFFICES ASSUME n = 0 PROVE FALSE
        OBVIOUS
      <3>1. kept[n] = << >>
        BY <2>2 DEF Round
      <3>2. << >> \in Seq(S) /\ ToSet(<< >>) = {} /\ Distinct(<< >>)
        BY EmptySeq DEF ToSet, Distinct
      <3>3. KeptOf(S, certs, cert, n, << >>)
        BY <3>2 DEF KeptOf
      <3> QED BY <2>1, <3>1, <3>3
    <2>4. n - 1 \in 0 .. Len(certs) /\ n - 1 < n /\ n \in 1 .. Len(certs)
      BY <1>1, <2>2, <2>3
    <2> DEFINE s == kept[n - 1]
    <2>5. KeptOf(S, certs, cert, n - 1, s)
      BY <2>1, <2>4
    <2>6. kept[n] = IF certs[n].cert = cert THEN s ELSE Append(s, certs[n])
      BY <2>2, <2>3 DEF Round
    <2> HIDE DEF s
    <2>7. 1 .. n = (1 .. (n - 1)) \cup {n}
      BY <2>4
    <2>8. CASE certs[n].cert = cert
      BY <2>1, <2>5, <2>6, <2>7, <2>8 DEF KeptOf
    <2>9. CASE certs[n].cert # cert
      <3>1. s \in Seq(S) /\ Distinct(s) /\ certs[n] \in S
        BY <1>1, <2>4, <2>5 DEF KeptOf
      <3>2. \A b \in ToSet(s) : FourFields(b) # FourFields(certs[n])
        <4> SUFFICES ASSUME NEW b \in ToSet(s) PROVE FourFields(b) # FourFields(certs[n])
          OBVIOUS
        <4>1. PICK i \in 1 .. (n - 1) : b = certs[i]
          BY <2>5 DEF KeptOf
        <4>2. i \in DOMAIN certs /\ n \in DOMAIN certs /\ i # n
          BY <1>1, <2>4
        <4> QED BY <4>1, <4>2 DEF Distinct
      <3>3. /\ Append(s, certs[n]) \in Seq(S) /\ Distinct(Append(s, certs[n]))
            /\ ToSet(Append(s, certs[n])) = ToSet(s) \cup {certs[n]}
        BY <3>1, <3>2, AppendKept
      <3>4. \A b : b \in ToSet(s) \cup {certs[n]}
                      <=> \E i \in 1 .. n : b = certs[i] /\ b.cert # cert
        BY <2>5, <2>7, <2>9 DEF KeptOf
      <3>5. KeptOf(S, certs, cert, n, Append(s, certs[n]))
        BY <3>3, <3>4 DEF KeptOf
      <3> QED BY <2>1, <2>6, <2>9, <3>5
    <2> QED BY <2>8, <2>9
  <1>6. KeptOf(S, certs, cert, Len(certs), kept[Len(certs)])
    BY <1>1, <1>5
  <1>7. \A b : b \in ToSet(certs) <=> \E i \in 1 .. Len(certs) : b = certs[i]
    BY <1>1 DEF ToSet
  <1>8. ToSet(kept[Len(certs)]) = {b \in ToSet(certs) : b.cert # cert}
    BY <1>6, <1>7 DEF KeptOf
  <1> QED BY <1>3, <1>6, <1>8 DEF KeptOf

----------------------------------------------------------------------------
(* Values, objects and leaves. *)

LEMMA Values ==
    /\ \A s, t : Text(s) = Text(t) => s = t
    /\ \A s, n : Text(s) # Number(n)
    /\ \A s, b : Text(s) # Boolean(b)
    /\ \A n, b : Number(n) # Boolean(b)
    /\ \A m, n : Number(m) = Number(n) => m = n
    /\ \A b, c : Boolean(b) = Boolean(c) => b = c
    /\ \A s : Text(s).text = s
  <1>1. \A s : Text(s).kind = "text" /\ Text(s).text = s
    BY DEF Text
  <1>2. \A n : Number(n).kind = "number" /\ Number(n).number = n
    BY DEF Number
  <1>3. \A b : Boolean(b).kind = "boolean" /\ Boolean(b).boolean = b
    BY DEF Boolean
  <1> QED BY <1>1, <1>2, <1>3

LEMMA LeafParts ==
    \A object, item, field, value :
        /\ Leaf(object, item, field, value).object = object
        /\ Leaf(object, item, field, value).item = item
        /\ Leaf(object, item, field, value).field = field
        /\ Leaf(object, item, field, value).value = value
  BY DEF Leaf

LEMMA Objects ==
    /\ ToSet(Top) = {} /\ ToSet(CertificateList) = {"certificate-list"}
    /\ ToSet(ServerNameList) = {"server-name-list"} /\ ToSet(Profiles) = {"vendor", "profiles"}
    /\ CertificateList \notin {Top, ServerNameList, Profiles}
    /\ ServerNameList \notin {Top, Profiles} /\ Profiles # Top
  <1>1. ToSet(Top) = {}
    BY DEF Top, ToSet
  <1>2. ToSet(CertificateList) = {"certificate-list"}
    BY DEF CertificateList, ToSet
  <1>3. ToSet(ServerNameList) = {"server-name-list"}
    BY DEF ServerNameList, ToSet
  <1>4. ToSet(Profiles) = {"vendor", "profiles"}
    BY DEF Profiles, ToSet
  <1>5. "certificate-list" # "server-name-list" /\ "certificate-list" \notin {"vendor", "profiles"}
        /\ "server-name-list" \notin {"vendor", "profiles"}
    OBVIOUS
  <1>6. CertificateList # Top /\ ServerNameList # Top /\ Profiles # Top
    BY <1>1, <1>2, <1>3, <1>4
  <1>7. CertificateList # ServerNameList /\ CertificateList # Profiles /\ ServerNameList # Profiles
    BY <1>2, <1>3, <1>4, <1>5
  <1> QED BY <1>1, <1>2, <1>3, <1>4, <1>6, <1>7

LEMMA GeneratedLeaves ==
    ASSUME NEW object, NEW item, NEW s, NEW l
    PROVE  l \in Generated(object, item, s)
              <=> \E field \in Metadata : l = Leaf(object, item, field, Text(s.mark))
  BY DEF Generated

LEMMA EntryLeaves ==
    ASSUME NEW object, NEW item, NEW b, NEW vendor, NEW s, NEW l
    PROVE  l \in EntryOf(object, item, b, vendor, s)
              <=> \/ l = Leaf(object, item, "cert", Text(b.cert))
                  \/ l = Leaf(object, item, "key", Text(b.key))
                  \/ \E v \in Flag(b.shared, s) : l = Leaf(object, item, "shared", v)
                  \/ /\ b.chain # NoName \/ s.flags = "number"
                     /\ l = Leaf(object, item, "chain-cert", Text(b.chain))
                  \/ vendor # NoName /\ l = Leaf(object, item, "vendor-field", Text(vendor))
                  \/ l \in Generated(object, item, s)
  BY DEF EntryOf, When

LEMMA NamingLeaves ==
    ASSUME NEW p, NEW object, NEW item, NEW fields, NEW l
    PROVE  l \in Naming(p, object, item, fields)
              <=> /\ place[p] # NoName
                  /\ \/ \E field \in fields : l = Leaf(object, item, field, Text(place[p]))
                     \/ l \in Generated(object, item, style)
  BY DEF Naming

LEMMA DocumentLeaves ==
    ASSUME NEW l
    PROVE  l \in Document
              <=> \/ l = Leaf(Top, 0, "name", Text("template"))
                  \/ l \in Generated(Top, 0, style)
                  \/ \E i \in DOMAIN list :
                        l \in EntryOf(CertificateList, i, list[i], place["entry"], style)
                  \/ l \in Naming("sni", ServerNameList, 1, {"server-cert", "server-key"})
                  \/ l \in Naming("chain", Top, 0, {"chain-cert"})
                  \/ l \in Naming("proxy", Top, 0, {"forward-proxy-ca-cert"})
                  \/ l \in Naming("vendor", Profiles, 1, {"file"})
  <1> DEFINE entries == UNION {EntryOf(CertificateList, i, list[i], place["entry"], style) :
                                  i \in DOMAIN list}
  <1>1. l \in entries
           <=> \E i \in DOMAIN list :
                  l \in EntryOf(CertificateList, i, list[i], place["entry"], style)
    OBVIOUS
  <1>2. Document = {Leaf(Top, 0, "name", Text("template"))} \cup Generated(Top, 0, style)
                      \cup entries
                      \cup Naming("sni", ServerNameList, 1, {"server-cert", "server-key"})
                      \cup Naming("chain", Top, 0, {"chain-cert"})
                      \cup Naming("proxy", Top, 0, {"forward-proxy-ca-cert"})
                      \cup Naming("vendor", Profiles, 1, {"file"})
    BY Zenon DEF Document
  <1> HIDE DEF entries
  <1> QED BY <1>1, <1>2

LEMMA GeneratedParts ==
    ASSUME NEW object, NEW item, NEW s, NEW l \in Generated(object, item, s)
    PROVE  /\ l.object = object /\ l.item = item /\ l.field \in Metadata
           /\ l.value = Text(s.mark)
  BY GeneratedLeaves, LeafParts

LEMMA NamingParts ==
    ASSUME NEW p, NEW object, NEW item, NEW fields, NEW l \in Naming(p, object, item, fields)
    PROVE  /\ l.object = object /\ l.item = item
           /\ l.field \in fields \cup Metadata
  BY NamingLeaves, LeafParts, GeneratedParts

LEMMA EntryParts ==
    ASSUME NEW object, NEW item, NEW b, NEW vendor, NEW s,
           NEW l \in EntryOf(object, item, b, vendor, s)
    PROVE  l.object = object /\ l.item = item
  BY EntryLeaves, LeafParts, GeneratedParts

(* The values a list entry has in its fields. *)
LEMMA EntryValues ==
    ASSUME NEW object, NEW item, NEW b, NEW vendor, NEW s, NEW v
    PROVE  LET values(field) == ValuesAt(EntryOf(object, item, b, vendor, s), object, item, field)
           IN  /\ v \in values("cert") <=> v = Text(b.cert)
               /\ v \in values("key") <=> v = Text(b.key)
               /\ v \in values("chain-cert")
                     <=> (b.chain # NoName \/ s.flags = "number") /\ v = Text(b.chain)
               /\ v \in values("uuid") <=> v = Text(s.mark)
               /\ v \in values("shared") <=> v \in Flag(b.shared, s)
  <1> DEFINE d == EntryOf(object, item, b, vendor, s)
  <1>1. \A field : v \in ValuesAt(d, object, item, field)
                     <=> \E l \in d : l.object = object /\ l.item = item /\ l.field = field
                                       /\ l.value = v
    BY DEF ValuesAt
  <1>2. \A field : v \in ValuesAt(d, object, item, field)
                     <=> Leaf(object, item, field, v) \in d
    <2> SUFFICES ASSUME NEW field
                 PROVE  v \in ValuesAt(d, object, item, field)
                           <=> Leaf(object, item, field, v) \in d
      OBVIOUS
    <2>1. ASSUME Leaf(object, item, field, v) \in d PROVE v \in ValuesAt(d, object, item, field)
      BY <1>1, <2>1, LeafParts
    <2>2. ASSUME NEW l \in d, l.field = field, l.value = v
          PROVE  Leaf(object, item, field, v) \in d
      <3>1. \E f, w : l = Leaf(object, item, f, w)
        BY EntryLeaves, GeneratedLeaves
      <3>2. l = Leaf(object, item, field, v)
        BY <2>2, <3>1, LeafParts
      <3> QED BY <2>2, <3>2
    <2> HIDE DEF d
    <2> QED BY <1>1, <2>1, <2>2
  <1> HIDE DEF d
  <1>3. \A f, g, x, w : Leaf(object, item, f, x) = Leaf(object, item, g, w) => f = g /\ x = w
    BY LeafParts
  <1>4. \A f, x : Leaf(object, item, f, x) \in Generated(object, item, s)
                     <=> f \in Metadata /\ x = Text(s.mark)
    BY GeneratedLeaves, <1>3
  <1>5. Metadata = {"uuid", "a10-url"}
    BY DEF Metadata
  <1>6. Leaf(object, item, "cert", v) \in d <=> v = Text(b.cert)
    BY <1>3, <1>4, <1>5, EntryLeaves DEF d
  <1>7. Leaf(object, item, "key", v) \in d <=> v = Text(b.key)
    BY <1>3, <1>4, <1>5, EntryLeaves DEF d
  <1>8. Leaf(object, item, "chain-cert", v) \in d
           <=> (b.chain # NoName \/ s.flags = "number") /\ v = Text(b.chain)
    BY <1>3, <1>4, <1>5, EntryLeaves DEF d
  <1>9. Leaf(object, item, "uuid", v) \in d <=> v = Text(s.mark)
    BY <1>3, <1>4, <1>5, EntryLeaves DEF d
  <1>10. Leaf(object, item, "shared", v) \in d <=> v \in Flag(b.shared, s)
    BY <1>3, <1>4, <1>5, EntryLeaves DEF d
  <1> QED BY <1>2, <1>6, <1>7, <1>8, <1>9, <1>10 DEF d

----------------------------------------------------------------------------
(* The certificate list is decoded as the appliance holds it. *)

Shaped == list \in Seq(Entries) /\ place \in Uses /\ style \in Styles

LEMMA ShapedTypes ==
    ASSUME Shaped
    PROVE  /\ Len(list) \in Nat /\ DOMAIN list = 1 .. Len(list)
           /\ \A i \in DOMAIN list : list[i] \in Entries /\ list[i] \in Binding
           /\ \A p \in Places : place[p] \in Named
           /\ style.mark \in Marks /\ style.flags \in {"number", "boolean", "omitted", "text"}
  <1>1. Len(list) \in Nat /\ DOMAIN list = 1 .. Len(list)
    BY LenProperties DEF Shaped
  <1>2. \A i \in DOMAIN list : list[i] \in Entries
    BY <1>1, ElementOfSeq DEF Shaped
  <1>3. \A p \in Places : place[p] \in Named
    BY UsesAssumption DEF Shaped, Named
  <1>4. style \in Style
    BY StyleAssumption DEF Shaped
  <1>5. style.mark \in Marks /\ style.flags \in {"number", "boolean", "omitted", "text"}
    BY <1>4 DEF Style
  <1> QED BY <1>1, <1>2, <1>3, <1>5, EntriesAssumption

LEMMA ListLeaves ==
    ASSUME NEW l \in Document, l.object = CertificateList
    PROVE  \E i \in DOMAIN list :
              l \in EntryOf(CertificateList, i, list[i], place["entry"], style)
  <1>1. l # Leaf(Top, 0, "name", Text("template"))
    BY LeafParts, Objects
  <1>2. l \notin Generated(Top, 0, style)
    BY GeneratedParts, Objects
  <1>3. l \notin Naming("sni", ServerNameList, 1, {"server-cert", "server-key"})
    BY NamingParts, Objects
  <1>4. l \notin Naming("chain", Top, 0, {"chain-cert"})
    BY NamingParts, Objects
  <1>5. l \notin Naming("proxy", Top, 0, {"forward-proxy-ca-cert"})
    BY NamingParts, Objects
  <1>6. l \notin Naming("vendor", Profiles, 1, {"file"})
    BY NamingParts, Objects
  <1> QED BY <1>1, <1>2, <1>3, <1>4, <1>5, <1>6, DocumentLeaves

LEMMA ListItems ==
    ASSUME Shaped
    PROVE  /\ Items(Document, CertificateList) = 1 .. Len(list)
           /\ \A i \in 1 .. Len(list) : \A field :
                 ValuesAt(Document, CertificateList, i, field) =
                    ValuesAt(EntryOf(CertificateList, i, list[i], place["entry"], style),
                             CertificateList, i, field)
  <1> DEFINE Entry(i) == EntryOf(CertificateList, i, list[i], place["entry"], style)
  <1>1. DOMAIN list = 1 .. Len(list)
    BY ShapedTypes
  <1>2. \A i \in DOMAIN list : \A l \in Entry(i) :
            l \in Document /\ l.object = CertificateList /\ l.item = i
    BY DocumentLeaves, EntryParts
  <1>3. \A l \in Document : l.object = CertificateList => \E i \in DOMAIN list : l \in Entry(i)
    BY ListLeaves
  <1>4. \A i \in DOMAIN list : Leaf(CertificateList, i, "cert", Text(list[i].cert)) \in Entry(i)
    BY EntryLeaves
  <1> HIDE DEF Entry
  <1>5. Items(Document, CertificateList) = DOMAIN list
    <2>1. ASSUME NEW i \in Items(Document, CertificateList) PROVE i \in DOMAIN list
      <3>1. PICK l \in Document : l.object = CertificateList /\ l.item = i
        BY DEF Items
      <3> QED BY <1>2, <1>3, <3>1
    <2>2. ASSUME NEW i \in DOMAIN list PROVE i \in Items(Document, CertificateList)
      BY <1>2, <1>4 DEF Items
    <2> QED BY <2>1, <2>2
  <1>6. ASSUME NEW i \in DOMAIN list, NEW field
        PROVE  ValuesAt(Document, CertificateList, i, field)
                  = ValuesAt(Entry(i), CertificateList, i, field)
    <2>1. \A l : l \in Document /\ l.object = CertificateList /\ l.item = i
                    <=> l \in Entry(i) /\ l.object = CertificateList /\ l.item = i
      BY <1>2, <1>3
    <2>2. {l \in Document : l.object = CertificateList /\ l.item = i /\ l.field = field}
             = {l \in Entry(i) : l.object = CertificateList /\ l.item = i /\ l.field = field}
      BY <2>1
    <2> QED BY <2>2 DEF ValuesAt
  <1> QED BY <1>1, <1>5, <1>6 DEF Entry

LEMMA TextOf ==
    ASSUME NEW d, NEW object, NEW item, NEW field
    PROVE  /\ \A s : (\A v : v \in ValuesAt(d, object, item, field) <=> v = Text(s))
                        => TextAt(d, object, item, field) = s
           /\ (\A v : v \notin ValuesAt(d, object, item, field))
                 => TextAt(d, object, item, field) = NoName
  <1>1. ASSUME NEW s, \A v : v \in ValuesAt(d, object, item, field) <=> v = Text(s)
        PROVE  TextAt(d, object, item, field) = s
    <2>1. ValuesAt(d, object, item, field) = {Text(s)}
      BY <1>1
    <2>2. TextsAt(d, object, item, field) = {s}
      BY <2>1, Values DEF TextsAt
    <2>3. (CHOOSE x \in {s} : TRUE) = s
      OBVIOUS
    <2> QED BY <2>2, <2>3 DEF TextAt
  <1>2. ASSUME \A v : v \notin ValuesAt(d, object, item, field)
        PROVE  TextAt(d, object, item, field) = NoName
    <2>1. TextsAt(d, object, item, field) = {}
      BY <1>2 DEF TextsAt
    <2> QED BY <2>1 DEF TextAt
  <1> QED BY <1>1, <1>2

(* A flag is read as it is set, or not at all. *)
LEMMA FlagRead ==
    ASSUME NEW b \in BOOLEAN, NEW s, s.flags \in {"number", "boolean", "omitted", "text"}
    PROVE  LET answers == AXAPIBoolean(Flag(b, s)) IN answers # {} => answers = {b}
  <1>1. CASE s.flags = "boolean"
    <2>1. Flag(b, s) = {Boolean(b)}
      BY <1>1 DEF Flag
    <2>2. \A c : Boolean(c) \in {Boolean(b)} <=> c = b
      BY Values
    <2>3. \A n : Number(n) \notin {Boolean(b)}
      BY Values
    <2> QED BY <2>1, <2>2, <2>3 DEF AXAPIBoolean
  <1>2. CASE s.flags = "text"
    <2>1. CASE b
      <3>1. Flag(b, s) = {Text("enabled")}
        BY <1>2, <2>1 DEF Flag
      <3>2. \A n : Number(n) \notin {Text("enabled")} /\ Boolean(n) \notin {Text("enabled")}
        BY Values
      <3> QED BY <3>1, <3>2 DEF AXAPIBoolean
    <2>2. CASE ~ b
      <3>1. Flag(b, s) = {}
        BY <1>2, <2>2 DEF Flag
      <3> QED BY <2>2, <3>1 DEF AXAPIBoolean
    <2> QED BY <2>1, <2>2
  <1>3. CASE s.flags \in {"number", "omitted"}
    <2>1. CASE b \/ s.flags = "number"
      <3>1. Flag(b, s) = {Number(IF b THEN 1 ELSE 0)}
        BY <1>3, <2>1 DEF Flag
      <3>2. \A c \in BOOLEAN : Number(IF c THEN 1 ELSE 0) \in {Number(IF b THEN 1 ELSE 0)} <=> c = b
        BY Values
      <3>3. \A c : Boolean(c) \notin {Number(IF b THEN 1 ELSE 0)}
        BY Values
      <3> QED BY <3>1, <3>2, <3>3 DEF AXAPIBoolean
    <2>2. CASE ~ (b \/ s.flags = "number")
      <3>1. Flag(b, s) = {}
        BY <1>3, <2>2 DEF Flag
      <3> QED BY <2>2, <3>1 DEF AXAPIBoolean
    <2> QED BY <2>1, <2>2
  <1> QED BY <1>1, <1>2, <1>3

LEMMA OnlyAnswer ==
    ASSUME NEW b \in BOOLEAN
    PROVE  (TRUE \in {b}) = b
  <1>1. CASE b = TRUE
    BY <1>1
  <1>2. CASE b = FALSE
    <2>1. TRUE \notin {FALSE}
      OBVIOUS
    <2>2. (TRUE \in {FALSE}) = FALSE
      BY <2>1
    <2> QED BY <1>2, <2>2
  <1> QED BY <1>1, <1>2

LEMMA DecodedEntry ==
    ASSUME Shaped, NEW i \in 1 .. Len(list)
    PROVE  LET d == DecodedBinding(Document, i) IN
           /\ d \in [cert : Names, key : Names, chain : Named, shared : BOOLEAN,
                     uuid : Marks \cup {NoName}]
           /\ SharedAt(Document, i) # {} => FourFields(d) = list[i]
  <1> DEFINE b == list[i]
             values(field) == ValuesAt(Document, CertificateList, i, field)
  <1>1. b \in Binding /\ style.mark \in Marks
        /\ style.flags \in {"number", "boolean", "omitted", "text"}
    BY ShapedTypes
  <1>2. /\ b = [cert |-> b.cert, key |-> b.key, chain |-> b.chain, shared |-> b.shared]
        /\ b.cert \in Names /\ b.key \in Names /\ b.chain \in Named /\ b.shared \in BOOLEAN
    BY <1>1 DEF Binding, Named
  <1>3. \A v : /\ v \in values("cert") <=> v = Text(b.cert)
               /\ v \in values("key") <=> v = Text(b.key)
               /\ v \in values("chain-cert")
                     <=> (b.chain # NoName \/ style.flags = "number") /\ v = Text(b.chain)
               /\ v \in values("uuid") <=> v = Text(style.mark)
               /\ v \in values("shared") <=> v \in Flag(b.shared, style)
    BY ListItems, EntryValues
  <1> HIDE DEF b
  <1>4. TextAt(Document, CertificateList, i, "cert") = b.cert
    BY <1>3, TextOf
  <1>5. TextAt(Document, CertificateList, i, "key") = b.key
    BY <1>3, TextOf
  <1>6. TextAt(Document, CertificateList, i, "chain-cert") = b.chain
    <2>1. CASE b.chain # NoName \/ style.flags = "number"
      BY <1>3, <2>1, TextOf
    <2>2. CASE ~ (b.chain # NoName \/ style.flags = "number")
      BY <1>3, <2>2, TextOf
    <2> QED BY <2>1, <2>2
  <1>7. TextAt(Document, CertificateList, i, "uuid") = style.mark
    BY <1>3, TextOf
  <1>8. SharedAt(Document, i) = AXAPIBoolean(Flag(b.shared, style))
    <2>1. values("shared") = Flag(b.shared, style)
      BY <1>3
    <2> QED BY <2>1 DEF SharedAt
  <1> DEFINE flag == TRUE \in SharedAt(Document, i)
  <1>9. SharedAt(Document, i) # {} => flag = b.shared
    <2>1. SharedAt(Document, i) # {} => SharedAt(Document, i) = {b.shared}
      BY <1>1, <1>2, <1>8, FlagRead
    <2>2. (TRUE \in {b.shared}) = b.shared
      BY <1>2, OnlyAnswer
    <2> QED BY <2>1, <2>2
  <1>10. flag \in BOOLEAN
    OBVIOUS
  <1>11. DecodedBinding(Document, i)
            = [cert |-> b.cert, key |-> b.key, chain |-> b.chain, shared |-> flag,
               uuid |-> style.mark]
    BY <1>4, <1>5, <1>6, <1>7 DEF DecodedBinding
  <1> HIDE DEF flag
  <1>12. SharedAt(Document, i) # {} => FourFields(DecodedBinding(Document, i)) = b
    <2>1. FourFields(DecodedBinding(Document, i))
             = [cert |-> b.cert, key |-> b.key, chain |-> b.chain, shared |-> flag]
      <3>1. FourFields([cert |-> b.cert, key |-> b.key, chain |-> b.chain, shared |-> flag,
                        uuid |-> style.mark])
               = [cert |-> b.cert, key |-> b.key, chain |-> b.chain, shared |-> flag]
        BY DEF FourFields
      <3> QED BY <1>11, <3>1, Zenon
    <2> QED BY <1>2, <1>9, <2>1
  <1>13. DecodedBinding(Document, i)
            \in [cert : Names, key : Names, chain : Named, shared : BOOLEAN, uuid : Marks \cup {NoName}]
    BY <1>1, <1>2, <1>10, <1>11
  <1> QED BY <1>12, <1>13 DEF b

----------------------------------------------------------------------------
Injective(s) == \A i, j \in DOMAIN s : s[i] = s[j] => i = j

KnownBinding ==
    [cert : Names, key : Names, chain : Named, shared : BOOLEAN, uuid : Marks \cup {NoName}]

LEMMA DecodedList ==
    ASSUME Shaped
    PROVE  LET certs == Decoded(Document).certs IN
           /\ certs \in Seq(KnownBinding)
           /\ Decodable(Document) => {FourFields(d) : d \in ToSet(certs)} = ToSet(list)
           /\ Decodable(Document) /\ Injective(list) => Distinct(certs)
  <1> DEFINE certs == Decoded(Document).certs
  <1>1. Len(list) \in Nat /\ DOMAIN list = 1 .. Len(list)
    BY ShapedTypes
  <1>2. certs = [i \in 1 .. Len(list) |-> DecodedBinding(Document, i)]
    BY ListItems DEF Decoded
  <1> HIDE DEF certs
  <1>3. \A i \in 1 .. Len(list) : DecodedBinding(Document, i) \in KnownBinding
    BY DecodedEntry DEF KnownBinding
  <1>4. certs \in [1 .. Len(list) -> KnownBinding]
    BY <1>2, <1>3
  <1>5. certs \in Seq(KnownBinding) /\ DOMAIN certs = 1 .. Len(list)
    BY <1>1, <1>4, FunctionIsSeq
  <1>6. ASSUME Decodable(Document), NEW i \in 1 .. Len(list)
        PROVE  FourFields(certs[i]) = list[i]
    <2>1. SharedAt(Document, i) # {}
      BY <1>6, ListItems DEF Decodable
    <2> QED BY <1>2, <2>1, DecodedEntry
  <1>7. ASSUME Decodable(Document) PROVE {FourFields(d) : d \in ToSet(certs)} = ToSet(list)
    <2>1. ASSUME NEW d \in ToSet(certs) PROVE FourFields(d) \in ToSet(list)
      <3>1. PICK i \in 1 .. Len(list) : d = certs[i]
        BY <1>5 DEF ToSet
      <3> QED BY <1>1, <1>6, <1>7, <3>1 DEF ToSet
    <2>2. ASSUME NEW b \in ToSet(list) PROVE b \in {FourFields(d) : d \in ToSet(certs)}
      <3>1. PICK i \in 1 .. Len(list) : b = list[i]
        BY <1>1 DEF ToSet
      <3>2. certs[i] \in ToSet(certs) /\ FourFields(certs[i]) = b
        BY <1>5, <1>6, <1>7, <3>1 DEF ToSet
      <3> QED BY <3>2
    <2> QED BY <2>1, <2>2
  <1>8. ASSUME Decodable(Document), Injective(list) PROVE Distinct(certs)
    BY <1>1, <1>5, <1>6, <1>8 DEF Distinct, Injective
  <1> QED BY <1>5, <1>7, <1>8 DEF certs

----------------------------------------------------------------------------
(* Without its list and its generated fields, a response is the leaves     *)
(* that name files elsewhere.                                              *)

PlainNaming(u, p, object, item, fields) ==
    IF u[p] = NoName THEN {} ELSE {Leaf(object, item, field, Text(u[p])) : field \in fields}

Known(u) ==
    {Leaf(Top, 0, "name", Text("template"))}
        \cup PlainNaming(u, "sni", ServerNameList, 1, {"server-cert", "server-key"})
        \cup PlainNaming(u, "chain", Top, 0, {"chain-cert"})
        \cup PlainNaming(u, "proxy", Top, 0, {"forward-proxy-ca-cert"})
        \cup PlainNaming(u, "vendor", Profiles, 1, {"file"})

Rest(t) == WithoutMetadata({l \in t.payload : "certificate-list" \notin ToSet(l.object)})

LEMMA RestLeaves ==
    ASSUME NEW t, NEW l
    PROVE  l \in Rest(t)
              <=> /\ l \in t.payload /\ "certificate-list" \notin ToSet(l.object)
                  /\ l.field \notin Metadata /\ ToSet(l.object) \cap Metadata = {}
  BY DEF Rest, WithoutMetadata

LEMMA PlainObjects ==
    /\ \A object \in {Top, ServerNameList, Profiles} :
          "certificate-list" \notin ToSet(object) /\ ToSet(object) \cap Metadata = {}
    /\ "certificate-list" \in ToSet(CertificateList)
    /\ \A field \in {"name", "server-cert", "server-key", "chain-cert", "forward-proxy-ca-cert",
                     "file"} : field \notin Metadata
  BY Objects DEF Metadata

LEMMA NamingRest ==
    ASSUME NEW p, NEW object \in {Top, ServerNameList, Profiles}, NEW item, NEW fields,
           \A field \in fields : field \notin Metadata, NEW l
    PROVE  /\ l \in Naming(p, object, item, fields) /\ l.field \notin Metadata
                 <=> l \in PlainNaming(place, p, object, item, fields)
           /\ l \in PlainNaming(place, p, object, item, fields)
                 => l.object = object
  <1>1. l \in PlainNaming(place, p, object, item, fields)
           <=> place[p] # NoName /\ \E field \in fields : l = Leaf(object, item, field, Text(place[p]))
    BY DEF PlainNaming
  <1>2. l \in Naming(p, object, item, fields)
           <=> /\ place[p] # NoName
               /\ \/ \E field \in fields : l = Leaf(object, item, field, Text(place[p]))
                  \/ l \in Generated(object, item, style)
    BY NamingLeaves
  <1>3. (\E field \in fields : l = Leaf(object, item, field, Text(place[p])))
           => l.object = object /\ l.field \notin Metadata
    BY LeafParts
  <1>4. l \in Generated(object, item, style) => l.field \in Metadata
    BY GeneratedParts
  <1> QED BY <1>1, <1>2, <1>3, <1>4

LEMMA DocumentRest == Rest(Decoded(Document)) = Known(place)
  <1>1. Decoded(Document).payload = Document
    BY DEF Decoded
  <1> SUFFICES ASSUME NEW l PROVE l \in Rest(Decoded(Document)) <=> l \in Known(place)
    <2>1. \A l : l \in Rest(Decoded(Document)) => l \in Document
      BY <1>1, RestLeaves
    <2> HIDE DEF Rest
    <2> QED OBVIOUS
  <1> DEFINE Plain == "certificate-list" \notin ToSet(l.object) /\ ToSet(l.object) \cap Metadata = {}
  <1>2. l \in Rest(Decoded(Document)) <=> l \in Document /\ Plain /\ l.field \notin Metadata
    BY <1>1, RestLeaves
  <1>3. l.object \in {Top, ServerNameList, Profiles} => Plain
    BY PlainObjects
  <1>4. l = Leaf(Top, 0, "name", Text("template")) => Plain /\ l.field \notin Metadata
    BY <1>3, LeafParts, PlainObjects
  <1>5. l \in Generated(Top, 0, style) => l.field \in Metadata
    BY GeneratedParts
  <1>6. \A i : l \in EntryOf(CertificateList, i, list[i], place["entry"], style) => ~ Plain
    BY EntryParts, PlainObjects
  <1>7. /\ l \in Naming("sni", ServerNameList, 1, {"server-cert", "server-key"})
                 /\ l.field \notin Metadata
              <=> l \in PlainNaming(place, "sni", ServerNameList, 1, {"server-cert", "server-key"})
        /\ l \in PlainNaming(place, "sni", ServerNameList, 1, {"server-cert", "server-key"})
              => l.object = ServerNameList
    BY NamingRest, PlainObjects
  <1>8. /\ l \in Naming("chain", Top, 0, {"chain-cert"}) /\ l.field \notin Metadata
              <=> l \in PlainNaming(place, "chain", Top, 0, {"chain-cert"})
        /\ l \in PlainNaming(place, "chain", Top, 0, {"chain-cert"}) => l.object = Top
    <2>1. \A field \in {"chain-cert"} : field \notin Metadata
      BY PlainObjects
    <2> QED BY <2>1, NamingRest
  <1>9. /\ l \in Naming("proxy", Top, 0, {"forward-proxy-ca-cert"}) /\ l.field \notin Metadata
              <=> l \in PlainNaming(place, "proxy", Top, 0, {"forward-proxy-ca-cert"})
        /\ l \in PlainNaming(place, "proxy", Top, 0, {"forward-proxy-ca-cert"}) => l.object = Top
    <2>1. \A field \in {"forward-proxy-ca-cert"} : field \notin Metadata
      BY PlainObjects
    <2> QED BY <2>1, NamingRest
  <1>10. /\ l \in Naming("vendor", Profiles, 1, {"file"}) /\ l.field \notin Metadata
               <=> l \in PlainNaming(place, "vendor", Profiles, 1, {"file"})
         /\ l \in PlainNaming(place, "vendor", Profiles, 1, {"file"}) => l.object = Profiles
    BY NamingRest, PlainObjects
  <1>11. l \in Known(place)
            <=> \/ l = Leaf(Top, 0, "name", Text("template"))
                \/ l \in PlainNaming(place, "sni", ServerNameList, 1, {"server-cert", "server-key"})
                \/ l \in PlainNaming(place, "chain", Top, 0, {"chain-cert"})
                \/ l \in PlainNaming(place, "proxy", Top, 0, {"forward-proxy-ca-cert"})
                \/ l \in PlainNaming(place, "vendor", Profiles, 1, {"file"})
    BY DEF Known
  <1>12. l \in Document
            <=> \/ l = Leaf(Top, 0, "name", Text("template"))
                \/ l \in Generated(Top, 0, style)
                \/ \E i \in DOMAIN list :
                      l \in EntryOf(CertificateList, i, list[i], place["entry"], style)
                \/ l \in Naming("sni", ServerNameList, 1, {"server-cert", "server-key"})
                \/ l \in Naming("chain", Top, 0, {"chain-cert"})
                \/ l \in Naming("proxy", Top, 0, {"forward-proxy-ca-cert"})
                \/ l \in Naming("vendor", Profiles, 1, {"file"})
    BY DocumentLeaves
  <1> HIDE DEF Plain
  <1> QED BY <1>2, <1>3, <1>4, <1>5, <1>6, <1>7, <1>8, <1>9, <1>10, <1>11, <1>12, Zenon

(* These leaves tell which files are named where. *)
LEMMA KnownNames ==
    ASSUME NEW u, NEW n
    PROVE  /\ Leaf(ServerNameList, 1, "server-cert", Text(n)) \in Known(u)
                 <=> u["sni"] # NoName /\ n = u["sni"]
           /\ Leaf(Top, 0, "chain-cert", Text(n)) \in Known(u)
                 <=> u["chain"] # NoName /\ n = u["chain"]
           /\ Leaf(Top, 0, "forward-proxy-ca-cert", Text(n)) \in Known(u)
                 <=> u["proxy"] # NoName /\ n = u["proxy"]
           /\ Leaf(Profiles, 1, "file", Text(n)) \in Known(u)
                 <=> u["vendor"] # NoName /\ n = u["vendor"]
  <1>1. \A p, object, item, fields, o, i, f :
           Leaf(o, i, f, Text(n)) \in PlainNaming(u, p, object, item, fields)
              <=> u[p] # NoName /\ o = object /\ i = item /\ f \in fields /\ n = u[p]
    <2> SUFFICES ASSUME NEW p, NEW object, NEW item, NEW fields, NEW o, NEW i, NEW f
                 PROVE  Leaf(o, i, f, Text(n)) \in PlainNaming(u, p, object, item, fields)
                           <=> u[p] # NoName /\ o = object /\ i = item /\ f \in fields /\ n = u[p]
      OBVIOUS
    <2>1. Leaf(o, i, f, Text(n)) \in PlainNaming(u, p, object, item, fields)
             <=> /\ u[p] # NoName
                 /\ \E g \in fields : Leaf(o, i, f, Text(n)) = Leaf(object, item, g, Text(u[p]))
      BY DEF PlainNaming
    <2>2. \A g : Leaf(o, i, f, Text(n)) = Leaf(object, item, g, Text(u[p]))
                   <=> o = object /\ i = item /\ f = g /\ n = u[p]
      BY LeafParts, Values
    <2> QED BY <2>1, <2>2
  <1>2. \A o, i, f : Leaf(o, i, f, Text(n)) = Leaf(Top, 0, "name", Text("template")) => f = "name"
    BY LeafParts
  <1>3. \A l : l \in Known(u)
                  <=> \/ l = Leaf(Top, 0, "name", Text("template"))
                      \/ l \in PlainNaming(u, "sni", ServerNameList, 1, {"server-cert", "server-key"})
                      \/ l \in PlainNaming(u, "chain", Top, 0, {"chain-cert"})
                      \/ l \in PlainNaming(u, "proxy", Top, 0, {"forward-proxy-ca-cert"})
                      \/ l \in PlainNaming(u, "vendor", Profiles, 1, {"file"})
    BY DEF Known
  <1>4. ServerNameList # Top /\ Profiles # Top /\ ServerNameList # Profiles
    BY Objects
  <1>5. Leaf(ServerNameList, 1, "server-cert", Text(n)) \in Known(u)
           <=> u["sni"] # NoName /\ n = u["sni"]
    BY <1>1, <1>2, <1>3, <1>4
  <1>6. Leaf(Top, 0, "chain-cert", Text(n)) \in Known(u)
           <=> u["chain"] # NoName /\ n = u["chain"]
    BY <1>1, <1>2, <1>3, <1>4
  <1>7. Leaf(Top, 0, "forward-proxy-ca-cert", Text(n)) \in Known(u)
           <=> u["proxy"] # NoName /\ n = u["proxy"]
    BY <1>1, <1>2, <1>3, <1>4
  <1>8. Leaf(Profiles, 1, "file", Text(n)) \in Known(u)
           <=> u["vendor"] # NoName /\ n = u["vendor"]
    BY <1>1, <1>2, <1>3, <1>4
  <1> QED BY <1>5, <1>6, <1>7, <1>8

LEMMA KnownUses ==
    ASSUME NEW u \in Uses, NEW w \in Uses
    PROVE  Known(u) = Known(w)
              <=> [p \in Places \ {"entry", "server"} |-> u[p]]
                     = [p \in Places \ {"entry", "server"} |-> w[p]]
  <1>1. Places \ {"entry", "server"} = {"sni", "chain", "proxy", "vendor"}
    BY DEF Places
  <1>2. ASSUME Known(u) = Known(w)
        PROVE  /\ u["sni"] = w["sni"] /\ u["chain"] = w["chain"]
               /\ u["proxy"] = w["proxy"] /\ u["vendor"] = w["vendor"]
    <2> HIDE DEF Known
    <2>1. u["sni"] = w["sni"]
      BY <1>2, KnownNames
    <2>2. u["chain"] = w["chain"]
      BY <1>2, KnownNames
    <2>3. u["proxy"] = w["proxy"]
      BY <1>2, KnownNames
    <2>4. u["vendor"] = w["vendor"]
      BY <1>2, KnownNames
    <2> QED BY <2>1, <2>2, <2>3, <2>4
  <1>3. ASSUME u["sni"] = w["sni"], u["chain"] = w["chain"],
               u["proxy"] = w["proxy"], u["vendor"] = w["vendor"]
        PROVE  Known(u) = Known(w)
    BY <1>3 DEF Known, PlainNaming
  <1>4. [p \in Places \ {"entry", "server"} |-> u[p]] = [p \in Places \ {"entry", "server"} |-> w[p]]
           <=> /\ u["sni"] = w["sni"] /\ u["chain"] = w["chain"]
               /\ u["proxy"] = w["proxy"] /\ u["vendor"] = w["vendor"]
    BY <1>1
  <1> QED BY <1>2, <1>3, <1>4

----------------------------------------------------------------------------
(* What is read has the type of a decoded template. *)

LeafValues ==
    [kind : {"text"}, text : Named \cup Marks \cup {"template", "enabled"}]
        \cup [kind : {"number"}, number : {0, 1}] \cup [kind : {"boolean"}, boolean : BOOLEAN]

LEMMA LeafTyped ==
    ASSUME NEW object \in {Top, CertificateList, ServerNameList, Profiles}, NEW item \in Nat,
           NEW field \in Fields, NEW value \in LeafValues
    PROVE  Leaf(object, item, field, value) \in Leaves
  BY DEF Leaf, Leaves, LeafValues

LEMMA ValuesTyped ==
    /\ \A s \in Named \cup Marks \cup {"template", "enabled"} : Text(s) \in LeafValues
    /\ \A b \in BOOLEAN : \A s : Flag(b, s) \subseteq LeafValues
  <1>1. \A s \in Named \cup Marks \cup {"template", "enabled"} : Text(s) \in LeafValues
    BY DEF Text, LeafValues
  <1>2. \A b \in BOOLEAN : Boolean(b) \in LeafValues
    BY DEF Boolean, LeafValues
  <1>3. \A n \in {0, 1} : Number(n) \in LeafValues
    BY DEF Number, LeafValues
  <1>4. ASSUME NEW b \in BOOLEAN, NEW s PROVE Flag(b, s) \subseteq LeafValues
    <2>1. Flag(b, s) \subseteq {Boolean(b), Text("enabled"), Number(IF b THEN 1 ELSE 0)}
      BY DEF Flag
    <2>2. (IF b THEN 1 ELSE 0) \in {0, 1}
      OBVIOUS
    <2> QED BY <1>1, <1>2, <1>3, <2>1, <2>2
  <1> QED BY <1>1, <1>4

LEMMA GeneratedTyped ==
    ASSUME Shaped, NEW object \in {Top, CertificateList, ServerNameList, Profiles}, NEW item \in Nat
    PROVE  Generated(object, item, style) \subseteq Leaves
  <1>1. Text(style.mark) \in LeafValues
    BY ShapedTypes, ValuesTyped
  <1>2. \A field \in Metadata : field \in Fields
    BY DEF Fields
  <1>3. \A field \in Metadata : Leaf(object, item, field, Text(style.mark)) \in Leaves
    BY <1>1, <1>2, LeafTyped
  <1> QED BY <1>3, GeneratedLeaves

LEMMA NamingTyped ==
    ASSUME Shaped, NEW p \in Places, NEW object \in {Top, ServerNameList, Profiles},
           NEW item \in Nat, NEW fields \in SUBSET Fields
    PROVE  Naming(p, object, item, fields) \subseteq Leaves
  <1>1. Text(place[p]) \in LeafValues
    BY ShapedTypes, ValuesTyped
  <1>2. \A field \in fields : Leaf(object, item, field, Text(place[p])) \in Leaves
    BY <1>1, LeafTyped
  <1>3. Generated(object, item, style) \subseteq Leaves
    BY GeneratedTyped
  <1>4. \A l \in Naming(p, object, item, fields) : l \in Leaves
    BY <1>2, <1>3, NamingLeaves
  <1> QED BY <1>4

LEMMA EntryTyped ==
    ASSUME Shaped, NEW i \in DOMAIN list
    PROVE  EntryOf(CertificateList, i, list[i], place["entry"], style) \subseteq Leaves
  <1> DEFINE b == list[i]
             vendor == place["entry"]
  <1>1. b \in Binding /\ vendor \in Named /\ i \in Nat
    BY ShapedTypes DEF Places
  <1>2. b.cert \in Named /\ b.key \in Named /\ b.chain \in Named /\ b.shared \in BOOLEAN
    BY <1>1 DEF Binding, Named
  <1> HIDE DEF b, vendor
  <1>3. /\ Text(b.cert) \in LeafValues /\ Text(b.key) \in LeafValues
        /\ Text(b.chain) \in LeafValues /\ Text(vendor) \in LeafValues
        /\ Flag(b.shared, style) \subseteq LeafValues
    BY <1>1, <1>2, ValuesTyped
  <1>4. \A field \in Fields : \A v \in LeafValues : Leaf(CertificateList, i, field, v) \in Leaves
    BY <1>1, LeafTyped
  <1>5. Generated(CertificateList, i, style) \subseteq Leaves
    BY <1>1, GeneratedTyped
  <1>6. ASSUME NEW l \in EntryOf(CertificateList, i, b, vendor, style) PROVE l \in Leaves
    <2>1. {"cert", "key", "shared", "chain-cert", "vendor-field"} \subseteq Fields
      BY DEF Fields
    <2>2. \A field \in {"cert", "key", "shared", "chain-cert", "vendor-field"} :
             \A v \in LeafValues : Leaf(CertificateList, i, field, v) \in Leaves
      BY <1>4, <2>1
    <2>3. \A v \in Flag(b.shared, style) : Leaf(CertificateList, i, "shared", v) \in Leaves
      BY <1>3, <2>2
    <2>4. l \in Generated(CertificateList, i, style) => l \in Leaves
      BY <1>5
    <2> HIDE DEF LeafValues, Leaves
    <2> QED BY <1>3, <2>2, <2>3, <2>4, EntryLeaves
  <1> QED BY <1>6 DEF b, vendor

LEMMA DocumentTyped ==
    ASSUME Shaped
    PROVE  Document \subseteq Leaves
  <1>1. Leaf(Top, 0, "name", Text("template")) \in Leaves
    <2>1. Text("template") \in LeafValues
      BY ValuesTyped
    <2> QED BY <2>1, LeafTyped DEF Fields
  <1>2. Generated(Top, 0, style) \subseteq Leaves
    BY GeneratedTyped
  <1>3. Naming("sni", ServerNameList, 1, {"server-cert", "server-key"}) \subseteq Leaves
    BY NamingTyped DEF Places, Fields
  <1>4. Naming("chain", Top, 0, {"chain-cert"}) \subseteq Leaves
    BY NamingTyped DEF Places, Fields
  <1>5. Naming("proxy", Top, 0, {"forward-proxy-ca-cert"}) \subseteq Leaves
    BY NamingTyped DEF Places, Fields
  <1>6. Naming("vendor", Profiles, 1, {"file"}) \subseteq Leaves
    BY NamingTyped DEF Places, Fields
  <1>7. \A i \in DOMAIN list :
            EntryOf(CertificateList, i, list[i], place["entry"], style) \subseteq Leaves
    BY EntryTyped
  <1>8. \A l \in Document : l \in Leaves
    BY <1>1, <1>2, <1>3, <1>4, <1>5, <1>6, <1>7, DocumentLeaves
  <1> QED BY <1>8

LEMMA KnownLeaf ==
    ASSUME NEW u, NEW l \in Known(u)
    PROVE  \/ l.field = "name" /\ l.value = Text("template")
           \/ \E p \in {"sni", "chain", "proxy", "vendor"} :
                 u[p] # NoName /\ l.value = Text(u[p])
  <1>1. ASSUME NEW p, NEW object, NEW item, NEW fields, l \in PlainNaming(u, p, object, item, fields)
        PROVE  u[p] # NoName /\ l.value = Text(u[p])
    BY <1>1, LeafParts DEF PlainNaming
  <1>2. l = Leaf(Top, 0, "name", Text("template"))
           => l.field = "name" /\ l.value = Text("template")
    BY LeafParts
  <1>3. \/ l = Leaf(Top, 0, "name", Text("template"))
        \/ l \in PlainNaming(u, "sni", ServerNameList, 1, {"server-cert", "server-key"})
        \/ l \in PlainNaming(u, "chain", Top, 0, {"chain-cert"})
        \/ l \in PlainNaming(u, "proxy", Top, 0, {"forward-proxy-ca-cert"})
        \/ l \in PlainNaming(u, "vendor", Profiles, 1, {"file"})
    BY DEF Known
  <1> QED BY <1>1, <1>2, <1>3

LEMMA PlainLeaf ==
    ASSUME NEW l \in Document, l.object \in {Top, ServerNameList, Profiles}, l.field \notin Metadata
    PROVE  l \in Known(place)
  <1>1. l \in Rest(Decoded(Document))
    BY RestLeaves, PlainObjects DEF Decoded
  <1> QED BY <1>1, DocumentRest

LEMMA PlainText ==
    ASSUME Shaped, NEW object \in {Top, ServerNameList, Profiles}, NEW item,
           NEW field \in {"server-cert", "server-key", "chain-cert", "forward-proxy-ca-cert"}
    PROVE  TextAt(Document, object, item, field) \in Named
  <1>1. \A s \in TextsAt(Document, object, item, field) : s \in Named
    <2> SUFFICES ASSUME NEW s \in TextsAt(Document, object, item, field) PROVE s \in Named
      OBVIOUS
    <2>1. PICK l \in Document : /\ l.object = object /\ l.item = item /\ l.field = field
                                /\ s = l.value.text
      BY DEF TextsAt, ValuesAt
    <2>2. l \in Known(place)
      BY <2>1, PlainLeaf, PlainObjects
    <2>3. PICK p \in {"sni", "chain", "proxy", "vendor"} : l.value = Text(place[p])
      <3>1. l.field # "name"
        BY <2>1
      <3> QED BY <2>2, <3>1, KnownLeaf
    <2>4. p \in Places
      BY DEF Places
    <2> QED BY <2>1, <2>3, <2>4, Values, ShapedTypes
  <1>2. NoName \in Named
    BY DEF Named
  <1>3. ASSUME TextsAt(Document, object, item, field) # {}
        PROVE  (CHOOSE s \in TextsAt(Document, object, item, field) : TRUE)
                  \in TextsAt(Document, object, item, field)
    BY <1>3
  <1> QED BY <1>1, <1>2, <1>3 DEF TextAt

DecodedTemplate ==
    [certs : Seq(KnownBinding), sni : SUBSET Named, chain : Named, proxy : Named,
     payload : SUBSET Leaves]

LEMMA DecodedTyped ==
    ASSUME Shaped
    PROVE  Decoded(Document) \in DecodedTemplate
  <1> DEFINE t == Decoded(Document)
  <1>1. t.certs \in Seq(KnownBinding)
    BY DecodedList
  <1>2. t.sni \subseteq Named
    <2>1. \A i, field : field \in {"server-cert", "server-key"}
             => TextAt(Document, ServerNameList, i, field) \in Named
      BY PlainText
    <2> QED BY <2>1 DEF Decoded
  <1>3. t.chain \in Named /\ t.proxy \in Named
    BY PlainText DEF Decoded
  <1>4. t.payload \subseteq Leaves
    BY DocumentTyped DEF Decoded
  <1>5. t = [certs |-> t.certs, sni |-> t.sni, chain |-> t.chain, proxy |-> t.proxy,
             payload |-> t.payload]
    BY DEF Decoded
  <1> HIDE DEF t
  <1>6. t \in DecodedTemplate
    BY <1>1, <1>2, <1>3, <1>4, <1>5 DEF DecodedTemplate
  <1> QED BY <1>6 DEF t

----------------------------------------------------------------------------
(* What the library expects stands for the configuration the model         *)
(* remembers of it.                                                        *)

StandsFor(t, c) ==
    /\ Distinct(t.certs)
    /\ {FourFields(d) : d \in ToSet(t.certs)} = c.certs
    /\ Rest(t) = Known(c.place)

Believed == [certs : SUBSET Entries, place : Uses]

DocInv == TypeOK /\ Injective(list) /\ StandsFor(expected, believed)

LEMMA TypeParts ==
    TypeOK <=> Shaped /\ believed \in Believed /\ expected \in DecodedTemplate
  BY DEF TypeOK, Shaped, Believed, DecodedTemplate, KnownBinding

LEMMA ReadStandsFor ==
    ASSUME Shaped, Injective(list), Decodable(Document)
    PROVE  /\ Decoded(Document) \in DecodedTemplate /\ Configuration \in Believed
           /\ StandsFor(Decoded(Document), Configuration)
  <1>1. Configuration \in Believed
    <2>1. ToSet(list) \subseteq Entries
      BY FiniteRange DEF Shaped
    <2> QED BY <2>1 DEF Shaped, Believed, Configuration
  <1>2. Configuration.certs = ToSet(list) /\ Configuration.place = place
    BY DEF Configuration
  <1>3. StandsFor(Decoded(Document), Configuration)
    BY <1>2, DecodedList, DocumentRest DEF StandsFor
  <1> QED BY <1>1, <1>3, DecodedTyped

LEMMA EntryBinding ==
    ASSUME NEW b \in Entries
    PROVE  /\ FourFields(b) = b /\ Wanted(b) \in KnownBinding /\ FourFields(Wanted(b)) = b
           /\ Wanted(b).cert = b.cert
  <1>1. b \in Binding
    BY EntriesAssumption
  <1>2. FourFields(b) = b
    BY <1>1 DEF Binding, FourFields
  <1>3. Wanted(b) \in KnownBinding
    BY <1>1 DEF Binding, Wanted, KnownBinding, Named
  <1>4. FourFields(Wanted(b)) = b
    BY <1>1 DEF Binding, FourFields, Wanted
  <1>5. Wanted(b).cert = b.cert
    BY DEF Wanted
  <1> QED BY <1>2, <1>3, <1>4, <1>5

(* Replacing the certificate list of a decoded template. *)
LEMMA NewList ==
    ASSUME NEW t \in DecodedTemplate, NEW s \in Seq(KnownBinding)
    PROVE  /\ [t EXCEPT !.certs = s] \in DecodedTemplate
           /\ [t EXCEPT !.certs = s].certs = s
           /\ Rest([t EXCEPT !.certs = s]) = Rest(t)
  <1>1. [t EXCEPT !.certs = s] \in DecodedTemplate /\ [t EXCEPT !.certs = s].certs = s
    BY DEF DecodedTemplate
  <1>2. [t EXCEPT !.certs = s].payload = t.payload
    BY DEF DecodedTemplate
  <1> QED BY <1>1, <1>2 DEF Rest

LEMMA WithBindingStandsFor ==
    ASSUME NEW t \in DecodedTemplate, NEW c \in Believed, StandsFor(t, c), NEW b \in Entries
    PROVE  /\ TemplateWithBinding(t, b) \in DecodedTemplate /\ WithBinding(c, b) \in Believed
           /\ StandsFor(TemplateWithBinding(t, b), WithBinding(c, b))
  <1>1. /\ WithBinding(c, b) \in Believed /\ WithBinding(c, b).certs = c.certs \cup {b}
        /\ WithBinding(c, b).place = c.place
    BY DEF Believed, WithBinding
  <1>2. t.certs \in Seq(KnownBinding)
    BY DEF DecodedTemplate
  <1>3. CASE \E i \in DOMAIN t.certs : SameBinding(t.certs[i], b)
    <2>1. TemplateWithBinding(t, b) = t
      BY <1>3 DEF TemplateWithBinding
    <2>2. b \in {FourFields(d) : d \in ToSet(t.certs)}
      BY <1>3, EntryBinding DEF SameBinding, ToSet
    <2>3. c.certs \cup {b} = c.certs
      BY <2>2 DEF StandsFor
    <2> QED BY <1>1, <2>1, <2>3 DEF StandsFor
  <1>4. CASE ~ \E i \in DOMAIN t.certs : SameBinding(t.certs[i], b)
    <2> DEFINE s == Append(t.certs, Wanted(b))
    <2>1. TemplateWithBinding(t, b) = [t EXCEPT !.certs = s]
      BY <1>4 DEF TemplateWithBinding
    <2>2. \A d \in ToSet(t.certs) : FourFields(d) # FourFields(Wanted(b))
      BY <1>4, EntryBinding DEF SameBinding, ToSet
    <2>3. s \in Seq(KnownBinding) /\ ToSet(s) = ToSet(t.certs) \cup {Wanted(b)} /\ Distinct(s)
      BY <1>2, <2>2, EntryBinding, AppendKept DEF StandsFor
    <2> HIDE DEF s
    <2>4. {FourFields(d) : d \in ToSet(s)} = {FourFields(d) : d \in ToSet(t.certs)} \cup {b}
      BY <2>3, EntryBinding
    <2>5. /\ [t EXCEPT !.certs = s] \in DecodedTemplate /\ [t EXCEPT !.certs = s].certs = s
          /\ Rest([t EXCEPT !.certs = s]) = Rest(t)
      BY <2>3, NewList
    <2> QED BY <1>1, <2>1, <2>3, <2>4, <2>5 DEF StandsFor
  <1> QED BY <1>3, <1>4

LEMMA WithoutStandsFor ==
    ASSUME NEW t \in DecodedTemplate, NEW c \in Believed, StandsFor(t, c), NEW cert
    PROVE  /\ TemplateWithoutCertificate(t, cert) \in DecodedTemplate
           /\ WithoutCertificate(c, cert) \in Believed
           /\ StandsFor(TemplateWithoutCertificate(t, cert), WithoutCertificate(c, cert))
  <1>1. /\ WithoutCertificate(c, cert) \in Believed
        /\ WithoutCertificate(c, cert).certs = {b \in c.certs : b.cert # cert}
        /\ WithoutCertificate(c, cert).place = c.place
    BY DEF Believed, WithoutCertificate
  <1>2. t.certs \in Seq(KnownBinding)
    BY DEF DecodedTemplate
  <1> DEFINE s == Without(t.certs, cert)
  <1>3. /\ s \in Seq(KnownBinding) /\ ToSet(s) = {d \in ToSet(t.certs) : d.cert # cert}
        /\ Distinct(s)
    BY <1>2, WithoutKeeps DEF StandsFor
  <1>4. TemplateWithoutCertificate(t, cert) = [t EXCEPT !.certs = s]
    BY DEF TemplateWithoutCertificate
  <1> HIDE DEF s
  <1>5. \A d : FourFields(d).cert = d.cert
    BY DEF FourFields
  <1>6. {FourFields(d) : d \in ToSet(s)} = {b \in c.certs : b.cert # cert}
    <2>1. {FourFields(d) : d \in ToSet(t.certs)} = c.certs
      BY DEF StandsFor
    <2>2. ASSUME NEW d \in ToSet(s) PROVE FourFields(d) \in {b \in c.certs : b.cert # cert}
      BY <1>3, <1>5, <2>1
    <2>3. ASSUME NEW b \in c.certs, b.cert # cert PROVE b \in {FourFields(d) : d \in ToSet(s)}
      <3>1. PICK d \in ToSet(t.certs) : b = FourFields(d)
        BY <2>1
      <3>2. d \in ToSet(s)
        BY <1>3, <1>5, <2>3, <3>1
      <3> QED BY <3>1, <3>2
    <2> QED BY <2>2, <2>3
  <1>7. /\ [t EXCEPT !.certs = s] \in DecodedTemplate /\ [t EXCEPT !.certs = s].certs = s
        /\ Rest([t EXCEPT !.certs = s]) = Rest(t)
    BY <1>3, NewList
  <1> QED BY <1>1, <1>3, <1>4, <1>6, <1>7 DEF StandsFor

----------------------------------------------------------------------------
(* The steps. *)

LEMMA SingleList ==
    ASSUME NEW b \in Entries
    PROVE  <<b>> \in Seq(Entries) /\ Injective(<<b>>)
  BY DEF Injective

LEMMA FlagReadable ==
    ASSUME NEW b \in BOOLEAN, NEW s, s.flags \in {"number", "boolean", "omitted"}
    PROVE  AXAPIBoolean(Flag(b, s)) # {}
  <1>1. CASE s.flags = "boolean"
    <2>1. Flag(b, s) = {Boolean(b)}
      BY <1>1 DEF Flag
    <2>2. b \in {c \in BOOLEAN : \/ Boolean(c) \in {Boolean(b)}
                                 \/ Number(IF c THEN 1 ELSE 0) \in {Boolean(b)}}
      OBVIOUS
    <2>3. {Boolean(b)} # {}
      OBVIOUS
    <2> QED BY <2>1, <2>2, <2>3, Zenon DEF AXAPIBoolean
  <1>2. CASE s.flags # "boolean" /\ (b \/ s.flags = "number")
    <2> DEFINE n == Number(IF b THEN 1 ELSE 0)
    <2>1. Flag(b, s) = {n}
      BY <1>2 DEF Flag
    <2>2. Number(IF b THEN 1 ELSE 0) \in {n}
      OBVIOUS
    <2> HIDE DEF n
    <2>3. b \in {c \in BOOLEAN : Boolean(c) \in {n} \/ Number(IF c THEN 1 ELSE 0) \in {n}}
      BY <2>2
    <2>4. {n} # {}
      OBVIOUS
    <2> QED BY <2>1, <2>3, <2>4, Zenon DEF AXAPIBoolean
  <1>3. CASE s.flags # "boolean" /\ ~ (b \/ s.flags = "number")
    <2>1. Flag(b, s) = {}
      BY <1>3 DEF Flag
    <2> QED BY <2>1 DEF AXAPIBoolean
  <1> QED BY <1>1, <1>2, <1>3

LEMMA InitDocInv == Init => DocInv
  <1> SUFFICES ASSUME Init PROVE DocInv
    OBVIOUS
  <1>1. Shaped /\ Injective(list)
    BY SingleList DEF Init, Shaped
  <1>2. Decodable(Document)
    <2>1. style.flags \in {"number", "boolean", "omitted"}
      BY <1>1, ShapedTypes DEF Init
    <2> SUFFICES ASSUME NEW i \in Items(Document, CertificateList)
                 PROVE  SharedAt(Document, i) # {}
      BY DEF Decodable
    <2>2. i \in 1 .. Len(list) /\ i \in DOMAIN list
      BY <1>1, ListItems, ShapedTypes
    <2>3. list[i] \in Binding
      BY <1>1, <2>2, ShapedTypes
    <2>4. list[i].shared \in BOOLEAN
      BY <2>3 DEF Binding
    <2>5. \A v : v \in ValuesAt(Document, CertificateList, i, "shared")
                    <=> v \in Flag(list[i].shared, style)
      BY <1>1, <2>2, ListItems, EntryValues
    <2>6. ValuesAt(Document, CertificateList, i, "shared") = Flag(list[i].shared, style)
      BY <2>5
    <2> QED BY <2>1, <2>4, <2>6, FlagReadable DEF SharedAt
  <1>3. /\ Decoded(Document) \in DecodedTemplate /\ Configuration \in Believed
        /\ StandsFor(Decoded(Document), Configuration)
    BY <1>1, <1>2, ReadStandsFor
  <1> QED BY <1>1, <1>3, TypeParts DEF Init, DocInv

(* A list in any order. *)
LEMMA Reordered ==
    ASSUME TypeOK, NEW entries \in SUBSET Entries, IsFiniteSet(entries),
           list' \in Orders(entries)
    PROVE  list' \in Seq(Entries) /\ Injective(list') /\ ToSet(list') = entries
  BY OrderOf DEF Injective

LEMMA ListFinite ==
    ASSUME TypeOK
    PROVE  /\ ToSet(list) \subseteq Entries /\ IsFiniteSet(ToSet(list))
           /\ \A b : IsFiniteSet(ToSet(list) \cup {b})
           /\ \A cert : IsFiniteSet({b \in ToSet(list) : b.cert # cert})
           /\ \A cert, b : IsFiniteSet({p \in ToSet(list) : p.cert # cert} \cup {b})
  <1>1. ToSet(list) \subseteq Entries /\ IsFiniteSet(ToSet(list))
    BY FiniteRange DEF TypeOK
  <1>2. \A b : IsFiniteSet(ToSet(list) \cup {b})
    BY <1>1, FS_AddElement
  <1>3. \A cert : IsFiniteSet({b \in ToSet(list) : b.cert # cert})
    <2> SUFFICES ASSUME NEW cert PROVE IsFiniteSet({b \in ToSet(list) : b.cert # cert})
      OBVIOUS
    <2>1. {b \in ToSet(list) : b.cert # cert} \in SUBSET ToSet(list)
      OBVIOUS
    <2> QED BY <1>1, <2>1, FS_Subset
  <1>4. \A cert, b : IsFiniteSet({p \in ToSet(list) : p.cert # cert} \cup {b})
    BY <1>3, FS_AddElement
  <1> QED BY <1>1, <1>2, <1>3, <1>4

LEMMA NextDocInv == DocInv /\ [Next]_vars => DocInv'
  <1> SUFFICES ASSUME DocInv, [Next]_vars PROVE DocInv'
    OBVIOUS
  <1>0. TypeOK /\ Shaped /\ believed \in Believed /\ expected \in DecodedTemplate
        /\ Injective(list) /\ StandsFor(expected, believed)
    BY TypeParts DEF DocInv
  <1>t. Shaped' /\ believed' \in Believed /\ expected' \in DecodedTemplate => TypeOK'
    BY DEF TypeOK, Shaped, Believed, DecodedTemplate, KnownBinding
  <1>1. CASE Read
    <2>1. /\ Decoded(Document) \in DecodedTemplate /\ Configuration \in Believed
          /\ StandsFor(Decoded(Document), Configuration)
      BY <1>0, <1>1, ReadStandsFor DEF Read
    <2>2. Shaped' /\ Injective(list')
      BY <1>0, <1>1 DEF Read, Shaped
    <2>3. expected' = Decoded(Document) /\ believed' = Configuration
      BY <1>1 DEF Read
    <2> QED BY <1>t, <2>1, <2>2, <2>3 DEF DocInv
  <1>2. ASSUME NEW b \in Entries, Bind(b) PROVE DocInv'
    <2>1. place' = place /\ style' = style
      BY <1>2 DEF Bind
    <2>2. /\ TemplateWithBinding(expected, b) \in DecodedTemplate
          /\ WithBinding(believed, b) \in Believed
          /\ StandsFor(TemplateWithBinding(expected, b), WithBinding(believed, b))
      BY <1>0, WithBindingStandsFor
    <2>3. CASE /\ list' \in Orders(ToSet(list) \cup {b})
               /\ expected' = TemplateWithBinding(expected, b)
               /\ believed' = WithBinding(believed, b)
      <3>1. ToSet(list) \cup {b} \in SUBSET Entries /\ IsFiniteSet(ToSet(list) \cup {b})
        BY <1>0, ListFinite
      <3>2. list' \in Seq(Entries) /\ Injective(list')
        BY <1>0, <2>3, <3>1, Reordered
      <3>3. Shaped'
        BY <1>0, <2>1, <3>2 DEF Shaped
      <3> QED BY <1>t, <2>2, <2>3, <3>2, <3>3 DEF DocInv
    <2>4. CASE /\ list' = <<b>>
               /\ expected' = TemplateWithoutCertificate(TemplateWithBinding(expected, b),
                                                         list[1].cert)
               /\ believed' = WithoutCertificate(WithBinding(believed, b), list[1].cert)
      <3>1. expected' \in DecodedTemplate /\ believed' \in Believed
            /\ StandsFor(expected', believed')
        BY <2>2, <2>4, WithoutStandsFor
      <3>2. list' \in Seq(Entries) /\ Injective(list')
        BY <2>4, SingleList
      <3>3. Shaped'
        BY <1>0, <2>1, <3>2 DEF Shaped
      <3> QED BY <1>t, <3>1, <3>2, <3>3 DEF DocInv
    <2> QED BY <1>2, <2>3, <2>4 DEF Bind
  <1>3. ASSUME NEW cert \in Names, Unbind(cert) PROVE DocInv'
    <2>1. /\ place' = place /\ style' = style
          /\ list' \in Orders({b \in ToSet(list) : b.cert # cert})
          /\ expected' = TemplateWithoutCertificate(expected, cert)
          /\ believed' = WithoutCertificate(believed, cert)
      BY <1>3 DEF Unbind
    <2>2. expected' \in DecodedTemplate /\ believed' \in Believed
          /\ StandsFor(expected', believed')
      BY <1>0, <2>1, WithoutStandsFor
    <2>3. /\ {b \in ToSet(list) : b.cert # cert} \in SUBSET Entries
          /\ IsFiniteSet({b \in ToSet(list) : b.cert # cert})
      BY <1>0, ListFinite
    <2>4. list' \in Seq(Entries) /\ Injective(list')
      BY <1>0, <2>1, <2>3, Reordered
    <2>5. Shaped'
      BY <1>0, <2>1, <2>4 DEF Shaped
    <2> QED BY <1>t, <2>2, <2>4, <2>5 DEF DocInv
  <1>4. CASE Edit
    <2>1. style' = style /\ expected' = expected /\ believed' = believed
      BY <1>4 DEF Edit
    <2>2. CASE place' \in Uses /\ list' = list
      <3>1. Shaped' /\ Injective(list')
        BY <1>0, <2>1, <2>2 DEF Shaped
      <3> QED BY <1>0, <1>t, <2>1, <3>1 DEF DocInv
    <2>3. ASSUME NEW b \in Entries, place' = place,
                 list' \in Orders({p \in ToSet(list) : p.cert # b.cert} \cup {b})
          PROVE  DocInv'
      <3>1. /\ {p \in ToSet(list) : p.cert # b.cert} \cup {b} \in SUBSET Entries
            /\ IsFiniteSet({p \in ToSet(list) : p.cert # b.cert} \cup {b})
        BY <1>0, ListFinite
      <3>2. list' \in Seq(Entries) /\ Injective(list')
        BY <1>0, <2>3, <3>1, Reordered
      <3>3. Shaped'
        BY <1>0, <2>1, <2>3, <3>2 DEF Shaped
      <3> QED BY <1>0, <1>t, <2>1, <3>2, <3>3 DEF DocInv
    <2> QED BY <1>4, <2>2, <2>3 DEF Edit
  <1>5. CASE Regenerate
    <2>1. /\ style' \in Styles /\ place' = place /\ expected' = expected /\ believed' = believed
          /\ list' \in Orders(ToSet(list))
      BY <1>5 DEF Regenerate
    <2>2. ToSet(list) \in SUBSET Entries /\ IsFiniteSet(ToSet(list))
      BY <1>0, ListFinite
    <2>3. list' \in Seq(Entries) /\ Injective(list')
      BY <1>0, <2>1, <2>2, Reordered
    <2>4. Shaped'
      BY <1>0, <2>1, <2>3 DEF Shaped
    <2> QED BY <1>0, <1>t, <2>1, <2>3, <2>4 DEF DocInv
  <1>6. CASE UNCHANGED vars
    BY <1>6 DEF vars, DocInv, TypeOK, Injective, StandsFor
  <1> QED BY <1>1, <1>2, <1>3, <1>4, <1>5, <1>6 DEF Next

LEMMA DocumentInvariant == Spec => []DocInv
  BY InitDocInv, NextDocInv, PTL DEF Spec

(* The documents, the list, the configuration and the prediction keep      *)
(* their types (templates of state.go and certificates.go).                *)
THEOREM DocumentsTyped == Spec => []TypeOK
  <1>1. DocInv => TypeOK
    BY DEF DocInv
  <1> QED BY <1>1, DocumentInvariant, PTL

----------------------------------------------------------------------------
(* Revisions.                                                              *)

LEMMA SameRevision ==
    ASSUME DocInv
    PROVE  RevisionIsConfiguration
  <1> SUFFICES ASSUME Decodable(Document)
               PROVE  Revision(Decoded(Document)) = Revision(expected)
                         <=> Fingerprinted(Configuration) = Fingerprinted(believed)
    BY DEF RevisionIsConfiguration
  <1> DEFINE t == Decoded(Document)
             c == Configuration
  <1>1. Shaped /\ believed \in Believed /\ expected \in DecodedTemplate
        /\ StandsFor(expected, believed) /\ Injective(list)
    BY TypeParts DEF DocInv
  <1>2. t \in DecodedTemplate /\ c \in Believed /\ StandsFor(t, c)
    BY <1>1, ReadStandsFor
  <1> HIDE DEF t, c
  <1>3. t.certs \in Seq(KnownBinding) /\ expected.certs \in Seq(KnownBinding)
    BY <1>1, <1>2 DEF DecodedTemplate
  <1>4. SortedBindings(t.certs) = SortedBindings(expected.certs) <=> c.certs = believed.certs
    BY <1>1, <1>2, <1>3, SameBag DEF StandsFor
  <1>5. c.place \in Uses /\ believed.place \in Uses
    BY <1>1, <1>2 DEF Believed
  <1>6. Rest(t) = Rest(expected)
           <=> [p \in Places \ {"entry", "server"} |-> c.place[p]]
                  = [p \in Places \ {"entry", "server"} |-> believed.place[p]]
    BY <1>1, <1>2, <1>5, KnownUses DEF StandsFor
  <1>7. \A u : Revision(u) = [bindings |-> SortedBindings(u.certs), rest |-> Rest(u)]
    BY DEF Revision, Rest
  <1>8. Revision(t) = Revision(expected)
           <=> SortedBindings(t.certs) = SortedBindings(expected.certs) /\ Rest(t) = Rest(expected)
    BY <1>7
  <1>9. Fingerprinted(c) = Fingerprinted(believed)
           <=> /\ c.certs = believed.certs
               /\ [p \in Places \ {"entry", "server"} |-> c.place[p]]
                     = [p \in Places \ {"entry", "server"} |-> believed.place[p]]
    BY DEF Fingerprinted
  <1> QED BY <1>4, <1>6, <1>8, <1>9 DEF t, c

(* Two reads of a template have the same revision exactly when it is       *)
(* configured alike, in any order, with any generated identifiers and in   *)
(* any encoding of the flags, and a prediction has the revision of what    *)
(* will be read (Revision, templateWithBinding,                            *)
(* templateWithoutCertificate).                                            *)
THEOREM RevisionsStandForConfigurations == Spec => []RevisionIsConfiguration
  <1>1. DocInv => RevisionIsConfiguration
    BY SameRevision
  <1> QED BY <1>1, DocumentInvariant, PTL

----------------------------------------------------------------------------
(* The scan before a delete.                                               *)

(* The file is referenced by one of the two responses. *)
Found(n) == ClientReferences(Decoded(Document), n) \/ ServerReferences(ServerDocument, n)

EveryUseIsFound == \A n \in Names : n \in InService(Configuration) => Found(n)

LEMMA UsedWhere ==
    ASSUME Shaped, NEW n \in Names
    PROVE  n \in InService(Configuration)
              <=> \/ \E p \in Places \ {"entry"} : n = place[p]
                  \/ \E i \in DOMAIN list :
                        n \in {list[i].cert, list[i].key, list[i].chain, place["entry"]}
  <1>1. Configuration.certs = ToSet(list) /\ Configuration.place = place
    BY DEF Configuration
  <1>2. n # NoName
    BY NamesAssumption
  <1>3. \A b : n \in NamesIn(FilesOf(b)) <=> n \in {b.cert, b.key, b.chain}
    <2>1. \A b : NamesIn(PairOf(b)) = {b.cert, b.key}
      BY DEF NamesIn, PairOf
    <2>2. \A b : b.chain = NoName => NamesIn(ChainOf(b)) = {}
      BY DEF NamesIn, ChainOf
    <2>3. \A b : b.chain # NoName => NamesIn(ChainOf(b)) = {b.chain}
      BY DEF NamesIn, ChainOf
    <2>4. \A b : NamesIn(FilesOf(b)) = NamesIn(PairOf(b)) \cup NamesIn(ChainOf(b))
      BY DEF NamesIn, FilesOf
    <2> QED BY <1>2, <2>1, <2>2, <2>3, <2>4
  <1>4. n \in NamesIn(UNION {FilesOf(b) : b \in ToSet(list)})
           <=> \E b \in ToSet(list) : n \in NamesIn(FilesOf(b))
    BY DEF NamesIn
  <1>5. (\E b \in ToSet(list) : n \in {b.cert, b.key, b.chain})
           <=> \E i \in DOMAIN list : n \in {list[i].cert, list[i].key, list[i].chain}
    BY DEF ToSet
  <1>6. ToSet(list) = {} <=> DOMAIN list = {}
    BY DEF ToSet
  <1>7. n \in InService(Configuration)
           <=> \/ \E p \in Places \ {"entry"} : n = place[p]
               \/ n \in NamesIn(UNION {FilesOf(b) : b \in ToSet(list)})
               \/ ToSet(list) # {} /\ n = place["entry"]
    BY <1>1 DEF InService
  <1> QED BY <1>3, <1>4, <1>5, <1>6, <1>7

LEMMA UseIsFound ==
    ASSUME Shaped, NEW n \in Names, n \in InService(Configuration)
    PROVE  Found(n)
  <1>1. n # NoName
    BY NamesAssumption
  <1>2. \A l \in Document : l.value = Text(n) => Found(n)
    BY DEF Found, ClientReferences, ContainsText, Decoded
  <1>3. ASSUME NEW i \in DOMAIN list,
               n \in {list[i].cert, list[i].key, list[i].chain, place["entry"]}
        PROVE  Found(n)
    <2>1. \A l : l \in EntryOf(CertificateList, i, list[i], place["entry"], style)
                    => l \in Document
      BY DocumentLeaves
    <2>2. \E field : Leaf(CertificateList, i, field, Text(n))
                        \in EntryOf(CertificateList, i, list[i], place["entry"], style)
      BY <1>1, <1>3, EntryLeaves
    <2> QED BY <1>2, <2>1, <2>2, LeafParts
  <1>4. ASSUME NEW p \in Places \ {"entry"}, n = place[p]
        PROVE  Found(n)
    <2>1. \A q, object, item, fields : \A field \in fields :
             place[q] = n => Leaf(object, item, field, Text(n)) \in Naming(q, object, item, fields)
      BY <1>1, NamingLeaves
    <2>2. CASE p = "sni"
      <3>1. Leaf(ServerNameList, 1, "server-cert", Text(n))
               \in Naming("sni", ServerNameList, 1, {"server-cert", "server-key"})
        BY <1>4, <2>1, <2>2
      <3> QED BY <1>2, <3>1, DocumentLeaves, LeafParts
    <2>3. CASE p = "chain"
      <3>1. Leaf(Top, 0, "chain-cert", Text(n)) \in Naming("chain", Top, 0, {"chain-cert"})
        BY <1>4, <2>1, <2>3
      <3> QED BY <1>2, <3>1, DocumentLeaves, LeafParts
    <2>4. CASE p = "proxy"
      <3>1. Leaf(Top, 0, "forward-proxy-ca-cert", Text(n))
               \in Naming("proxy", Top, 0, {"forward-proxy-ca-cert"})
        BY <1>4, <2>1, <2>4
      <3> QED BY <1>2, <3>1, DocumentLeaves, LeafParts
    <2>5. CASE p = "vendor"
      <3>1. Leaf(Profiles, 1, "file", Text(n)) \in Naming("vendor", Profiles, 1, {"file"})
        BY <1>4, <2>1, <2>5
      <3> QED BY <1>2, <3>1, DocumentLeaves, LeafParts
    <2>6. CASE p = "server"
      <3>1. Leaf(ServerCertificate, 0, "cert", Text(n))
               \in Naming("server", ServerCertificate, 0, {"cert", "key"})
        BY <1>4, <2>1, <2>6
      <3>2. Leaf(ServerCertificate, 0, "cert", Text(n)) \in ServerDocument
        BY <3>1 DEF ServerDocument
      <3> QED BY <3>2, LeafParts DEF Found, ServerReferences, ContainsText
    <2> QED BY <2>2, <2>3, <2>4, <2>5, <2>6 DEF Places
  <1> QED BY <1>3, <1>4, UsedWhere

(* No file that is in use escapes the scan, whatever it is called and      *)
(* wherever a template names it, an unknown field included                 *)
(* (deleteUnreferenced, sync.go 811-845).                                  *)
THEOREM ScanIsComplete == Spec => []EveryUseIsFound
  <1>1. DocInv => EveryUseIsFound
    BY TypeParts, UseIsFound DEF DocInv, EveryUseIsFound
  <1> QED BY <1>1, DocumentInvariant, PTL

(* The scan looks at every text of a response, so a file with the name of  *)
(* a template or of a generated identifier counts as referenced.           *)
NamesApart == Names \cap (Marks \cup {"template", "backend"}) = {}

LEMMA FlagText ==
    ASSUME NEW b, NEW s, NEW n, Text(n) \in Flag(b, s)
    PROVE  AXAPIBoolean(Flag(b, s)) = {}
  <1>1. s.flags # "boolean"
    <2>1. s.flags = "boolean" => Flag(b, s) = {Boolean(b)}
      BY DEF Flag
    <2> QED BY <2>1, Values
  <1>2. s.flags = "text"
    <2>1. s.flags # "text" => Flag(b, s) \subseteq {Number(IF b THEN 1 ELSE 0)}
      BY <1>1 DEF Flag
    <2> QED BY <2>1, Values
  <1>3. Flag(b, s) \subseteq {Text("enabled")}
    BY <1>2 DEF Flag
  <1>4. \A c : Boolean(c) \notin Flag(b, s) /\ Number(c) \notin Flag(b, s)
    BY <1>3, Values
  <1> QED BY <1>4 DEF AXAPIBoolean

LEMMA MarkIsNoName ==
    ASSUME NamesApart, Shaped, NEW n \in Names, NEW object, NEW item,
           NEW l \in Generated(object, item, style)
    PROVE  l.value # Text(n)
  <1>1. l.value = Text(style.mark) /\ style.mark \in Marks
    BY GeneratedParts, ShapedTypes
  <1> QED BY <1>1, Values DEF NamesApart

LEMMA NamedText ==
    ASSUME NamesApart, Shaped, NEW n \in Names, NEW p, NEW object, NEW item, NEW fields,
           NEW l \in Naming(p, object, item, fields), l.value = Text(n)
    PROVE  n = place[p]
  BY NamingLeaves, MarkIsNoName, LeafParts, Values

LEMMA TextIsUse ==
    ASSUME NamesApart, Shaped, Decodable(Document), NEW n \in Names,
           NEW l \in Document \cup ServerDocument, l.value = Text(n)
    PROVE  n \in InService(Configuration)
  <1>1. ASSUME NEW p \in Places \ {"entry"}, NEW object, NEW item, NEW fields,
               l \in Naming(p, object, item, fields)
        PROVE  n \in InService(Configuration)
    BY <1>1, NamedText, UsedWhere
  <1>2. \A object, item : l \notin Generated(object, item, style)
    BY MarkIsNoName
  <1>3. ASSUME NEW object, NEW name \in {"template", "backend"},
               l = Leaf(object, 0, "name", Text(name))
        PROVE  FALSE
    BY <1>3, LeafParts, Values DEF NamesApart
  <1>4. ASSUME NEW i \in DOMAIN list,
               l \in EntryOf(CertificateList, i, list[i], place["entry"], style)
        PROVE  n \in InService(Configuration)
    <2>1. \A v \in Flag(list[i].shared, style) : v # Text(n)
      <3>1. i \in Items(Document, CertificateList) /\ i \in 1 .. Len(list)
        BY ListItems, ShapedTypes
      <3>2. \A v : v \in ValuesAt(Document, CertificateList, i, "shared")
                      <=> v \in Flag(list[i].shared, style)
        BY <3>1, ListItems, EntryValues
      <3>3. ValuesAt(Document, CertificateList, i, "shared") = Flag(list[i].shared, style)
        BY <3>2
      <3>4. AXAPIBoolean(Flag(list[i].shared, style)) # {}
        BY <3>1, <3>3 DEF Decodable, SharedAt
      <3> QED BY <3>4, FlagText
    <2>2. n \in {list[i].cert, list[i].key, list[i].chain, place["entry"]}
      BY <1>2, <1>4, <2>1, EntryLeaves, LeafParts, Values
    <2> QED BY <2>2, UsedWhere
  <1>5. CASE l \in Document
    <2>1. {"sni", "chain", "proxy", "vendor"} \subseteq Places \ {"entry"}
      BY DEF Places
    <2> QED BY <1>1, <1>2, <1>3, <1>4, <1>5, <2>1, DocumentLeaves
  <1>6. CASE l \in ServerDocument
    <2>1. "server" \in Places \ {"entry"}
      BY DEF Places
    <2>2. \/ l = Leaf(Top, 0, "name", Text("backend"))
          \/ l \in Generated(Top, 0, style)
          \/ l \in Naming("server", ServerCertificate, 0, {"cert", "key"})
      BY <1>6 DEF ServerDocument
    <2> QED BY <1>1, <1>2, <1>3, <2>1, <2>2
  <1> QED BY <1>5, <1>6

(* What is decoded is in the response. *)
LEMMA TextInDocument ==
    ASSUME NEW d, NEW object, NEW item, NEW field, NEW n,
           TextAt(d, object, item, field) = n, n # NoName
    PROVE  \E v \in ValuesAt(d, object, item, field) : v.text = n
  <1>1. TextsAt(d, object, item, field) # {}
    BY DEF TextAt
  <1>2. n \in TextsAt(d, object, item, field)
    BY <1>1 DEF TextAt
  <1> QED BY <1>2 DEF TextsAt

LEMMA DecodedIsUse ==
    ASSUME NamesApart, Shaped, Decodable(Document), NEW n \in Names,
           NEW object \in {Top, ServerNameList}, NEW item,
           NEW field \in {"server-cert", "server-key", "chain-cert", "forward-proxy-ca-cert"},
           TextAt(Document, object, item, field) = n
    PROVE  n \in InService(Configuration)
  <1>1. n # NoName
    BY NamesAssumption
  <1>2. PICK v \in ValuesAt(Document, object, item, field) : v.text = n
    BY <1>1, TextInDocument
  <1>3. PICK l \in Document : l.object = object /\ l.field = field /\ l.value = v
    BY <1>2 DEF ValuesAt
  <1>4. l \in Known(place)
    BY <1>3, PlainLeaf, PlainObjects
  <1>5. PICK p \in {"sni", "chain", "proxy", "vendor"} : l.value = Text(place[p])
    <2>1. l.field # "name"
      BY <1>3
    <2> QED BY <1>4, <2>1, KnownLeaf
  <1>6. l.value = Text(n)
    BY <1>2, <1>3, <1>5, Values
  <1> QED BY <1>3, <1>6, TextIsUse

LEMMA FoundIsUse ==
    ASSUME NamesApart, Shaped, Decodable(Document), NEW n \in Names, Found(n)
    PROVE  n \in InService(Configuration)
  <1> DEFINE t == Decoded(Document)
  <1>1. CASE ServerReferences(ServerDocument, n)
    BY <1>1, TextIsUse DEF ServerReferences, ContainsText
  <1>2. CASE ContainsText(t.payload, n)
    BY <1>2, TextIsUse DEF ContainsText, Decoded
  <1>3. CASE n \in t.sni \cup {t.chain, t.proxy}
    <2>1. \/ \E i, field : /\ field \in {"server-cert", "server-key"}
                           /\ n = TextAt(Document, ServerNameList, i, field)
          \/ n = TextAt(Document, Top, 0, "chain-cert")
          \/ n = TextAt(Document, Top, 0, "forward-proxy-ca-cert")
      BY <1>3 DEF Decoded
    <2> QED BY <2>1, DecodedIsUse
  <1>4. ASSUME NEW i \in DOMAIN t.certs, n \in {t.certs[i].cert, t.certs[i].key, t.certs[i].chain}
        PROVE  n \in InService(Configuration)
    <2>1. t.certs[i] \in ToSet(t.certs)
      BY DEF ToSet
    <2>2. FourFields(t.certs[i]) \in ToSet(list)
      BY <2>1, DecodedList
    <2>3. PICK j \in DOMAIN list : list[j] = FourFields(t.certs[i])
      BY <2>2 DEF ToSet
    <2>4. /\ list[j].cert = t.certs[i].cert /\ list[j].key = t.certs[i].key
          /\ list[j].chain = t.certs[i].chain
      BY <2>3 DEF FourFields
    <2> HIDE DEF t
    <2>5. n \in {list[j].cert, list[j].key, list[j].chain, place["entry"]}
      BY <1>4, <2>4
    <2> QED BY <2>5, UsedWhere
  <1>5. \/ ServerReferences(ServerDocument, n) \/ ContainsText(t.payload, n)
        \/ n \in t.sni \cup {t.chain, t.proxy}
        \/ \E i \in DOMAIN t.certs : n \in {t.certs[i].cert, t.certs[i].key, t.certs[i].chain}
    BY DEF Found, ClientReferences
  <1> HIDE DEF t
  <1> QED BY <1>1, <1>2, <1>3, <1>4, <1>5

(* And no other file is found, so cleaning up keeps only what is needed,   *)
(* unless a file has the name of a template or of a generated identifier   *)
(* (deleteUnreferenced, jsonValueContainsString).                          *)
THEOREM ScanIsExact == NamesApart /\ Spec => []ScanFindsUses
  <1>1. ASSUME NamesApart, DocInv PROVE ScanFindsUses
    <2>1. Shaped
      BY <1>1, TypeParts DEF DocInv
    <2> SUFFICES ASSUME NEW n \in Names, Decodable(Document)
                 PROVE  Found(n) <=> n \in InService(Configuration)
      BY DEF ScanFindsUses, Found
    <2> QED BY <1>1, <2>1, UseIsFound, FoundIsUse
  <1>2. NamesApart => NamesApart'
    OBVIOUS
  <1> QED BY <1>1, <1>2, DocumentInvariant, PTL
====

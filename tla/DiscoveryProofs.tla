---- MODULE DiscoveryProofs ----
(***************************************************************************)
(* Proofs about the two lookups.                                           *)
(***************************************************************************)
EXTENDS Discovery, FiniteSetTheorems, SequenceTheorems, TLAPS

----------------------------------------------------------------------------
(* Type correctness. *)

Found == [server : Server, port : Port, at : [template : Template, shared : BOOLEAN]]

LEMMA PortTyped ==
    ASSUME NEW p \in PortTemplates, NEW at \in Attached(p)
    PROVE  at \in [template : Template, shared : BOOLEAN]
  <1>1. p.local \in Template \cup {Nothing} /\ p.shared \in Template \cup {Nothing}
    BY DEF PortTemplates
  <1>2. CASE p.local # Nothing
    <2>1. Attached(p) = {[template |-> p.local, shared |-> FALSE]}
      BY <1>2 DEF Attached
    <2>2. at = [template |-> p.local, shared |-> FALSE]
      BY <2>1
    <2> QED BY <1>1, <1>2, <2>2
  <1>3. CASE p.local = Nothing
    <2>1. Attached(p) = {[template |-> t, shared |-> TRUE] : t \in {p.shared} \ {Nothing}}
      BY <1>3 DEF Attached
    <2>2. PICK t \in {p.shared} \ {Nothing} : at = [template |-> t, shared |-> TRUE]
      BY <2>1
    <2> QED BY <1>1, <2>2
  <1> QED BY <1>2, <1>3

(* What a lookup finds are ports of servers that have the address. *)
LEMMA FoundByVIP ==
    ASSUME NEW listed \in [Server -> Configured], NEW a,
           NEW s \in Server, NEW port \in Port, NEW at
    PROVE  [server |-> s, port |-> port, at |-> at] \in FindClientSSLTemplatesByVIP(listed, a)
               <=> SameAddress(ConfiguredAddress(listed[s]), a) /\ at \in Attached(listed[s].ports[port])
  <1> DEFINE Row(v, p) == {[server |-> v, port |-> p, at |-> b] : b \in Attached(listed[v].ports[p])}
             At == {v \in Server : SameAddress(ConfiguredAddress(listed[v]), a)}
             row == [server |-> s, port |-> port, at |-> at]
  <1>1. FindClientSSLTemplatesByVIP(listed, a) = UNION {Row(v, p) : v \in At, p \in Port}
    BY DEF FindClientSSLTemplatesByVIP
  <1>2. \A v, p : row \in Row(v, p) => v = s /\ p = port /\ at \in Attached(listed[s].ports[port])
    OBVIOUS
  <1>3. at \in Attached(listed[s].ports[port]) => row \in Row(s, port)
    OBVIOUS
  <1>4. s \in At <=> SameAddress(ConfiguredAddress(listed[s]), a)
    OBVIOUS
  <1> HIDE DEF Row, At, row
  <1>5. row \in UNION {Row(v, p) : v \in At, p \in Port} <=> \E v \in At, p \in Port : row \in Row(v, p)
    <2>1. ASSUME row \in UNION {Row(v, p) : v \in At, p \in Port}
          PROVE  \E v \in At, p \in Port : row \in Row(v, p)
      <3>1. PICK rows \in {Row(v, p) : v \in At, p \in Port} : row \in rows
        BY <2>1
      <3>2. PICK v \in At, p \in Port : rows = Row(v, p)
        BY <3>1
      <3> QED BY <3>1, <3>2
    <2>2. ASSUME NEW v \in At, NEW p \in Port, row \in Row(v, p)
          PROVE  row \in UNION {Row(w, q) : w \in At, q \in Port}
      BY <2>2
    <2> QED BY <2>1, <2>2
  <1>6. row \in FindClientSSLTemplatesByVIP(listed, a)
            <=> s \in At /\ at \in Attached(listed[s].ports[port])
    BY <1>1, <1>2, <1>3, <1>5
  <1> QED BY <1>4, <1>6 DEF row

LEMMA VIPTyped ==
    ASSUME NEW listed \in [Server -> Configured], NEW a
    PROVE  FindClientSSLTemplatesByVIP(listed, a) \subseteq Found
  <1> SUFFICES ASSUME NEW f \in FindClientSSLTemplatesByVIP(listed, a) PROVE f \in Found
    OBVIOUS
  <1>0. PICK s \in Server, port \in Port : \E at \in Attached(listed[s].ports[port]) :
            f = [server |-> s, port |-> port, at |-> at]
    BY DEF FindClientSSLTemplatesByVIP
  <1>1. PICK at \in Attached(listed[s].ports[port]) : f = [server |-> s, port |-> port, at |-> at]
    BY <1>0
  <1>2. listed[s].ports[port] \in PortTemplates
    BY DEF Configured
  <1>3. at \in [template : Template, shared : BOOLEAN]
    BY <1>2, PortTyped
  <1> QED BY <1>1, <1>3 DEF Found

(* A step asks something, or changes the configuration and forgets the     *)
(* answer.                                                                 *)
LEMMA ReconfigureTyped ==
    ASSUME TypeOK, Reconfigure
    PROVE  servers' \in [Server -> Configured] /\ common' \in [File -> CommonNames]
  <1>1. CASE \E s \in Server : \E c \in Configured :
                servers' = [servers EXCEPT ![s] = c] /\ UNCHANGED common
    BY <1>1 DEF TypeOK
  <1>2. CASE \E f \in File : \E cn \in CommonNames :
                common' = [common EXCEPT ![f] = cn] /\ UNCHANGED servers
    BY <1>2 DEF TypeOK
  <1> QED BY <1>1, <1>2 DEF Reconfigure

(* The configuration is well-formed and lookups find templates, or files.  *)
THEOREM TypeCorrect == Spec => []TypeOK
  <1>1. Init => TypeOK
    BY DEF Init, TypeOK
  <1>2. TypeOK /\ [Next]_vars => TypeOK'
    <2> SUFFICES ASSUME TypeOK, [Next]_vars PROVE TypeOK'
      OBVIOUS
    <2>1. ASSUME NEW a \in Text, VIP(a) PROVE TypeOK'
      <3> DEFINE found == IF Denoted[a] = Nothing THEN {} ELSE FindClientSSLTemplatesByVIP(servers, a)
      <3>1. found \subseteq Found
        BY VIPTyped DEF TypeOK
      <3>2. answer' = [lookup |-> "vip", for |-> a, found |-> found]
        BY <2>1 DEF VIP
      <3> HIDE DEF found
      <3> QED BY <2>1, <3>1, <3>2 DEF VIP, TypeOK, Found
    <2>2. ASSUME NEW d \in Domains, FindDomain(d) PROVE TypeOK'
      <3>1. PICK found \in SUBSET File :
                answer' = [lookup |-> "find-domain", for |-> d, found |-> found]
        BY <2>2 DEF FindDomain
      <3> QED BY <2>2, <3>1 DEF FindDomain, TypeOK
    <2>3. CASE Reconfigure
      BY <2>3, ReconfigureTyped DEF Reconfigure, TypeOK
    <2>4. CASE UNCHANGED vars
      BY <2>4 DEF vars, TypeOK
    <2> QED BY <2>1, <2>2, <2>3, <2>4 DEF Next
  <1> QED BY <1>1, <1>2, PTL DEF Spec

----------------------------------------------------------------------------
(* The lookup by address.                                                  *)

(* A server has one address, and the code compares that one. *)
LEMMA AddressServed ==
    ASSUME NEW s \in Configured, NEW a \in Text, Denoted[a] # Nothing
    PROVE  SameAddress(ConfiguredAddress(s), a) <=>
               Denoted[a] \in {Denoted[t] : t \in {s.address.ip, s.address.ip6} \ {Nothing}} \ {Nothing}
  <1>1. s.address \in Addresses
    BY DEF Configured
  <1>2. PICK t \in Text : s.address \in {[ip |-> t, ip6 |-> Nothing], [ip |-> Nothing, ip6 |-> t]}
    BY <1>1, AddressAssumption
  <1>3. t # Nothing
    BY TextAssumption
  <1>4. ConfiguredAddress(s) = t /\ {s.address.ip, s.address.ip6} \ {Nothing} = {t}
    BY <1>2, <1>3 DEF ConfiguredAddress
  <1> QED BY <1>4 DEF SameAddress

(* Of the references of a port at most one is a template. *)
LEMMA ReferenceServed ==
    ASSUME NEW p \in PortTemplates, NEW at \in [template : Template, shared : BOOLEAN]
    PROVE  at \in Attached(p) <=> at.template = (IF at.shared THEN p.shared ELSE p.local)
  <1>1. Nothing \notin Template
    BY TextAssumption
  <1>2. at.template \in Template /\ at.shared \in BOOLEAN
        /\ at = [template |-> at.template, shared |-> at.shared]
    OBVIOUS
  <1>3. CASE p.local # Nothing
    <2>1. p.shared = Nothing
      BY <1>3 DEF PortTemplates
    <2>2. Attached(p) = {[template |-> p.local, shared |-> FALSE]}
      BY <1>3 DEF Attached
    <2> QED BY <1>1, <1>2, <2>1, <2>2
  <1>4. CASE p.local = Nothing
    <2>1. Attached(p) = {[template |-> t, shared |-> TRUE] : t \in {p.shared} \ {Nothing}}
      BY <1>4 DEF Attached
    <2> QED BY <1>1, <1>2, <1>4, <2>1
  <1> QED BY <1>3, <1>4

LEMMA VIPAnswered ==
    ASSUME TypeOK, NEW a \in Text, VIP(a)
    PROVE  VIPFindsServed'
  <1> SUFFICES ASSUME NEW s \in Server, NEW port \in Port,
                      NEW at \in [template : Template, shared : BOOLEAN]
               PROVE  [server |-> s, port |-> port, at |-> at] \in answer'.found
                          <=> Serves(servers[s], a, port, at)
    BY DEF VIP, VIPFindsServed, Serves
  <1>1. servers \in [Server -> Configured] /\ servers[s] \in Configured
        /\ servers[s].ports[port] \in PortTemplates
    BY DEF TypeOK, Configured
  <1>2. CASE Denoted[a] = Nothing
    BY <1>2 DEF VIP, Serves
  <1>3. CASE Denoted[a] # Nothing
    <2>1. answer'.found = FindClientSSLTemplatesByVIP(servers, a)
      BY <1>3 DEF VIP
    <2>2. [server |-> s, port |-> port, at |-> at] \in answer'.found
              <=> /\ SameAddress(ConfiguredAddress(servers[s]), a)
                  /\ at \in Attached(servers[s].ports[port])
      BY <1>1, <2>1, FoundByVIP
    <2> QED BY <1>1, <1>3, <2>2, AddressServed, ReferenceServed DEF Serves
  <1> QED BY <1>2, <1>3

(* For any servers, spellings of addresses and templates: vip answers with *)
(* every template that is served at the address, local or shared, and with *)
(* no other.                                                               *)
THEOREM VIPAnswersServed == Spec => []VIPFindsServed
  <1>1. Init => VIPFindsServed
    BY DEF Init, NoAnswer, VIPFindsServed
  <1>2. TypeOK /\ VIPFindsServed /\ [Next]_vars => VIPFindsServed'
    <2> SUFFICES ASSUME TypeOK, VIPFindsServed, [Next]_vars PROVE VIPFindsServed'
      OBVIOUS
    <2>1. ASSUME NEW d \in Domains, FindDomain(d) PROVE VIPFindsServed'
      BY <2>1 DEF FindDomain, VIPFindsServed
    <2>2. CASE Reconfigure
      BY <2>2 DEF Reconfigure, NoAnswer, VIPFindsServed
    <2>3. CASE UNCHANGED vars
      BY <2>3 DEF vars, VIPFindsServed, Serves
    <2> QED BY <2>1, <2>2, <2>3, VIPAnswered DEF Next
  <1> QED BY <1>1, <1>2, TypeCorrect, PTL DEF Spec

----------------------------------------------------------------------------
(* The lookup by DNS name.                                                 *)

Chars == {Lower[c] : c \in DOMAIN Lower}

LEMMA NormalTyped ==
    ASSUME NEW name \in Seq(DOMAIN Lower)
    PROVE  Normal(name) \in Seq(Chars)
  <1> DEFINE low == [i \in DOMAIN name |-> Lower[name[i]]]
  <1>1. low \in Seq(Chars) /\ Len(low) = Len(name)
    <2>1. \A i \in 1 .. Len(name) : Lower[name[i]] \in Chars
      BY DEF Chars
    <2> QED BY <2>1
  <1> HIDE DEF low
  <1>2. CASE low # <<>> /\ Last(low) = Dot
    <2>1. Len(low) - 1 \in 0 .. Len(low)
      BY <1>1, <1>2, EmptySeq
    <2>2. SubSeq(low, 1, Len(low) - 1) \in Seq(Chars)
      <3>1. \A i \in 1 .. Len(low) - 1 : low[i] \in Chars
        BY <1>1, <2>1
      <3> QED BY <2>1, <3>1, SubSeqProperties
    <2> QED BY <1>2, <2>2 DEF Normal, Front, low
  <1>3. CASE ~ (low # <<>> /\ Last(low) = Dot)
    BY <1>1, <1>3 DEF Normal, low
  <1> QED BY <1>2, <1>3

LEMMA PrefixOfWildcard ==
    ASSUME NEW S, NEW cn \in Seq(S)
    PROVE  IsPrefix(<<Star, Dot>>, cn) <=> Len(cn) >= 2 /\ cn[1] = Star /\ cn[2] = Dot
  <1> DEFINE w == <<Star, Dot>>
  <1>1. Len(w) = 2 /\ w[1] = Star /\ w[2] = Dot
    OBVIOUS
  <1>2. SubSeq(w, 1, 2) = [i \in 1 .. 2 |-> w[i]]
    OBVIOUS
  <1>3. SubSeq(cn, 1, 2) = [i \in 1 .. 2 |-> cn[i]]
    OBVIOUS
  <1> HIDE DEF w
  <1>4. SubSeq(w, 1, 2) = SubSeq(cn, 1, 2) <=> \A i \in 1 .. 2 : w[i] = cn[i]
    BY <1>2, <1>3
  <1>5. (\A i \in 1 .. 2 : w[i] = cn[i]) <=> w[1] = cn[1] /\ w[2] = cn[2]
    OBVIOUS
  <1> QED BY <1>1, <1>4, <1>5 DEF IsPrefix, w

LEMMA SuffixMeans ==
    ASSUME NEW S, NEW s \in Seq(S), NEW t \in Seq(S)
    PROVE  IsSuffix(s, t) <=>
               Len(s) <= Len(t) /\ \A i \in 1 .. Len(s) : s[i] = t[Len(t) - Len(s) + i]
  <1> DEFINE rs == [i \in 1 .. Len(s) |-> s[(Len(s) - i) + 1]]
             rt == [i \in 1 .. Len(t) |-> t[(Len(t) - i) + 1]]
  <1>1. rs \in Seq(S) /\ Len(rs) = Len(s) /\ \A i \in 1 .. Len(s) : rs[i] = s[(Len(s) - i) + 1]
    OBVIOUS
  <1>2. rt \in Seq(S) /\ Len(rt) = Len(t) /\ \A i \in 1 .. Len(t) : rt[i] = t[(Len(t) - i) + 1]
    OBVIOUS
  <1>3. IsSuffix(s, t) <=> Len(rs) <= Len(rt) /\ SubSeq(rs, 1, Len(rs)) = SubSeq(rt, 1, Len(rs))
    BY DEF IsSuffix, IsPrefix, Reverse
  <1> HIDE DEF rs, rt
  <1> SUFFICES ASSUME Len(s) <= Len(t)
               PROVE  SubSeq(rs, 1, Len(s)) = SubSeq(rt, 1, Len(s))
                          <=> \A i \in 1 .. Len(s) : s[i] = t[Len(t) - Len(s) + i]
    BY <1>1, <1>2, <1>3
  <1>4. SubSeq(rs, 1, Len(s)) = [i \in 1 .. Len(s) |-> rs[i]]
        /\ SubSeq(rt, 1, Len(s)) = [i \in 1 .. Len(s) |-> rt[i]]
    BY <1>1, <1>2
  <1>5. SubSeq(rs, 1, Len(s)) = SubSeq(rt, 1, Len(s)) <=> \A i \in 1 .. Len(s) : rs[i] = rt[i]
    BY <1>4
  <1>6. ASSUME \A i \in 1 .. Len(s) : rs[i] = rt[i], NEW i \in 1 .. Len(s)
        PROVE  s[i] = t[Len(t) - Len(s) + i]
    <2> DEFINE j == Len(s) - i + 1
    <2>1. j \in 1 .. Len(s) /\ j \in 1 .. Len(t) /\ (Len(s) - j) + 1 = i
          /\ (Len(t) - j) + 1 = Len(t) - Len(s) + i
      OBVIOUS
    <2> HIDE DEF j
    <2> QED BY <1>1, <1>2, <1>6, <2>1
  <1>7. ASSUME \A i \in 1 .. Len(s) : s[i] = t[Len(t) - Len(s) + i], NEW i \in 1 .. Len(s)
        PROVE  rs[i] = rt[i]
    <2> DEFINE j == Len(s) - i + 1
    <2>1. j \in 1 .. Len(s) /\ i \in 1 .. Len(t) /\ (Len(s) - i) + 1 = j
          /\ (Len(t) - i) + 1 = Len(t) - Len(s) + j
      OBVIOUS
    <2> HIDE DEF j
    <2>2. rs[i] = s[j] /\ rt[i] = t[Len(t) - Len(s) + j]
      BY <1>1, <1>2, <2>1
    <2>3. s[j] = t[Len(t) - Len(s) + j]
      BY <1>7, <2>1
    <2> QED BY <2>2, <2>3
  <1>8. (\A i \in 1 .. Len(s) : rs[i] = rt[i])
            <=> \A i \in 1 .. Len(s) : s[i] = t[Len(t) - Len(s) + i]
    BY <1>6, <1>7
  <1> QED BY <1>5, <1>8

(* When the rest of cn is the end of d, after its first k characters, cn   *)
(* has as many dots as d exactly when these k characters have none.        *)
LEMMA SameDepthAfter ==
    ASSUME NEW S, NEW d \in Seq(S), NEW cn \in Seq(S), NEW k \in Nat,
           Len(cn) >= 1, Len(d) = Len(cn) - 1 + k, cn[1] # Dot,
           \A i \in 1 .. Len(cn) - 1 : cn[i + 1] = d[k + i]
    PROVE  SameDepth(d, cn) <=> \A j \in 1 .. k : d[j] # Dot
  <1> DEFINE Dots(s) == {i \in DOMAIN s : s[i] = Dot}
             Behind == {j \in Dots(d) : j > k}
             f == [i \in Dots(cn) |-> i - 1 + k]
  <1>1. \A i : i \in Dots(cn) <=> i \in 2 .. Len(cn) /\ d[i - 1 + k] = Dot
    <2>1. ASSUME NEW i \in 2 .. Len(cn) PROVE cn[i] = d[i - 1 + k]
      <3>1. i - 1 \in 1 .. Len(cn) - 1 /\ (i - 1) + 1 = i /\ k + (i - 1) = i - 1 + k
        OBVIOUS
      <3> QED BY <3>1
    <2> QED BY <2>1
  <1>2. Dots(d) \subseteq 1 .. Len(d) /\ Dots(cn) \subseteq 1 .. Len(cn)
    OBVIOUS
  <1>3. IsFiniteSet(Dots(d)) /\ IsFiniteSet(Dots(cn))
    <2>1. IsFiniteSet(1 .. Len(d)) /\ IsFiniteSet(1 .. Len(cn))
      BY FS_Interval
    <2> QED BY <1>2, <2>1, FS_Subset
  <1>4. \A j : j \in Behind <=> j \in (k + 1) .. Len(d) /\ d[j] = Dot
    OBVIOUS
  <1>5. f \in Bijection(Dots(cn), Behind)
    <2>1. \A i \in Dots(cn) : f[i] \in Behind
      <3> SUFFICES ASSUME NEW i \in Dots(cn) PROVE i - 1 + k \in Behind
        OBVIOUS
      <3>1. i \in 2 .. Len(cn) /\ d[i - 1 + k] = Dot
        BY <1>1
      <3>2. i - 1 + k \in (k + 1) .. Len(d)
        BY <3>1
      <3> HIDE DEF Behind
      <3> QED BY <1>4, <3>1, <3>2
    <2>2. \A i, j \in Dots(cn) : f[i] = f[j] => i = j
      BY <1>2
    <2>3. ASSUME NEW j \in Behind PROVE \E i \in Dots(cn) : f[i] = j
      <3>1. j \in (k + 1) .. Len(d) /\ d[j] = Dot
        BY <1>4
      <3>2. j - k + 1 \in 2 .. Len(cn) /\ (j - k + 1) - 1 + k = j
        BY <3>1
      <3>3. j - k + 1 \in Dots(cn)
        BY <1>1, <3>1, <3>2
      <3> QED BY <3>2, <3>3
    <2> HIDE DEF Dots, Behind
    <2>4. f \in [Dots(cn) -> Behind]
      BY <2>1
    <2> HIDE DEF f
    <2> QED BY <2>2, <2>3, <2>4 DEF Bijection, Injection, Surjection, IsInjective
  <1>6. Cardinality(Behind) = Cardinality(Dots(cn))
    <2> HIDE DEF Dots, Behind, f
    <2> QED BY <1>3, <1>5, FS_Bijection DEF ExistsBijection
  <1>7. SameDepth(d, cn) <=> Cardinality(Dots(d)) = Cardinality(Dots(cn))
    BY DEF SameDepth, Count
  <1>8. Cardinality(Dots(d)) = Cardinality(Behind) <=> Dots(d) = Behind
    <2>1. Behind \subseteq Dots(d)
      OBVIOUS
    <2> HIDE DEF Dots, Behind
    <2> QED BY <1>3, <2>1, FS_Subset
  <1>9. Dots(d) = Behind <=> \A j \in 1 .. k : d[j] # Dot
    <2>1. ASSUME Dots(d) = Behind, NEW j \in 1 .. k, d[j] = Dot PROVE FALSE
      <3>1. j \in Dots(d)
        BY <2>1
      <3> QED BY <2>1, <3>1
    <2>2. ASSUME \A j \in 1 .. k : d[j] # Dot PROVE Dots(d) \subseteq Behind
      BY <2>2
    <2> QED BY <2>1, <2>2
  <1> HIDE DEF Dots, Behind
  <1> QED BY <1>6, <1>7, <1>8, <1>9

(* The code's test of prefix, suffix and number of dots, and one star for  *)
(* one label.                                                              *)
LEMMA WildcardCovers ==
    ASSUME NEW S, NEW d \in Seq(S), NEW cn \in Seq(S)
    PROVE  IsPrefix(<<Star, Dot>>, cn) /\ IsSuffix(Wildcard(cn), d) /\ SameDepth(d, cn)
             <=> \E n \in DOMAIN d :
                    /\ d[n] = Dot /\ \A i \in 1 .. n - 1 : d[i] # Dot
                    /\ cn = <<Star>> \o SubSeq(d, n, Len(d))
  <1>1. ASSUME IsPrefix(<<Star, Dot>>, cn), IsSuffix(Wildcard(cn), d), SameDepth(d, cn)
        PROVE  \E n \in DOMAIN d :
                  /\ d[n] = Dot /\ \A i \in 1 .. n - 1 : d[i] # Dot
                  /\ cn = <<Star>> \o SubSeq(d, n, Len(d))
    <2> DEFINE k == Len(d) - (Len(cn) - 1)
    <2>1. Len(cn) >= 2 /\ cn[1] = Star /\ cn[2] = Dot
      BY <1>1, PrefixOfWildcard
    <2>2. /\ Tail(cn) \in Seq(S) /\ Len(Tail(cn)) = Len(cn) - 1
          /\ \A i \in 1 .. Len(cn) - 1 : Tail(cn)[i] = cn[i + 1]
      BY <2>1
    <2>3. Len(cn) - 1 <= Len(d)
          /\ \A i \in 1 .. Len(cn) - 1 : Tail(cn)[i] = d[Len(d) - (Len(cn) - 1) + i]
      <3> DEFINE w == Tail(cn)
      <3>1. w \in Seq(S) /\ Len(w) = Len(cn) - 1 /\ IsSuffix(w, d)
        BY <1>1, <2>2 DEF Wildcard
      <3> HIDE DEF w
      <3>2. Len(w) <= Len(d) /\ \A i \in 1 .. Len(w) : w[i] = d[Len(d) - Len(w) + i]
        BY <3>1, SuffixMeans
      <3>3. Len(w) <= Len(d)
            /\ \A i \in 1 .. Len(cn) - 1 : w[i] = d[Len(d) - (Len(cn) - 1) + i]
        BY <3>1, <3>2
      <3> QED BY <3>1, <3>3 DEF w
    <2>4. k \in Nat /\ Len(d) = Len(cn) - 1 + k
      BY <2>3
    <2>5. \A i \in 1 .. Len(cn) - 1 : cn[i + 1] = d[k + i]
      BY <2>2, <2>3
    <2> HIDE DEF k
    <2>6. \A j \in 1 .. k : d[j] # Dot
      <3>1. Len(cn) >= 1 /\ cn[1] # Dot
        BY <2>1, CharacterAssumption
      <3> QED BY <1>1, <2>4, <2>5, <3>1, SameDepthAfter
    <2>7. k + 1 \in DOMAIN d /\ d[k + 1] = Dot
      BY <2>1, <2>4, <2>5
    <2>8. cn = <<Star>> \o SubSeq(d, k + 1, Len(d))
      <3> DEFINE e == SubSeq(d, k + 1, Len(d))
      <3>1. e \in Seq(S) /\ Len(e) = Len(cn) - 1 /\ \A i \in 1 .. Len(cn) - 1 : e[i] = d[k + i]
        <4>1. /\ k + 1 \in Int /\ Len(d) \in Int /\ Len(cn) \in Nat /\ k + 1 <= Len(d)
              /\ Len(d) - (k + 1) + 1 = Len(cn) - 1
          BY <2>1, <2>4
        <4>2. \A i \in k + 1 .. Len(d) : d[i] \in S
          BY <2>4
        <4>3. /\ e \in Seq(S) /\ Len(e) = Len(d) - (k + 1) + 1
              /\ \A i \in 1 .. Len(d) - (k + 1) + 1 : e[i] = d[k + 1 + i - 1]
          BY <4>1, <4>2, SubSeqProperties
        <4> HIDE DEF e
        <4>4. \A i \in 1 .. Len(cn) - 1 : k + 1 + i - 1 = k + i
          BY <2>4
        <4> QED BY <4>1, <4>3, <4>4
      <3> HIDE DEF e
      <3>2. <<Star>> \o e \in Seq(S \cup {Star}) /\ Len(<<Star>> \o e) = Len(cn)
        BY <2>1, <3>1
      <3>3. ASSUME NEW i \in 1 .. Len(cn) PROVE (<<Star>> \o e)[i] = cn[i]
        <4>1. CASE i = 1
          BY <2>1, <3>1, <4>1
        <4>2. CASE i > 1
          <5>1. i - 1 \in 1 .. Len(cn) - 1 /\ (i - 1) + 1 = i
            BY <4>2
          <5>2. cn[i] = d[k + (i - 1)] /\ e[i - 1] = d[k + (i - 1)]
            BY <2>5, <3>1, <5>1
          <5>3. (<<Star>> \o e)[i] = e[i - 1]
            BY <3>1, <4>2
          <5> QED BY <5>2, <5>3
        <4>3. i = 1 \/ i > 1
          OBVIOUS
        <4> QED BY <4>1, <4>2, <4>3
      <3>4. cn \in Seq(S \cup {Star})
        OBVIOUS
      <3>5. cn = <<Star>> \o e
        BY <3>2, <3>3, <3>4, SeqEqual
      <3> QED BY <3>5 DEF e
    <2>9. \A i \in 1 .. (k + 1) - 1 : d[i] # Dot
      BY <2>4, <2>6
    <2> QED BY <2>7, <2>8, <2>9
  <1>2. ASSUME NEW n \in DOMAIN d, d[n] = Dot, \A i \in 1 .. n - 1 : d[i] # Dot,
               cn = <<Star>> \o SubSeq(d, n, Len(d))
        PROVE  IsPrefix(<<Star, Dot>>, cn) /\ IsSuffix(Wildcard(cn), d) /\ SameDepth(d, cn)
    <2> DEFINE e == SubSeq(d, n, Len(d))
               k == n - 1
    <2>1. /\ n \in 1 .. Len(d) /\ k \in Nat
          /\ e \in Seq(S) /\ Len(e) = Len(d) - k /\ \A i \in 1 .. Len(d) - k : e[i] = d[k + i]
      OBVIOUS
    <2>2. cn = <<Star>> \o e /\ d[k + 1] = Dot /\ \A i \in 1 .. k : d[i] # Dot
      BY <1>2
    <2> HIDE DEF e, k
    <2>3. /\ Len(cn) = Len(d) - k + 1 /\ cn[1] = Star
          /\ \A i \in 1 .. Len(d) - k : cn[i + 1] = e[i]
      <3>1. Len(<<Star>>) = 1 /\ <<Star>>[1] = Star /\ <<Star>> \in Seq(S \cup {Star})
        OBVIOUS
      <3>2. e \in Seq(S \cup {Star})
        BY <2>1
      <3>3. Len(cn) = 1 + Len(e)
        BY <2>2, <3>1, <3>2, ConcatProperties
      <3>4. ASSUME NEW i \in 1 .. Len(d) - k PROVE cn[i + 1] = e[i]
        <4>1. i + 1 > 1 /\ i + 1 <= 1 + Len(e) /\ (i + 1) - 1 = i
          BY <2>1
        <4> QED BY <2>2, <3>1, <3>2, <4>1, ConcatProperties
      <3>5. cn[1] = Star
        BY <2>2, <3>1, <3>2, ConcatProperties
      <3> QED BY <2>1, <3>3, <3>4, <3>5
    <2>4. Len(cn) >= 2 /\ cn[2] = Dot
      <3>1. 1 \in 1 .. Len(d) - k
        BY <2>1 DEF k
      <3>2. cn[1 + 1] = d[k + 1]
        BY <2>1, <2>3, <3>1
      <3> QED BY <2>1, <2>2, <2>3, <3>1, <3>2
    <2>5. \A i \in 1 .. Len(cn) - 1 : cn[i + 1] = d[k + i]
      <3>1. Len(cn) - 1 = Len(d) - k
        BY <2>1, <2>3
      <3> QED BY <2>1, <2>3, <3>1
    <2>6. IsPrefix(<<Star, Dot>>, cn)
      BY <2>3, <2>4, PrefixOfWildcard
    <2>7. /\ Tail(cn) \in Seq(S) /\ Len(Tail(cn)) = Len(cn) - 1
          /\ \A i \in 1 .. Len(cn) - 1 : Tail(cn)[i] = cn[i + 1]
      BY <2>4
    <2>8. IsSuffix(Wildcard(cn), d)
      <3>1. Len(d) - Len(Tail(cn)) = k /\ Len(Tail(cn)) <= Len(d)
        BY <2>1, <2>3, <2>7
      <3>2. \A i \in 1 .. Len(Tail(cn)) : Tail(cn)[i] = d[Len(d) - Len(Tail(cn)) + i]
        BY <2>5, <2>7, <3>1
      <3> DEFINE w == Tail(cn)
      <3>3. w \in Seq(S) /\ Len(w) <= Len(d)
            /\ \A i \in 1 .. Len(w) : w[i] = d[Len(d) - Len(w) + i]
        BY <2>7, <3>1, <3>2
      <3> HIDE DEF w
      <3>4. IsSuffix(w, d)
        BY <3>3, SuffixMeans
      <3> QED BY <3>4 DEF Wildcard, w
    <2>9. SameDepth(d, cn)
      <3>1. Len(d) = Len(cn) - 1 + k
        BY <2>1, <2>3
      <3>2. Len(cn) >= 1 /\ cn[1] # Dot
        BY <2>3, <2>4, CharacterAssumption
      <3>3. k \in Nat /\ \A j \in 1 .. k : d[j] # Dot
        BY <2>1, <2>2
      <3>4. SameDepth(d, cn) <=> \A j \in 1 .. k : d[j] # Dot
        BY <2>1, <2>5, <3>1, <3>2, SameDepthAfter
      <3> QED BY <3>3, <3>4
    <2> QED BY <2>6, <2>8, <2>9
  <1> QED BY <1>1, <1>2

LEMMA DomainMatched ==
    ASSUME NEW name \in Seq(DOMAIN Lower), NEW commonName \in Seq(DOMAIN Lower)
    PROVE  domainMatches(name, commonName) <=> Covers(Normal(commonName), Normal(name))
  <1> DEFINE d == Normal(name)
             cn == Normal(commonName)
  <1>1. d \in Seq(Chars) /\ cn \in Seq(Chars)
    BY NormalTyped
  <1>2. domainMatches(name, commonName) <=>
            \/ d = cn
            \/ /\ IsPrefix(<<Star, Dot>>, cn) /\ d \notin Literals
               /\ IsSuffix(Wildcard(cn), d) /\ SameDepth(d, cn)
    BY DEF domainMatches
  <1> HIDE DEF d, cn
  <1>3. domainMatches(name, commonName) <=> Covers(cn, d)
    BY <1>1, <1>2, WildcardCovers DEF Covers
  <1> QED BY <1>3 DEF d, cn

(* For any names, in any case and with or without a final dot: find-domain *)
(* answers with the certificates whose common name is the domain, or has a *)
(* star for the first label of a domain that is no IP address, and with no *)
(* other.                                                                  *)
THEOREM DomainAnswersCovered == Spec => []DomainsCovered
  <1>1. Init => DomainsCovered
    BY DEF Init, NoAnswer, DomainsCovered
  <1>2. TypeOK /\ DomainsCovered /\ [Next]_vars => DomainsCovered'
    <2> SUFFICES ASSUME TypeOK, DomainsCovered, [Next]_vars PROVE DomainsCovered'
      OBVIOUS
    <2>1. ASSUME NEW a \in Text, VIP(a) PROVE DomainsCovered'
      BY <2>1 DEF VIP, DomainsCovered
    <2>2. ASSUME NEW name \in Domains, FindDomain(name) PROVE DomainsCovered'
      <3>1. \A f \in File :
                domainMatches(name, common[f]) <=> Covers(Normal(common[f]), Normal(name))
        BY NameAssumption, DomainMatched DEF TypeOK
      <3>2. {f \in File : domainMatches(name, common[f])}
                = {f \in File : Covers(Normal(common[f]), Normal(name))}
        BY <3>1
      <3> QED BY <2>2, <3>2 DEF FindDomain, DomainsCovered
    <2>3. CASE Reconfigure
      BY <2>3 DEF Reconfigure, NoAnswer, DomainsCovered
    <2>4. CASE UNCHANGED vars
      BY <2>4 DEF vars, DomainsCovered
    <2> QED BY <2>1, <2>2, <2>3, <2>4 DEF Next
  <1> QED BY <1>1, <1>2, TypeCorrect, PTL DEF Spec
====

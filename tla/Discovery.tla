---- MODULE Discovery ----
(***************************************************************************)
(* The two lookups of the command line: vip, the client-SSL templates that *)
(* are served at an address (virtual_servers.go), and find-domain, the     *)
(* certificates whose common name covers a DNS name (domainMatches).       *)
(*                                                                         *)
(* Both read one listing and decide from its texts.  Somebody changes the  *)
(* configuration between two lookups.  An address text denotes what        *)
(* netip.ParseAddr makes of it; a DNS name is the sequence of its          *)
(* characters, without the white space the code trims.                     *)
(***************************************************************************)
EXTENDS Integers, SequencesExt

CONSTANTS
    Text,           \* texts of addresses
    Denoted,        \* what a text denotes, Nothing when it is no address
    Addresses,      \* addresses of servers: an IPv4 or an IPv6 text
    Nothing,        \* no address, no template
    Server,         \* names of virtual servers
    Port,           \* their ports
    Template,       \* names of client-SSL templates
    File,           \* names of certificates
    Dot, Star,      \* characters
    Lower,          \* the lower case of a character
    Domains,        \* the DNS names asked for
    Literals,       \* those of them that are IP addresses
    CommonNames     \* the common names of certificates

ASSUME TextAssumption == Nothing \notin Text \cup Template /\ DOMAIN Denoted = Text
ASSUME AddressAssumption ==
    \A a \in Addresses : \E t \in Text :
        a \in {[ip |-> t, ip6 |-> Nothing], [ip |-> Nothing, ip6 |-> t]}
ASSUME NameAssumption == Domains \cup CommonNames \subseteq Seq(DOMAIN Lower) \ {<<>>}
ASSUME CharacterAssumption == Star # Dot

(* No label of a DNS name is empty. *)
ASSUME LabelAssumption ==
    \A name \in Domains :
        name[1] # Dot /\ \A i \in 1 .. Len(name) - 1 : name[i] # Dot \/ name[i + 1] # Dot

VARIABLES
    servers,    \* the virtual servers of the partition
    common,     \* the common name of each certificate
    answer      \* what the last lookup printed, with its question

vars == <<servers, common, answer>>

(* A port refers to a template of its partition, of the shared one, or to  *)
(* none.                                                                   *)
PortTemplates == {[local |-> t, shared |-> Nothing] : t \in Template \cup {Nothing}}
                     \cup {[local |-> Nothing, shared |-> t] : t \in Template}

Configured == [address : Addresses, ports : [Port -> PortTemplates]]

----------------------------------------------------------------------------
(* FindClientSSLTemplatesByVIP                                             *)

(* Mutant: texts are compared. *)
SameText(a, b) == a = b

SameAddress(a, b) == Denoted[a] = Denoted[b]

ConfiguredAddress(s) == IF s.address.ip # Nothing THEN s.address.ip ELSE s.address.ip6

(* Mutant: references to the shared partition are not looked at. *)
AttachedLocally(p) ==
    IF p.local # Nothing THEN {[template |-> p.local, shared |-> FALSE]} ELSE {}

(* Mutant: a port without a template is listed, too. *)
AttachedAlways(p) ==
    IF p.local # Nothing THEN {[template |-> p.local, shared |-> FALSE]}
                         ELSE {[template |-> p.shared, shared |-> TRUE]}

(* The local reference comes before the shared one. *)
Attached(p) ==
    IF p.local # Nothing THEN {[template |-> p.local, shared |-> FALSE]}
    ELSE {[template |-> t, shared |-> TRUE] : t \in {p.shared} \ {Nothing}}

FindClientSSLTemplatesByVIP(listed, a) ==
    UNION {{[server |-> s, port |-> p, at |-> b] : b \in Attached(listed[s].ports[p])} :
              s \in {v \in Server : SameAddress(ConfiguredAddress(listed[v]), a)}, p \in Port}

----------------------------------------------------------------------------
(* domainMatches                                                           *)

Count(name, c) == Cardinality({i \in DOMAIN name : name[i] = c})

(* ToLower and TrimSuffix: one dot at the end. *)
Normal(name) ==
    LET low == [i \in DOMAIN name |-> Lower[name[i]]] IN
    IF low # <<>> /\ Last(low) = Dot THEN Front(low) ELSE low

(* Mutant: the dot after the star is trimmed with it. *)
WildcardOfText(cn) == Tail(Tail(cn))

Wildcard(cn) == Tail(cn)

(* Mutant: the labels are not counted. *)
SameDepthAlways(domain, cn) == TRUE

SameDepth(domain, cn) == Count(domain, Dot) = Count(cn, Dot)

domainMatches(name, commonName) ==
    LET domain == Normal(name)
        cn == Normal(commonName)
    IN  \/ domain = cn
        \/ /\ IsPrefix(<<Star, Dot>>, cn) /\ domain \notin Literals
           /\ IsSuffix(Wildcard(cn), domain) /\ SameDepth(domain, cn)

----------------------------------------------------------------------------
NoAnswer == [lookup |-> "none", for |-> Nothing, found |-> {}]

Init ==
    /\ servers \in [Server -> Configured]
    /\ common \in [File -> CommonNames]
    /\ answer = NoAnswer

VIP(a) ==
    /\ answer' = [lookup |-> "vip", for |-> a,
                  found |-> IF Denoted[a] = Nothing THEN {} ELSE FindClientSSLTemplatesByVIP(servers, a)]
    /\ UNCHANGED <<servers, common>>

FindDomain(domain) ==
    /\ answer' = [lookup |-> "find-domain", for |-> domain,
                  found |-> {f \in File : domainMatches(domain, common[f])}]
    /\ UNCHANGED <<servers, common>>

(* Somebody changes the configuration; an answer is about the one it was   *)
(* read from.                                                              *)
Reconfigure ==
    /\ answer # NoAnswer
    /\ answer' = NoAnswer
    /\ \/ \E s \in Server : \E c \in Configured : servers' = [servers EXCEPT ![s] = c] /\ UNCHANGED common
       \/ \E f \in File : \E cn \in CommonNames : common' = [common EXCEPT ![f] = cn] /\ UNCHANGED servers

Next == (\E a \in Text : VIP(a)) \/ (\E d \in Domains : FindDomain(d)) \/ Reconfigure

Spec == Init /\ [][Next]_vars

----------------------------------------------------------------------------
(* Every variable has its type: what is found is a template, or a file.    *)
TypeOK ==
    /\ servers \in [Server -> Configured]
    /\ common \in [File -> CommonNames]
    /\ \/ answer = NoAnswer
       \/ /\ answer.lookup = "vip" /\ answer.for \in Text
          /\ answer.found \subseteq
                 [server : Server, port : Port, at : [template : Template, shared : BOOLEAN]]
       \/ answer.lookup = "find-domain" /\ answer.for \in Domains /\ answer.found \subseteq File

(* "every local or shared client-SSL template attached to an exact IPv4 or *)
(* IPv6 virtual address" (virtual_servers.go:53): whatever way the address *)
(* is written, here and there, all of them and no other, each with the     *)
(* partition its name belongs to.                                          *)
Serves(s, a, port, at) ==
    /\ Denoted[a] \in {Denoted[t] : t \in {s.address.ip, s.address.ip6} \ {Nothing}} \ {Nothing}
    /\ at.template = IF at.shared THEN s.ports[port].shared ELSE s.ports[port].local

VIPFindsServed ==
    answer.lookup = "vip" =>
        \A s \in Server, port \in Port, at \in [template : Template, shared : BOOLEAN] :
            [server |-> s, port |-> port, at |-> at] \in answer.found
                <=> Serves(servers[s], answer.for, port, at)

(* A wildcard stands for one whole label, the first, and never for a part  *)
(* of an IP address: what a TLS client makes of a common name.             *)
Covers(cn, domain) ==
    \/ cn = domain
    \/ /\ domain \notin Literals
       /\ \E n \in DOMAIN domain :
             /\ domain[n] = Dot /\ \A i \in 1 .. n - 1 : domain[i] # Dot
             /\ cn = <<Star>> \o SubSeq(domain, n, Len(domain))

DomainsCovered ==
    answer.lookup = "find-domain" =>
        answer.found = {f \in File : Covers(Normal(common[f]), Normal(answer.for))}
====

---- MODULE TemplateDocument ----
(***************************************************************************)
(* What a template looks like on the wire and what the library makes of    *)
(* it: the decoding of client-SSL and server-SSL responses, the revision   *)
(* of state.go, the prediction of a changed template, and the scan for     *)
(* references before a delete.                                             *)
(*                                                                         *)
(* The appliance holds a configuration and renders it as a JSON document,  *)
(* each time as it likes: entries in any order, new UUIDs and URLs, flags  *)
(* as numbers or booleans, empty fields present or left out.  The module   *)
(* relates what the code computes from documents to the configurations     *)
(* behind them, which are the templates of SslTemplate and CertSync.       *)
(***************************************************************************)
EXTENDS SslTemplate, SequencesExt

CONSTANTS
    Entries,     \* the bindings that occur
    Uses,        \* what each place of a template may refer to
    Marks,       \* generated identifiers
    Styles       \* how the appliance may render its answers

(* Where a template may name a file apart from the certificate list: SNI   *)
(* entries, the template's own chain, forward proxy, a field the library   *)
(* does not know, such a field inside an entry of the certificate list,    *)
(* and a server-SSL template.                                              *)
Places == {"sni", "chain", "proxy", "vendor", "entry", "server"}

ASSUME EntriesAssumption == Entries \subseteq Binding
ASSUME UsesAssumption == Uses \subseteq [Places -> Names \cup {NoName}]

VARIABLES
    list,        \* the certificate list of the template, in some order
    place,       \* what else is referred to, and where
    style,       \* how the appliance renders its answers at the moment
    expected,    \* the template the library expects to read next
    believed     \* the configuration that prediction stands for

vars == <<list, place, style, expected, believed>>

----------------------------------------------------------------------------
(* Decoded JSON.  A document is the set of its leaves: each with the       *)
(* fields that lead to its object, the position in the list on the way     *)
(* (0 when there is none), its own field and its value.  What the code     *)
(* does by recursion over a document it does to every leaf; an object      *)
(* without fields is not told apart from none.                             *)

Text(s) == [kind |-> "text", text |-> s]
Number(n) == [kind |-> "number", number |-> n]
Boolean(b) == [kind |-> "boolean", boolean |-> b]

Leaf(object, item, field, value) ==
    [object |-> object, item |-> item, field |-> field, value |-> value]

(* The objects of the two responses. *)
Top == << >>
CertificateList == <<"certificate-list">>
ServerNameList == <<"server-name-list">>
Profiles == <<"vendor", "profiles">>
ServerCertificate == <<"certificate">>

Items(d, object) == {l.item : l \in {x \in d : x.object = object}}

ValuesAt(d, object, item, field) ==
    {l.value : l \in {x \in d : x.object = object /\ x.item = item /\ x.field = field}}

TextsAt(d, object, item, field) == {v.text : v \in ValuesAt(d, object, item, field)}

(* Mutant: a field that is not there is read as a text. *)
TextAtNull(d, object, item, field) ==
    LET texts == TextsAt(d, object, item, field) IN
    IF texts = {} THEN "null" ELSE CHOOSE s \in texts : TRUE

TextAt(d, object, item, field) ==
    LET texts == TextsAt(d, object, item, field) IN
    IF texts = {} THEN NoName ELSE CHOOSE s \in texts : TRUE

----------------------------------------------------------------------------
(* How the appliance renders a configuration. *)

Style == [mark : Marks, flags : {"number", "boolean", "omitted", "text"}]

ASSUME StyleAssumption == Styles \subseteq Style

When(condition, leaf) == IF condition THEN {leaf} ELSE {}

Metadata == {"uuid", "a10-url"}

Generated(object, item, s) == {Leaf(object, item, field, Text(s.mark)) : field \in Metadata}

Flag(b, s) ==
    CASE s.flags = "boolean" -> {Boolean(b)}
      [] s.flags = "text" -> IF b THEN {Text("enabled")} ELSE {}
      [] OTHER -> IF b \/ s.flags = "number" THEN {Number(IF b THEN 1 ELSE 0)} ELSE {}

EntryOf(object, item, b, vendor, s) ==
    {Leaf(object, item, "cert", Text(b.cert)), Leaf(object, item, "key", Text(b.key))}
        \cup {Leaf(object, item, "shared", v) : v \in Flag(b.shared, s)}
        \cup When(b.chain # NoName \/ s.flags = "number",
                  Leaf(object, item, "chain-cert", Text(b.chain)))
        \cup When(vendor # NoName, Leaf(object, item, "vendor-field", Text(vendor)))
        \cup Generated(object, item, s)

(* The object in which the place p names its file, if it does. *)
Naming(p, object, item, fields) ==
    IF place[p] = NoName THEN {}
    ELSE {Leaf(object, item, field, Text(place[p])) : field \in fields}
            \cup Generated(object, item, style)

(* The client-SSL response. *)
Document ==
    {Leaf(Top, 0, "name", Text("template"))} \cup Generated(Top, 0, style)
        \cup (UNION {EntryOf(CertificateList, i, list[i], place["entry"], style) : i \in DOMAIN list})
        \cup Naming("sni", ServerNameList, 1, {"server-cert", "server-key"})
        \cup Naming("chain", Top, 0, {"chain-cert"})
        \cup Naming("proxy", Top, 0, {"forward-proxy-ca-cert"})
        \cup Naming("vendor", Profiles, 1, {"file"})

(* The server-SSL response. *)
ServerDocument ==
    {Leaf(Top, 0, "name", Text("backend"))} \cup Generated(Top, 0, style)
        \cup Naming("server", ServerCertificate, 0, {"cert", "key"})

(* What these documents are about. *)
Configuration == [certs |-> ToSet(list), place |-> place]

----------------------------------------------------------------------------
(* Decoding. *)

(* The answers of aXAPIBoolean, none for an error. *)
AXAPIBoolean(values) ==
    IF values = {} THEN {FALSE}
    ELSE {b \in BOOLEAN : Boolean(b) \in values \/ Number(IF b THEN 1 ELSE 0) \in values}

SharedAt(d, i) == AXAPIBoolean(ValuesAt(d, CertificateList, i, "shared"))

Decodable(d) == \A i \in Items(d, CertificateList) : SharedAt(d, i) # {}

(* CertificateBinding.UnmarshalJSON *)
DecodedBinding(d, i) ==
    [cert |-> TextAt(d, CertificateList, i, "cert"),
     key |-> TextAt(d, CertificateList, i, "key"),
     chain |-> TextAt(d, CertificateList, i, "chain-cert"),
     shared |-> TRUE \in SharedAt(d, i),
     uuid |-> TextAt(d, CertificateList, i, "uuid")]

(* ClientSSLTemplate.UnmarshalJSON: the fields the library knows, and the  *)
(* response as it came.                                                    *)
Decoded(d) ==
    [certs |-> [i \in Items(d, CertificateList) |-> DecodedBinding(d, i)],
     sni |-> {TextAt(d, ServerNameList, i, field) :
                 i \in Items(d, ServerNameList), field \in {"server-cert", "server-key"}},
     chain |-> TextAt(d, Top, 0, "chain-cert"),
     proxy |-> TextAt(d, Top, 0, "forward-proxy-ca-cert"),
     payload |-> d]

----------------------------------------------------------------------------
(* state.go *)

FourFields(b) == [cert |-> b.cert, key |-> b.key, chain |-> b.chain, shared |-> b.shared]

(* Mutant: only the outermost object loses its generated fields. *)
WithoutMetadataShallow(d) == {l \in d : l.object = Top => l.field \notin Metadata}

(* removeGeneratedA10Metadata *)
WithoutMetadata(d) == {l \in d : ({l.field} \cup ToSet(l.object)) \cap Metadata = {}}

(* Mutant: the bindings are fingerprinted in the order they came. *)
UnsortedBindings(certs) == [i \in 1 .. Len(certs) |-> FourFields(certs[i])]

(* Sorted bindings: equal exactly when they are the same bag. *)
SortedBindings(certs) == ToBag([i \in 1 .. Len(certs) |-> FourFields(certs[i])])

(* What ClientSSLTemplate.Revision hashes: the response without generated  *)
(* fields, its certificate list replaced by the sorted bindings.           *)
Revision(t) ==
    [bindings |-> SortedBindings(t.certs),
     rest |-> WithoutMetadata({l \in t.payload : "certificate-list" \notin ToSet(l.object)})]

(* A binding the caller asks for has no UUID yet. *)
Wanted(b) == [cert |-> b.cert, key |-> b.key, chain |-> b.chain, shared |-> b.shared,
              uuid |-> NoName]

SameBinding(left, right) == FourFields(left) = FourFields(right)

(* templateWithBinding *)
TemplateWithBinding(t, b) ==
    IF \E i \in DOMAIN t.certs : SameBinding(t.certs[i], b)
      THEN t
      ELSE [t EXCEPT !.certs = Append(@, Wanted(b))]

(* The loop of templateWithoutCertificate, and the function. *)
Without(certs, cert) ==
    LET kept[i \in 0 .. Len(certs)] ==
            IF i = 0 THEN << >>
            ELSE IF certs[i].cert = cert THEN kept[i - 1]
            ELSE Append(kept[i - 1], certs[i])
    IN  kept[Len(certs)]

TemplateWithoutCertificate(t, cert) == [t EXCEPT !.certs = Without(@, cert)]

----------------------------------------------------------------------------
(* deleteUnreferenced's scan. *)

(* Mutant: lists are not looked into. *)
ContainsTextInObjects(d, s) == \E l \in d : l.item = 0 /\ l.value = Text(s)

(* jsonValueContainsString *)
ContainsText(d, s) == \E l \in d : l.value = Text(s)

ClientReferences(t, n) ==
    \/ \E i \in DOMAIN t.certs : n \in {t.certs[i].cert, t.certs[i].key, t.certs[i].chain}
    \/ n \in t.sni \cup {t.chain, t.proxy}
    \/ ContainsText(t.payload, n)

(* serverTemplateReferences; the certificate it decodes is in the payload. *)
ServerReferences(d, n) == ContainsText(d, n)

----------------------------------------------------------------------------
(* The appliance lists entries in any order. *)
Orders(entries) == Bijection(1 .. Cardinality(entries), entries)

Init ==
    /\ list \in {<<b>> : b \in Entries}
    /\ place \in Uses
    /\ style \in {s \in Styles : s.flags # "text"}
    /\ expected = Decoded(Document)
    /\ believed = Configuration

(* GetClientSSLTemplate.  A response that does not decode is an error. *)
Read ==
    /\ Decodable(Document)
    /\ expected' = Decoded(Document)
    /\ believed' = Configuration
    /\ UNCHANGED <<list, place, style>>

(* The library binds b and predicts the result.  The appliance adds the    *)
(* entry, or lets it take the place of the only one.                       *)
Bind(b) ==
    /\ ~ Bound(Configuration, b.cert)
    /\ \/ /\ list' \in Orders(ToSet(list) \cup {b})
          /\ expected' = TemplateWithBinding(expected, b)
          /\ believed' = WithBinding(believed, b)
       \/ /\ Len(list) = 1
          /\ list' = <<b>>
          /\ expected' = TemplateWithoutCertificate(TemplateWithBinding(expected, b), list[1].cert)
          /\ believed' = WithoutCertificate(WithBinding(believed, b), list[1].cert)
    /\ UNCHANGED <<place, style>>

Unbind(cert) ==
    /\ Bound(Configuration, cert)
    /\ list' \in Orders({b \in ToSet(list) : b.cert # cert})
    /\ expected' = TemplateWithoutCertificate(expected, cert)
    /\ believed' = WithoutCertificate(believed, cert)
    /\ UNCHANGED <<place, style>>

(* Somebody else sets an entry or a use. *)
Edit ==
    /\ \/ \E b \in Entries : list' \in Orders({p \in ToSet(list) : p.cert # b.cert} \cup {b})
          /\ UNCHANGED place
       \/ place' \in Uses /\ UNCHANGED list
    /\ UNCHANGED <<style, expected, believed>>

(* The same configuration is answered differently from now on. *)
Regenerate ==
    /\ style' \in Styles
    /\ list' \in Orders(ToSet(list))
    /\ UNCHANGED <<place, expected, believed>>

Next ==
    \/ Read \/ Edit \/ Regenerate
    \/ \E b \in Entries : Bind(b)
    \/ \E n \in Names : Unbind(n)

Spec == Init /\ [][Next]_vars

----------------------------------------------------------------------------
Named == Names \cup {NoName}

Fields == Metadata \cup
    {"name", "cert", "key", "shared", "chain-cert", "vendor-field", "server-cert", "server-key",
     "forward-proxy-ca-cert", "file"}

Leaves ==
    [object : {Top, CertificateList, ServerNameList, Profiles}, item : Nat, field : Fields,
     value : [kind : {"text"}, text : Named \cup Marks \cup {"template", "enabled"}]
                \cup [kind : {"number"}, number : {0, 1}] \cup [kind : {"boolean"}, boolean : BOOLEAN]]

TypeOK ==
    /\ list \in Seq(Entries)
    /\ place \in Uses
    /\ style \in Styles
    /\ believed \in [certs : SUBSET Entries, place : Uses]
    /\ expected \in [certs : Seq([cert : Names, key : Names, chain : Named, shared : BOOLEAN,
                                  uuid : Marks \cup {NoName}]),
                     sni : SUBSET Named, chain : Named, proxy : Named, payload : SUBSET Leaves]

(* What the revision is about: the certificate list and the rest of the    *)
(* client-SSL template, fields the library does not know included -- but   *)
(* such fields only outside the entries of the list.                       *)
Fingerprinted(c) ==
    <<c.certs, [p \in Places \ {"entry", "server"} |-> c.place[p]]>>

(* A revision stands for the configuration: the template that is read has  *)
(* the predicted revision exactly when it is configured as predicted,      *)
(* however often the library bound and unbound in between and however the  *)
(* appliance orders, marks and encodes its answer (Revision,               *)
(* templateWithBinding, templateWithoutCertificate; sync.go 486-518).  The *)
(* conflict checks of CertSync compare configurations and rest on this.    *)
RevisionIsConfiguration ==
    Decodable(Document) =>
        (Revision(Decoded(Document)) = Revision(expected)
            <=> Fingerprinted(Configuration) = Fingerprinted(believed))

(* README.md 176-178 and state.go 14-18: the complete response, unknown    *)
(* vendor configuration fields included.  An entry's own unknown fields    *)
(* are lost when the list is replaced (state.go 66), so the code does not  *)
(* keep this.                                                              *)
EveryFieldCounts ==
    Decodable(Document) /\ Revision(Decoded(Document)) = Revision(expected)
        => place["entry"] = believed.place["entry"] \/ list = << >>

InService(c) ==
    {c.place[p] : p \in Places \ {"entry"}} \cup NamesIn(UNION {FilesOf(b) : b \in c.certs})
        \cup (IF c.certs = {} THEN {} ELSE {c.place["entry"]})

(* The scan before a delete finds every file that is in use, wherever a    *)
(* template names it, and no other (deleteUnreferenced, sync.go 811-845).  *)
ScanFindsUses ==
    LET answer == Decoded(Document)
        server == ServerDocument
    IN  Decodable(Document) =>
            \A n \in Names :
                ClientReferences(answer, n) \/ ServerReferences(server, n)
                    <=> n \in InService(Configuration)
====

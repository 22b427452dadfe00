---- MODULE SslTemplate ----
(***************************************************************************)
(* The data the synchronization works on: material files, certificate      *)
(* bindings and client-SSL templates, with the helpers of sync.go and      *)
(* state.go that select, add and remove bindings and that scan a template  *)
(* for references.                                                         *)
(*                                                                         *)
(* A template value is what ClientSSLTemplate.Revision fingerprints: the   *)
(* set of bindings (order is excluded by the code) and whatever else the   *)
(* response holds, of which only the material it refers to is kept, in     *)
(* the field extra (SNI entries, forward proxy, fields the library does    *)
(* not know).  Generated UUIDs and URLs are not part of the value, so two  *)
(* templates have the same revision exactly when they are equal.           *)
(***************************************************************************)
EXTENDS Integers, FiniteSets

CONSTANTS
    Names,       \* names of certificate, key and chain files
    NoName       \* the empty name: a binding without a chain

ASSUME NamesAssumption == NoName \notin Names

(* The appliance keeps certificates (chains among them) and keys in two    *)
(* stores; a key may have the name of a certificate.                       *)
File == {"cert", "key"} \X Names

Binding == [cert : Names, key : Names, chain : Names \cup {NoName}, shared : BOOLEAN]

NoBinding == [cert |-> NoName, key |-> NoName, chain |-> NoName, shared |-> FALSE]

Template == [certs : SUBSET Binding, extra : SUBSET File]

(* The pair a binding names, and its chain if it has one. *)
PairOf(b) == {<<"cert", b.cert>>, <<"key", b.key>>}
ChainOf(b) == IF b.chain = NoName THEN {} ELSE {<<"cert", b.chain>>}
FilesOf(b) == PairOf(b) \cup ChainOf(b)

(* Everything a template needs to be served. *)
TemplateFiles(t) == t.extra \cup UNION {FilesOf(b) : b \in t.certs}

(* The reference scan compares names only: a certificate and a key of the  *)
(* same name are one string to clientTemplateReferences.                   *)
NamesIn(files) == {f[2] : f \in files}

----------------------------------------------------------------------------
Bound(t, cert) == \E b \in t.certs : b.cert = cert          \* findBinding

WithBinding(t, b) == [t EXCEPT !.certs = @ \cup {b}]

WithoutCertificate(t, cert) ==
    [t EXCEPT !.certs = {b \in @ : b.cert # cert}]

(* Mutant: does not look whether the desired binding is already there. *)
SelectCurrentNotDesired(t, current, desired) ==
    IF current # NoName
      THEN {b \in t.certs : b.cert = current}
    ELSE IF t.certs = {}
      THEN {NoBinding}
    ELSE IF Cardinality(t.certs) = 1
      THEN t.certs
    ELSE {}

(* selectCurrentBinding: the binding a rotation replaces.  The result is   *)
(* the set of answers: one binding, NoBinding for an empty slot, or none   *)
(* where the code returns an error.                                        *)
SelectCurrent(t, current, desired) ==
    IF current # NoName
      THEN {b \in t.certs : b.cert = current}
    ELSE IF desired \in t.certs
      THEN {desired}
    ELSE IF t.certs = {}
      THEN {NoBinding}
    ELSE IF Cardinality(t.certs) = 1
      THEN t.certs
    ELSE {}

(* Mutant: the only binding of a slot is not remembered. *)
PreviousBindingNamedOnly(t, current) ==
    {b \in t.certs : current # NoName /\ b.cert = current}

(* The binding rollbackSynchronization restores, if any. *)
PreviousBinding(t, current) ==
    IF Cardinality(t.certs) = 1
      THEN t.certs
      ELSE {b \in t.certs : current # NoName /\ b.cert = current}
====

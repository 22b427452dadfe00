---- MODULE CertificateStore ----
(***************************************************************************)
(* What a rotation promises, seen from the appliance: at every moment and  *)
(* after every restart each template serves only material that is there,   *)
(* and a template in service never stops serving.  A binding comes in      *)
(* beside the others or instead of the only one, it is withdrawn only      *)
(* while another one stays, and a file is discarded only when no template  *)
(* refers to it.                                                           *)
(*                                                                         *)
(* live is the running configuration and saved the startup configuration.  *)
(***************************************************************************)
EXTENDS SslTemplate

CONSTANTS
    Templates,   \* client-SSL template names
    Bindings,    \* the bindings anybody asks for
    InService    \* templates that must never stop serving

VARIABLES live, saved

svars == <<live, saved>>

(* Files some template of a configuration refers to. *)
Refs(config) ==
    config.server \cup UNION {TemplateFiles(config.tmpl[t]) : t \in Templates}

Closed(config) == Refs(config) \subseteq config.files

Init == Closed(live) /\ saved = live

(* New material appears; nothing refers to it yet. *)
Stage ==
    \E F \in SUBSET (File \ live.files) :
        /\ F # {}
        /\ live' = [live EXCEPT !.files = @ \cup F]
        /\ UNCHANGED saved

(* A binding whose files are there joins the slot; an entry for the same   *)
(* certificate gives way.                                                  *)
Serve(t) ==
    \E b \in Bindings :
        /\ FilesOf(b) \subseteq live.files
        /\ live' = [live EXCEPT !.tmpl[t].certs = {p \in @ : p.cert # b.cert} \cup {b}]
        /\ UNCHANGED saved

(* The only binding of the slot is exchanged in one step. *)
Swap(t) ==
    \E b \in Bindings :
        /\ FilesOf(b) \subseteq live.files
        /\ Cardinality(live.tmpl[t].certs) = 1
        /\ live' = [live EXCEPT !.tmpl[t].certs = {b}]
        /\ UNCHANGED saved

(* A binding leaves a slot that keeps another one, or a slot that started  *)
(* empty.                                                                  *)
Withdraw(t) ==
    \E b \in live.tmpl[t].certs :
        /\ t \notin InService \/ \E p \in live.tmpl[t].certs : p.cert # b.cert
        /\ live' = [live EXCEPT !.tmpl[t] = WithoutCertificate(@, b.cert)]
        /\ UNCHANGED saved

(* Another part of the configuration starts to refer to a file. *)
Refer ==
    \E f \in live.files :
        /\ \/ live' = [live EXCEPT !.server = @ \cup {f}]
           \/ \E t \in Templates : live' = [live EXCEPT !.tmpl[t].extra = @ \cup {f}]
        /\ UNCHANGED saved

(* Files nothing refers to go away. *)
Discard ==
    \E F \in SUBSET (live.files \ Refs(live)) :
        /\ F # {}
        /\ live' = [live EXCEPT !.files = @ \ F]
        /\ UNCHANGED saved

Save == saved' = live /\ UNCHANGED live

Restart == live' = saved /\ UNCHANGED saved

Next ==
    \/ Stage \/ Refer \/ Discard \/ Save \/ Restart
    \/ \E t \in Templates : Serve(t) \/ Swap(t) \/ Withdraw(t)

Spec == Init /\ [][Next]_svars
====

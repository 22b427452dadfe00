---- MODULE MCCommandLine ----
(***************************************************************************)
(* Small instances of CommandLine.                                         *)
(***************************************************************************)
EXTENDS CommandLine

ChainNames == [n \in {"a"} |-> "a-chain"]

Old == [cert |-> "old", key |-> "oldkey", chain |-> NoName, shared |-> FALSE]
New == [cert |-> "a", key |-> "a", chain |-> "a-chain", shared |-> FALSE]

Import(name, bundle) ==
    [do |-> "import", name |-> name, bundle |-> bundle, chain |-> FALSE,
     replace |-> FALSE, write |-> TRUE]
BindTo(t, b) == [do |-> "bind", tmpl |-> t, binding |-> b, write |-> TRUE]
UnbindFrom(t, cert) == [do |-> "unbind", tmpl |-> t, cert |-> cert, write |-> TRUE]
Remove(cert, key, chain, ca) ==
    [do |-> "delete", cert |-> cert, key |-> key, chain |-> chain, ca |-> ca, write |-> TRUE]
Status(t, current) == [do |-> "status", tmpl |-> t, current |-> current, write |-> FALSE]
Other(what) == [do |-> what, write |-> what = "write-memory"]

(* The template serves the bundle "b0" under the name "old". *)
Initially ==
    {[tmpl |-> [t \in Templates |-> [certs |-> {Old}, extra |-> {}]],
      files |-> [f \in Stored |->
          IF f = <<"cert", "old">> THEN Piece("b0", "certificate")
          ELSE IF f = <<"key", "oldkey">> THEN Piece("b0", "key")
          ELSE Absent]]}

Budgets(fault, kill, reboot) == [fault |-> fault, kill |-> kill, reboot |-> reboot]

(* One shell rotates by hand and leaves the last step to the other to      *)
(* save.  The other one saves and looks on in the middle of it, and then   *)
(* imports another bundle under the same name.                             *)
TwoShells ==
    [s \in Shells |->
        IF s = "s1"
          THEN <<[Import("a", "b1") EXCEPT !.chain = TRUE],
                 BindTo("web", New),
                 UnbindFrom("web", "old"),
                 [Remove("old", "oldkey", NoName, "a") EXCEPT !.write = FALSE],
                 Other("show")>>
          ELSE <<Other("preflight"),
                 Status("web", NoName),
                 Other("write-memory"),
                 [Import("a", "b2") EXCEPT !.write = FALSE]>>]
OneOfEach == Budgets(1, 1, 1)
====

---- MODULE MCCertSync ----
(***************************************************************************)
(* Small instances of CertSync.  The templates "web" and "api" both serve  *)
(* the certificate "old" with its chain; the rotations bring in "new".     *)
(***************************************************************************)
EXTENDS CertSyncProperties

Old == [cert |-> "old", key |-> "old", chain |-> "oldchain", shared |-> FALSE]
Other == [cert |-> "other", key |-> "other", chain |-> NoName, shared |-> FALSE]
New == [cert |-> "new", key |-> "new", chain |-> "newchain", shared |-> FALSE]

Serving(bindings) == [certs |-> bindings, extra |-> {}]

(* "fresh" is a template that has no certificate yet. *)
Initially(bindings) == [t \in Templates |-> Serving(IF t = "fresh" THEN {} ELSE bindings)]

OldEverywhere == [tmpl |-> Initially({Old}), server |-> {}, files |-> FilesOf(Old)]

(* A slot among several: the caller names the binding to replace. *)
OneOfSeveral ==
    [tmpl |-> Initially({Old, Other}), server |-> {}, files |-> FilesOf(Old) \cup FilesOf(Other)]

(* Only "web" serves the old certificate, a server-SSL template refers to  *)
(* its key, and the new chain has been staged.                             *)
OldInUse ==
    [tmpl |-> [t \in Templates |-> IF t = "api" THEN Serving({Other}) ELSE Initially({Old})[t]],
     server |-> {<<"key", "old">>},
     files |-> FilesOf(Old) \cup FilesOf(Other) \cup {<<"cert", "newchain">>}]

RotateTo(t, b) ==
    [tmpl |-> t, current |-> NoName, name |-> b.cert, chain |-> b.chain,
     shared |-> b.shared, cleanup |-> TRUE, noWrite |-> FALSE, pinned |-> FALSE,
     create |-> FALSE]

Stage(b) == [RotateTo("web", b) EXCEPT !.create = TRUE]

Budgets(fault, edit, reboot, crash, calls) ==
    [fault |-> fault, edit |-> edit, reboot |-> reboot, crash |-> crash, call |-> calls]

Everybody(requests) == [c \in Callers |-> requests]
OneClient == [c \in Callers |-> "client"]
OwnClient == [c \in Callers |-> c]

(* One caller and everything that can go wrong around it. *)
AloneRequests ==
    Everybody({RotateTo("web", New),
               RotateTo("fresh", New),
               [RotateTo("web", New) EXCEPT !.noWrite = TRUE],
               [RotateTo("web", New) EXCEPT !.current = "old", !.pinned = TRUE],
               Stage(New)})
AloneConfigs == {OldEverywhere, OneOfSeveral, OldInUse}
AloneLimit == Budgets(2, 0, 1, 1, 1)

(* Two goroutines of one process bring the same bundle to two templates;   *)
(* one of them may also just stage it.                                     *)
Pairwise(c) ==
    IF c = "c1" THEN {RotateTo("web", New)} ELSE {RotateTo("api", New), Stage(New)}

SharedRequests == [c \in Callers |-> Pairwise(c)]
SharedConfigs == {OldEverywhere}
SharedLimit == Budgets(1, 0, 1, 1, 2)

(* GUI users edit while a call that keeps the old files is under way.      *)
OperatorsRequests ==
    Everybody({[RotateTo("web", New) EXCEPT !.cleanup = FALSE],
               [RotateTo("web", New) EXCEPT !.cleanup = FALSE, !.pinned = TRUE]})
OperatorsConfigs == {[OldEverywhere EXCEPT !.files = @ \cup FilesOf(Other)]}
OperatorsBindings == {Other}
OperatorsLimit == Budgets(2, 2, 0, 0, 1)

(* Two processes with file names of their own.  The goroutines of the      *)
(* first are "c1" and "c2", as above but on one explicit Session, which    *)
(* somebody closes at some moment; the second one stages another bundle.   *)
Own == [cert |-> "own", key |-> "own", chain |-> NoName, shared |-> FALSE]
SeparateClients == [c \in Callers |-> IF c = "c3" THEN "client" ELSE "session"]
SeparateRequests ==
    [c \in Callers |-> IF c = "c3" THEN {Stage(Own)} ELSE Pairwise(c)]
SeparateLimit == Budgets(1, 0, 0, 0, 2)

(* Two replicas of one process rotate the same template; nothing fails.    *)
ReplicaRequests == Everybody({[RotateTo("web", New) EXCEPT !.cleanup = FALSE]})

WebRequests == Everybody({RotateTo("web", New)})
NoFault == Budgets(0, 0, 0, 0, 2)
OneFault == Budgets(1, 0, 0, 0, 1)

(* One of several bindings, chosen by CurrentCertificate.                  *)
SeveralRequests == Everybody({[RotateTo("web", New) EXCEPT !.current = "old"]})
SeveralConfigs == {OneOfSeveral}
====

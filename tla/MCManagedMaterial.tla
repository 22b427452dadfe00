---- MODULE MCManagedMaterial ----
(***************************************************************************)
(* Small instances of ManagedMaterial: a leaf with its chain in one file   *)
(* or in several, a renewal with the same key, a cross-signed issuer, and  *)
(* files that are not accepted.                                            *)
(***************************************************************************)
EXTENDS ManagedMaterial

CONSTANTS web, long, manual, chain, odd, k1, k2, kI, kR, kX, none, secret

Cert(key, signer, ca, meta, until) ==
    [key |-> key, signer |-> signer, ca |-> ca, meta |-> meta, from |-> 0, until |-> until]

Leaf == Cert(k1, kI, FALSE, "leaf", 0)
Renewed == Cert(k1, kI, FALSE, "renewed", 2)
Lonely == Cert(k2, k2, FALSE, "lonely", 2)
Issuer == Cert(kI, kR, TRUE, "issuer", 2)
Cross == Cert(kI, kX, TRUE, "cross", 2)
Server == Cert(kI, kR, FALSE, "server", 2)
Root == Cert(kR, kR, TRUE, "root", 2)

Certificates == {Leaf, Renewed, Lonely, Issuer, Cross, Server, Root}

Pem(certs, key, chains) ==
    [certs |-> certs, key |-> [of |-> key, lock |-> none], passphrase |-> none, chains |-> chains]

ChainInputs ==
    {Pem(<<Leaf, Issuer>>, k1, <<>>),
     Pem(<<Leaf>>, k1, << <<Issuer>> >>),
     Pem(<<Leaf>>, k1, << <<Issuer>>, <<Root>> >>),
     Pem(<<Leaf>>, k1, << <<Root>>, <<Issuer>> >>),
     Pem(<<Renewed, Cross>>, k1, <<>>),
     Pem(<<Renewed, Server>>, k1, <<>>),
     Pem(<<Renewed, Root>>, k1, <<>>),
     [Pem(<<Lonely>>, k2, <<>>) EXCEPT !.key.lock = secret, !.passphrase = secret],
     [Pem(<<Renewed>>, k1, <<>>) EXCEPT !.key.lock = secret],
     Pem(<<Lonely>>, k1, <<>>)}

ClashingPrefixes == {<<odd, web>>, <<web, odd, chain>>, <<web, long, chain>>}
Names == {<<manual>>}

Budgets(calls, deletes, failures) ==
    [call |-> calls, delete |-> deletes, failure |-> failures]
MaterialLimit == Budgets(3, 1, 2)
====

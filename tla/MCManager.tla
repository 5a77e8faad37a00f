------------------------------- MODULE MCManager -------------------------------
(***************************************************************************)
(* Instances of Manager for TLC.                                           *)
(***************************************************************************)
EXTENDS Manager

CONSTANT r1

Single == {r1}

Quota  == [group |-> "", kind |-> "ResourceQuota"]
Issuer == [group |-> "cert-manager.io", kind |-> "Issuer"]
Route  == [group |-> "gateway.networking.k8s.io", kind |-> "HTTPRoute"]

WantsCerts == <<"certs">>

Good    == [exists  |-> TRUE,
            hasKey  |-> TRUE,
            parses  |-> TRUE,
            entries |-> [core |-> <<Quota>>, certs |-> <<Issuer>>]]
Wider   == [Good EXCEPT !.entries = [core |-> <<Quota, Route>>, certs |-> <<Issuer, Quota>>]]
Missing == [Good EXCEPT !.exists = FALSE]
NoCore  == [Good EXCEPT !.entries = [core |-> <<>>, certs |-> <<Issuer>>]]
NoCerts == [Good EXCEPT !.entries = [core |-> <<Route>>]]

AllContents == {Good, Wider, Missing, NoCore, NoCerts}

Elected   == [DefaultFlags EXCEPT !.leaderElect = TRUE]
AllFlags  == {Elected,
              [Elected EXCEPT !.requeueInterval = 0],
              [Elected EXCEPT !.finalizeRetryInterval = Unparsed]}
===============================================================================

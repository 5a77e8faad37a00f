------------------------- MODULE MCTenantController -------------------------
(***************************************************************************)
(* Instances of TenantController for TLC.                                  *)
(***************************************************************************)
EXTENDS LifecycleRefinement

Acme == [ns |-> "ops", name |-> "acme"]
Bolt == [ns |-> "ops", name |-> "bolt"]

OneTenant  == {Acme}
TwoTenants == {Acme, Bolt}

\* Two tenants and two environments that give one name, "acme-eu-dev".
AcmeEu     == [ns |-> "ops", name |-> "acme-eu"]
Namesakes  == {Acme, AcmeEu}

Quota  == [group |-> "", kind |-> "ResourceQuota"]
Issuer == [group |-> "cert-manager.io", kind |-> "Issuer"]

RegistryMap ==
    [exists  |-> TRUE,
     hasKey  |-> TRUE,
     parses  |-> TRUE,
     entries |-> [core |-> <<Quota>>, certs |-> <<Issuer, Quota>>]]

\* The operator starts only with a registry that loads.
ASSUME RegistryLoads == ~LoadFails(RegistryMap)

MCRegistry == Load(RegistryMap)

UserRef == SecretRef("creds", "user")
PassRef == SecretRef("creds", "pass")

Public  == [repoURL |-> "git/app", revision |-> "main", credentials |-> NoCredentials]
Private == [Public EXCEPT !.credentials =
               [type |-> "pat", first |-> UserRef, second |-> PassRef]]

\* One public repository, one environment.
Bare == [environments     |-> <<"dev">>,
         git              |-> <<Public>>,
         imagePullSecrets |-> <<>>,
         extensions       |-> <<>>,
         extraWhitelist   |-> <<>>,
         server           |-> "",
         preserve         |-> FALSE]

WithRepoSecret == [Bare EXCEPT !.git = <<Private>>]
WithPullSecret ==
    [Bare EXCEPT !.imagePullSecrets =
        <<[registry |-> "ghcr.io", username |-> Inline("bot"), password |-> PassRef]>>]
Retagged       == [WithRepoSecret EXCEPT !.git = <<[Private EXCEPT !.revision = "v2"]>>,
                                         !.preserve = TRUE]
PullingPrivate == [WithPullSecret EXCEPT !.git = <<Private>>]
Bumped         == [Bare EXCEPT !.git = <<[Public EXCEPT !.revision = "v2"]>>,
                              !.preserve = TRUE]
TwoStages      == [Bare EXCEPT !.environments = <<"dev", "prod">>]
BareCerts      == [Bare EXCEPT !.extensions = <<"certs">>]
Misspelt       == [Bare EXCEPT !.extensions = <<"cert">>]

Togglable  == {WithRepoSecret, Retagged}
Privately  == {PullingPrivate}
Credentials == {WithRepoSecret}
Mixed      == {BareCerts, Misspelt}
Shrinking  == {TwoStages, Bare}
JustBare   == {Bare}
Revised    == {Bare, Bumped}

InEurope   == [Bare EXCEPT !.environments = <<"eu-dev">>]
Ambiguous  == {Bare, InEurope}

Content(n) == [k \in {"user", "pass"} |-> k \o ToString(n)]
OneContent  == {Content(1)}
TwoContents == {Content(1), Content(2)}
===============================================================================

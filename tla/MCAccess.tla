------------------------------ MODULE MCAccess ------------------------------
(***************************************************************************)
(* Instances of Access for TLC: small configurations with every            *)
(* arrangement of tools and roles that the properties tell apart.          *)
(***************************************************************************)
EXTENDS Access

CONSTANTS alice, bob

Tool(key, baseUrl, keyRef) == [key |-> key, baseUrl |-> baseUrl, keyRef |-> keyRef]
Permission(tool, actions)  == [tool |-> tool, actions |-> actions]
Role(id, permissions)      == [id |-> id, permissions |-> permissions]

Git    == Tool(<<"git">>, <<"git.com">>, "GIT_KEY")
Pages  == Tool(<<"pages">>, <<"git.com", "/pages">>, "PAGES_KEY")
Mirror == Tool(<<"mirror">>, <<"git.com">>, "PAGES_KEY")
Again  == Tool(<<"git">>, <<"git.org">>, "PAGES_KEY")
Colon  == Tool(<<"git", "v2">>, <<"git.org">>, "PAGES_KEY")

Developer == Role("developer", <<Permission(<<"git">>, {"read", "update"}),
                                 Permission(<<"pages">>, {"read"})>>)
Admin     == Role("admin", <<Permission(<<"git">>, Actions), Permission(<<"git", "v2">>, Actions),
                             Permission(<<"mirror">>, Actions)>>)
Twice     == Role("admin", <<Permission(<<"git">>, {"read", "create"}),
                             Permission(<<"git">>, {"create", "delete"})>>)
Long      == Role("long", <<Permission(<<"git">>, Actions)>>)

Config(toolList, roleList) ==
    [tools |-> toolList, roles |-> roleList, substitutes |-> {"RBAC_CONTRACT_ADDRESS"}]

\* Overlapping, equal and no base URLs in both orders, a key that appears twice
\* or has a colon; a role id that cannot be padded, and a tool that a role names twice.
SomeConfigs ==
    {Config(<<Git, Pages>>,         <<Developer, Long, Admin>>),
     Config(<<Pages, Git>>,         <<Twice, Developer>>),
     Config(<<Git, Mirror, Pages>>, <<Developer, Admin>>),
     Config(<<Git, Again>>,         <<Developer, Admin>>),
     Config(<<Git, Colon>>,         <<Developer, Admin>>),
     Config(<< >>,                  <<Long>>)}

SomeHashes == {[id |-> "developer", padded |-> FALSE]}

Names == {"GIT_KEY", "PAGES_KEY", "RBAC_CONTRACT_ADDRESS", "AUDIT_CONTRACT_ADDRESS",
          "AUDIT_ENCRYPTION_KEY"}

Complete == [n \in Names |-> n]
SomeEnvs == {Complete} \union
    {[Complete EXCEPT ![n] = x] : n \in Names \ {"GIT_KEY"}, x \in {Unset, Empty}}

SomeTargets == {<<"git.com">>, <<"git.com", "/pages">>, <<"git.org">>}

BothAgents == {alice, bob}
TwoAccounts == <<alice, bob>>
=============================================================================

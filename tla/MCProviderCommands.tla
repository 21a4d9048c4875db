------------------------- MODULE MCProviderCommands -------------------------
(***************************************************************************)
(* Small instances of ProviderCommands for TLC: two containers, the tools  *)
(* of the database in one or in both, at one path or at two, and, on       *)
(* Kubernetes, a pod with another volume under the same name.              *)
(***************************************************************************)
EXTENDS ProviderCommands, TLC

CONSTANTS p, q, mysql, openldap

Interchangeable == Permutations(Attempts) \union Permutations(Objects)

Setting(o, paths, kinds, files) ==
    [orchestrator |-> o, path |-> paths, kind |-> kinds, content |-> files]

SmallSettings ==
    {Setting(o, <<p, p>>, <<"other", "database">>, mysql) :
        o \in {"docker", "kubernetes", "cattle"}}
    \union
    {Setting("kubernetes", <<p, p>>, <<"other", "database">>, files) :
        files \in {openldap, NoProvider}}
    \union
    {Setting("kubernetes", <<p, q>>, <<"database", "impostor">>, mysql),
     Setting("docker", <<p, q>>, <<"other", "database">>, mysql)}
=============================================================================

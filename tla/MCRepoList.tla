----------------------------- MODULE MCRepoList -----------------------------
(* An instance of RepoList for TLC: each kind of lister with the default    *)
(* limit, a smaller one and none; a list that is not kept; and two settings *)
(* that are refused. The types are mixed with registries where the choice  *)
(* depends on both.                                                        *)
EXTENDS RepoList

Five == 1 .. 5
AllButThree == Five \ {3}

SettingOf(r, t, n) == [registry |-> r, type |-> t, search |-> TRUE,
                       maxItems |-> n, cacheDuration |-> 0]
SomeSettings ==
    {SettingOf(p[1], p[2], n) :
        p \in {<<"other", "">>, <<"ecr", "catalog">>, <<"hub", "index">>,
              <<"hub", "dockerhub">>},
        n \in {-1, 0, 1}}
    \cup {[SettingOf("other", "catalog", 0) EXCEPT !.cacheDuration = -1],
          SettingOf("hub", "catalog", 0),
          [SettingOf("other", "index", 0) EXCEPT !.search = FALSE]}
=============================================================================

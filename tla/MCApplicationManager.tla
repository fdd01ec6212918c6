------------------------ MODULE MCApplicationManager ------------------------
EXTENDS ApplicationManager

\* Two siblings whose paths start alike: a change of <<"s">> concerns the second only.
MCKeys == {<<"s", "T">>, <<"s", "/", "a">>}
MCChangePaths == {<<"s">>, <<"s", "T">>}
Symmetry == Permutations(Requests)
=============================================================================

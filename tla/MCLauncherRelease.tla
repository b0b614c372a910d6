-------------------------- MODULE MCLauncherRelease --------------------------
EXTENDS LauncherRelease

\* 1.9.0, 1.10.0-b.2, 1.10.0-b.11
MCVersion ==
  LET one == <<1>>  ten == <<1, 0>>  b == <<37>>
  IN  << [core |-> <<one, <<9>>, <<0>>>>, prerelease |-> <<>>],
         [core |-> <<one, ten, <<0>>>>, prerelease |-> <<b, <<2>>>>],
         [core |-> <<one, ten, <<0>>>>, prerelease |-> <<b, <<1, 1>>>>] >>

tag(v) == [core |-> Version[v].core, prerelease |-> Version[v].prerelease, build |-> <<>>,
           parts |-> IF Version[v].prerelease = <<>> THEN {} ELSE {"-"}]

release(v) == [tag |-> tag(v), draft |-> FALSE, asset |-> TRUE, prerelease |-> v # 1]

latest == [release(3) EXCEPT !.tag.core = <<<<47>>>>]         \* no version at all
padded == [release(3) EXCEPT !.tag.core[1] = <<0, 1>>]        \* 01.10.0-b.11
unflagged == [release(3) EXCEPT !.prerelease = FALSE]
flagged == [release(1) EXCEPT !.prerelease = TRUE]
draft == [release(3) EXCEPT !.draft = TRUE]
bare == [release(3) EXCEPT !.asset = FALSE]

\* Ascending, descending, and mixed with releases that must not be chosen.
MCLists ==
  { <<release(1)>>, <<release(2)>>, <<release(1), release(2), release(3)>>,
    <<release(3), release(2), release(1)>>,
    <<latest, release(2), release(1)>>, <<padded, release(1)>>,
    <<unflagged, release(1)>>, <<flagged, unflagged>>,
    <<draft, release(2), bare>>, <<bare, draft, latest>> }
=============================================================================

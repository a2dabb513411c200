------------------------------ MODULE MCSlices ------------------------------
(***************************************************************************)
(* Manifests of up to four slices in a repository of three files.          *)
(***************************************************************************)
EXTENDS Slices

CONSTANTS a, b, c, d, gone, api, web, models, views

MCId == {a, b, c, d, gone}
MCSegment == {api, web, models, views}
MCFile == {<<api, models>>, <<api, views>>, <<web, models>>}

Item(i, n, f) == [id |-> i, needs |-> n, files |-> f]

\* Nothing declared, a directory, everything in it, a file, a file of another
\* directory, everything.
Declared ==
  {{}, {<<api>>}, {<<api, Star>>}, {<<api, models>>}, {<<api, views>>, <<web, models>>}, {<<Star>>}}

Two == {<<Item(a, m, f), Item(i, n, g)>> :
          m, n \in {{}, {a}, {b}, {gone}}, i \in {a, b, None}, f, g \in Declared}

Three == {<<Item(a, {}, f), Item(b, m, g), Item(c, n, {<<web, Star>>})>> :
            m \in {{}, {a}, {c}}, n \in {{}, {b}, {a, b}}, f, g \in Declared}

Four == {<<Item(a, {}, {<<api>>}), Item(b, m, {<<api, models>>}),
           Item(c, n, f), Item(d, {c}, {<<web, models>>})>> :
            m \in {{}, {c}, {a}, {d}}, n \in {{}, {a}, {a, b}},
            f \in {{}, {<<api, views>>}, {<<web>>}}}

MCManifests == Two \cup Three \cup Four

\* Globs that begin with a wildcard.
MCLeading == {<<Item(a, {}, {<<Star, models>>}), Item(b, n, {<<api, Star>>})>> : n \in {{}, {a}}}

=============================================================================

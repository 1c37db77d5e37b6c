---------------------------- MODULE MCModContent ----------------------------
(***************************************************************************)
(* An instance with two names for jars, a project that keeps its file name *)
(* or gives its second release another.                                    *)
(***************************************************************************)
EXTENDS ModContent

MCPublications == {<<"a", "a">>, <<"a", "b">>}
=============================================================================

----------------------------- MODULE MCServices -----------------------------
(***************************************************************************)
(* Services for TLC, each component on a small instance of its own.        *)
(***************************************************************************)
EXTENDS Services, TLC

\* SearchBox: the short query, one with two suggestions and one with a single one.
MCHits == "" :> 0 @@ "an" :> 2 @@ "ann" :> 1
\* DirectoryCache: everybody fills two pages.
MCPages == "all" :> 2 @@ "some" :> 1

MCSymmetry == {t @@ a : t \in Permutations(Files), a \in Permutations(Workers)}
=============================================================================

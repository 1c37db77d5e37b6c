---------------------------- MODULE LoaderBuilds ------------------------------
(***************************************************************************)
(* Which builds of a mod loader are offered for a version of Minecraft:    *)
(* the choices of VersionCreationCatalogService in                         *)
(* application/version_creation.py, as functions of what the loader's      *)
(* service lists as stable and lists at all.                               *)
(***************************************************************************)
EXTENDS Naturals, Sequences, FiniteSets, SequencesExt

\* A build: its numbers, and the word and number of a prerelease.
PrereleaseRank == [snapshot |-> 1, alpha |-> 2, beta |-> 3, pre |-> 4, rc |-> 5]
StableRank == 10
IsPrerelease(b) == b.word \in DOMAIN PrereleaseRank
Build == [nums : Seq(Nat), word : {"release"} \cup DOMAIN PrereleaseRank, pre : Nat]

SortKey(b) ==
    b.nums \o <<IF IsPrerelease(b) THEN PrereleaseRank[b.word] ELSE StableRank, b.pre>>
NewerBuild(b, c) ==
    \E i \in 1..Len(SortKey(b)) :
        /\ SortKey(b)[i] > SortKey(c)[i]
        /\ \A j \in 1..(i - 1) : SortKey(b)[j] = SortKey(c)[j]

\* The newest first: each has as many before it as are newer.
SortBuilds(builds) ==
    [i \in 1..Cardinality(builds) |->
        CHOOSE b \in builds : Cardinality({c \in builds : NewerBuild(c, b)}) = i - 1]

\* Releases of one line have their first two numbers in common; a prerelease is
\* of a family with those of its version and word.
Family(b) ==
    IF IsPrerelease(b) THEN <<"unstable", b.nums, b.word>>
    ELSE <<"stable", SubSeq(b.nums, 1, 2)>>
Compact(builds, selected) == {b \in builds : Family(b) = Family(selected)}
Newest(builds) == CHOOSE b \in builds : \A c \in builds \ {b} : NewerBuild(b, c)

\* _loader_build_choices: compact is for the loaders with one line at a time.
BuildChoices(stable, listed, compact, unstable) ==
    LET all == stable \cup listed
        newest == Compact(all, Newest(all))
        released == Compact(all, Newest(stable))
    IN  IF ~unstable
        THEN IF stable = {} THEN <<>>
             ELSE SortBuilds(IF compact THEN released ELSE stable)
        ELSE IF all = {} THEN <<>>
             ELSE IF ~compact THEN SortBuilds(all)
             ELSE IF stable = {} THEN SortBuilds(newest)
             ELSE SortBuilds(newest) \o SortBuilds(released \ newest)
=============================================================================

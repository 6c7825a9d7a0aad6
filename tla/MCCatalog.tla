------------------------------ MODULE MCCatalog ------------------------------
(* Small instance of Catalog: two paths under nested roots, files of two other  *)
(* devices; three variants of one album that share tracks, and an album of      *)
(* another cluster of the same family.                                          *)
EXTENDS Catalog, Availability, TLC
CONSTANTS p1, p2, r1, r2, top, sub, tA, tB, uB, uC, wD, me, you

MCUnder    == top :> {p1, p2} @@ sub :> {p2}
MCHolds    == p1 :> {tA, tB} @@ p2 :> {wD} @@ r1 :> {uB} @@ r2 :> {uC, tB}
MCTrackOf  == tA :> "t" @@ tB :> "t" @@ uB :> "u" @@ uC :> "u" @@ wD :> "w"
MCAlbumOf  == tA :> "A" @@ tB :> "B" @@ uB :> "B" @@ uC :> "C" @@ wD :> "D"
MCArtistOf == "t" :> "x" @@ "u" :> "y" @@ "w" :> "x"
              @@ "A" :> "x" @@ "B" :> "x" @@ "C" :> "x" @@ "D" :> "z"
MCClusterOf == "A" :> "K" @@ "B" :> "K" @@ "C" :> "K" @@ "D" :> "L"
MCFamilyOf  == "K" :> "F" @@ "L" :> "F"
MCDisk  == p1 :> tA @@ p2 :> wD
MCFiles == p1 :> tA @@ p2 :> wD @@ r1 :> uB @@ r2 :> None
MCPreferred == {"A", "B"}

MCLibraryOf  == "v1" :> "V" @@ "v2" :> "V" @@ "w" :> "W"
MCGrade      == "v1" :> 1 @@ "v2" :> 2 @@ "w" :> 1
MCVariantOf  == "s1" :> "v1" @@ "s2" :> "v2" @@ "s3" :> "v1" @@ "s4" :> "w"
MCOwnerOf    == "s1" :> "here" @@ "s2" :> "here" @@ "s3" :> "there" @@ "s4" :> "there"
MCNewness    == "s1" :> 1 @@ "s2" :> 2 @@ "s3" :> 3 @@ "s4" :> 4
MCAlbumCluster == "a" :> "AB" @@ "b" :> "AB"
MCTracksOf   == "a" :> {"v1", "w"} @@ "b" :> {"v2"}
MCAlbumGrade == "a" :> 1 @@ "b" :> 2
MCMachines   == {"here", "there"}

\* Tables with a library recording of two variants: which files are present, which
\* of the own are gone from the disk, who holds copies of s2 and s3, whether the
\* other device is a member that was seen, and what is preferred and pinned.
MCDatabases ==
    [present : {{"s4"} \cup x : x \in SUBSET {"s1", "s2", "s3"}},  gone : {{}, {"s1"}},
     encoded : {{"s2", "s3"}},  cached : SUBSET (MCMachines \X {"s2", "s3"}),
     lost : {{}, {"s3"}},  role : {"here" :> "member" @@ "there" :> r : r \in {"member", "guest", "none"}},
     seen : {{}, {"there"}},  network : BOOLEAN,  liked : {{}, {"v1"}},  likedAlbums : {{}},
     pins : {{[cluster |-> "V", variant |-> "v1", logical |-> FALSE],
              [cluster |-> "W", variant |-> "w",  logical |-> TRUE]}},
     albumPins : {{"b"}}]

MCInit == Init /\ NoLookup
MCNext == \/ Next /\ NoLookup /\ UNCHANGED tables
          \/ (\A n \in DOMAIN counts : counts[n] = 0) /\ Look /\ UNCHANGED vars
MCSpec == MCInit /\ [][MCNext]_<<vars, tables>>
===============================================================================

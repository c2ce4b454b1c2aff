--------------------------- MODULE MCFetchArchive ---------------------------
(* Instances of FetchArchive for TLC. *)
EXTENDS FetchArchive

CONSTANTS m, a, j1, j2, j3, om, oa, o1, o2, o3, f1, work, stage, w1, w2

FiveJobs == {m, a, j1, j2, j3}
ThreeFiles == {j1, j2, j3}
FiveObjects == {om, oa, o1, o2, o3}
OwnObject == [j \in Jobs |-> CASE j = m -> om [] j = a -> oa
                               [] j = j1 -> o1 [] j = j2 -> o2 [] j = j3 -> o3]
\* One file that may be tried twice, or two that are fetched at once.
OneOrTwoFiles == {{j1}, {j2, j3}}
FirstFileRetries == [j \in Jobs |-> IF j \in {j1, a} THEN 1 ELSE 0]
OneFuzz == {f1}
TwoDirs == {work, stage}
InStaging == [j \in Jobs |-> IF j \in {m, a} THEN stage ELSE work]
TwoWorkers == {w1, w2}
EveryType == {"Manifest", "ZipArchive", "TarGzArchive", "Tar"}

\* A workspace of two names, x in the folder d or at the top.
FileInD == <<"d", "x">>
FileX == <<"x">>
FileD == <<"d">>
ThreePlaces == {FileInD, FileX, FileD}
Dir == [kind |-> "dir", name |-> FileD, id |-> 0, len |-> 0]
File(p, id, len) == [kind |-> "file", name |-> p, id |-> id, len |-> len]
Link(p, id) == [kind |-> "link", name |-> p, id |-> id, len |-> 1]

\* The folder before its file or after it, a link, a name that comes twice.
SomeArchives ==
  { <<Dir, File(FileInD, 1, 2), Link(FileX, 2)>>,
    <<File(FileInD, 1, 2), Dir>>,
    <<File(FileX, 1, 2), File(FileX, 2, 1)>> }
OtherArchive == { <<File(FileX, 3, 1)>> }

Old(p, len) == [i \in 1 .. len |-> <<p, 0, i>>]
EmptyPlaces == [p \in Places |-> NoBlocks]
\* A longer file, or a file where a folder will be wanted.
SomeWorkspaces ==
  { [EmptyPlaces EXCEPT ![FileInD] = Old(FileInD, 3)],
    [EmptyPlaces EXCEPT ![FileD] = Old(FileD, 1)] }
=============================================================================

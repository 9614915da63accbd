----------------------------- MODULE MCBrowser -----------------------------
(* Small instances of the user interface for TLC.                          *)
EXTENDS Site, TLC

CONSTANT Sub  \* a directory below the root

\* The root holds the directory Sub and the files 2 to 5, Sub the files 6 to 8.
\* The filter finds a file in each.
RootAndSub == {Root, Sub}
AboveSub == Sub :> {Root} @@ Root :> {}
FilesOf == Sub :> <<6, 7, 8>> @@ Root :> <<1, 2, 3, 4, 5>>
SubIsOne == [e \in 1 .. 8 |-> IF e = 1 THEN Sub ELSE None]
Filter == [q \in Queries |-> IF q = All THEN 1 .. 8 ELSE {3, 7}]
Symmetry == Permutations(Slots)
OnOff == {"on", "off"}
=============================================================================

------------------------- MODULE MCTransferSession -------------------------
(***************************************************************************)
(* Small manifests for TLC.  Sizes are in blocks of the chunk size.        *)
(***************************************************************************)
EXTENDS TransferRefinement

\* Two files, one of two blocks and an empty one.
SizesTwoZero == <<2, 0>>
PathsDistinct == <<"a", "b">>

\* Two files of one sanitised path, the second longer than the first.
SizesOneTwo == <<1, 2>>
PathsSame == <<"a", "a">>

\* Three files, two of the same sanitised path, one of them empty.
SizesThree == <<1, 2, 0>>
PathsShared == <<"a", "b", "a">>

\* Four files, longer ones, the last of a path that is taken.
SizesFour == <<3, 2, 0, 2>>
PathsFour == <<"a", "b", "c", "a">>

\* The name of the first is that of the second's .partial file, and so are the
\* names of their renamed copies; the last is of a path that is taken.
PathsDotted == <<"a.partial", "a", "c", "a">>
PartialOfA == {<<<<"a", n>>, <<"a.partial", n>>>> : n \in 0..MaxCopies}

\* The first of two files has lost a block since its manifest was built.
SizesOneZero == <<1, 0>>
=============================================================================

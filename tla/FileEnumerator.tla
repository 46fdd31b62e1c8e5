--------------------------- MODULE FileEnumerator ---------------------------
(***************************************************************************)
(* The manifest of what was selected: each file by its name, each folder   *)
(* by the files found under it, numbered from 0 through all of them.       *)
(***************************************************************************)
EXTENDS Naturals, Sequences, SequencesExt

CONSTANTS
    FilePaths, FolderPaths,     \* paths that exist
    BaseName,                   \* the last component of each path
    SizeOf,                     \* the size of each of FilePaths
    Inside                      \* for each of FolderPaths, the files under it: the
                                \* path relative to the folder, and the size

\* A walk through a folder lists each file under it once.
ASSUME EnumeratorAssumption ==
    \A p \in FolderPaths :
        /\ Inside[p] \in Seq(ToSet(Inside[p]))
        /\ \A i \in DOMAIN Inside[p] : Inside[p][i].path \in Seq(ToSet(Inside[p][i].path))
        /\ \A i, k \in DOMAIN Inside[p] : Inside[p][i].path = Inside[p][k].path => i = k

Item(relativePath, fileSize) ==
    [fileIndex |-> 0, relativePath |-> relativePath, fileSize |-> fileSize,
     modifiedTime |-> <<"modified", relativePath>>, blake3Checksum |-> ""]

\* What one input path adds; a path that is gone adds nothing.
ItemsOf(path) ==
    IF path \in FilePaths THEN <<Item(<<BaseName[path]>>, SizeOf[path])>>
    ELSE IF path \in FolderPaths
    THEN [i \in DOMAIN Inside[path] |->
             Item(<<BaseName[path]>> \o Inside[path][i].path, Inside[path][i].size)]
    ELSE <<>>

\* Mutant of Numbered: counted from one.
NumberedFromOne(items) == [i \in DOMAIN items |-> [items[i] EXCEPT !.fileIndex = i]]

Numbered(items) == [i \in DOMAIN items |-> [items[i] EXCEPT !.fileIndex = i - 1]]

EnumeratePaths(inputPaths) ==
    LET items == Numbered(FlattenSeq([k \in DOMAIN inputPaths |-> ItemsOf(inputPaths[k])]))
    IN  [items |-> items, totalFiles |-> Len(items),
         totalBytes |-> FoldSeq(LAMBDA item, n : item.fileSize + n, 0, items)]
=============================================================================

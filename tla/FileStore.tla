----------------------------- MODULE FileStore -----------------------------
(***************************************************************************)
(* The two disk ends of a transfer: FileReader on the sending machine,     *)
(* FileWriter on the receiving one.                                        *)
(*                                                                         *)
(* A file is cut into blocks of the transfer's chunk size; block k of      *)
(* manifest entry i is <<i, k>>.  Sizes and offsets count blocks, and      *)
(* manifest entries are numbered from 1 (the code's fileIndex plus one).   *)
(* A BLAKE3 digest is the sequence of blocks fed to the hasher: two        *)
(* digests are equal exactly when the same data was hashed.                *)
(*                                                                         *)
(* The receiving disk holds two maps, from names to contents: the          *)
(* committed files and the ".partial" files.  A name <<p, n>> is the path  *)
(* p, with n = 0, or its n-th renamed copy "p (n)".  A content is a        *)
(* sequence of blocks, with Hole where nothing was ever written.  Both     *)
(* kinds of files are in one folder: the .partial of "a" and a committed   *)
(* "a.partial" are one file, which DotPartial says.                        *)
(*                                                                         *)
(* A .partial file is what its writer sees through QFile's buffer.  A      *)
(* chunk has 1 MiB at least, except a file's last one, so only this one    *)
(* can be smaller than the buffer and wait there for flush() or close().   *)
(***************************************************************************)
EXTENDS Naturals, Sequences

CONSTANTS
    NumFiles,         \* entries of the sender's manifest
    ManifestSize,     \* size of each entry when the manifest was built
    SourceSize,       \* size of each source file when it is opened to be sent
    RelPath,          \* sanitised relative path of each entry
    MaxCopies,        \* bound: renamed copies "p (1)" .. "p (MaxCopies)"
    SmallTail,        \* entries whose last block is smaller than QFile's buffer
    DotPartial,       \* <<m, n>>: the .partial of the name m is the file n
    PreallocExtends,  \* allocation can grow the file (Linux, Windows' fallback)
    Hole              \* the zeros of a region that was allocated, not written

Files == 1..NumFiles
Paths == {RelPath[i] : i \in Files}
Block == Files \X (Nat \ {0})
Name == Paths \X Nat
NoName == <<>>                    \* the empty QString of a writer not set up

ASSUME SizesAssumption ==
    /\ NumFiles \in Nat \ {0}
    /\ ManifestSize \in [Files -> Nat]
    /\ SourceSize \in [Files -> Nat]
    /\ MaxCopies \in Nat
    /\ PreallocExtends \in BOOLEAN
    /\ DOMAIN RelPath = Files
    /\ SmallTail \subseteq {i \in Files : SourceSize[i] > 0}
    /\ DotPartial \subseteq {p \in Name \X Name : p[1] # p[2]}

Policies == {"Ask", "Replace", "Skip", "Rename"}

Source(i) == [k \in 1..SourceSize[i] |-> <<i, k>>]

-----------------------------------------------------------------------------
(* Maps with a domain: which files exist.                                  *)

Put(f, n, c) == [m \in DOMAIN f \cup {n} |-> IF m = n THEN c ELSE f[m]]
Drop(f, gone) == [m \in DOMAIN f \ gone |-> f[m]]

EmptyDisk == [final |-> [n \in {} |-> <<>>], partial |-> [n \in {} |-> <<>>]]

\* The committed file that is the .partial of m, if there is one, and the
\* .partial that has the name n.
FinalsAt(m) == {p[2] : p \in {q \in DotPartial : q[1] = m}}
PartialsAt(n) == {p[1] : p \in {q \in DotPartial : q[2] = n}}

Exists(d, n) == n \in DOMAIN d.final \/ PartialsAt(n) \cap DOMAIN d.partial # {}
PartialExists(d, m) == m \in DOMAIN d.partial \/ FinalsAt(m) \cap DOMAIN d.final # {}

-----------------------------------------------------------------------------
(* FileReader.                                                             *)

NoReader == [has |-> FALSE, open |-> FALSE, file |-> 1, size |-> 0,
             off |-> 0, hashed |-> <<>>]

NewReader(i) == [NoReader EXCEPT !.has = TRUE, !.file = i]

\* Mutant of OpenReader: the hasher is not fast-forwarded.
OpenReaderUnhashed(i, start) ==
    [has |-> TRUE, open |-> TRUE, file |-> i, size |-> SourceSize[i],
     off |-> IF start <= SourceSize[i] THEN start ELSE 0, hashed |-> <<>>]

\* Opened at start: the hasher is fast-forwarded over the skipped blocks, and
\* an offset beyond the end of the file is silently replaced by 0.
OpenReader(i, start) ==
    LET skip == IF start <= SourceSize[i] THEN start ELSE 0
    IN  [has |-> TRUE, open |-> TRUE, file |-> i, size |-> SourceSize[i],
         off |-> skip, hashed |-> SubSeq(Source(i), 1, skip)]

\* What a failed open leaves behind: the file did not open at all, or the
\* fast-forward ran out of data after some blocks.
OpenFailures(i, start) ==
    {NewReader(i)} \cup
    {[NewReader(i) EXCEPT !.hashed = SubSeq(Source(i), 1, k)] :
        k \in {j \in 0..SourceSize[i] : j < start /\ start <= SourceSize[i]}}

CloseReader(r) == [r EXCEPT !.open = FALSE, !.size = 0, !.off = 0]

\* Mutant of IsAtEnd: one chunk too many.
IsPastEnd(r) == ~r.open \/ r.off > r.size

IsAtEnd(r) == ~r.open \/ r.off >= r.size

\* Mutant of NextBlock: blocks counted from zero.
NextBlockFromZero(r) == <<r.file, r.off>>

NextBlock(r) == <<r.file, r.off + 1>>

ReadNextChunk(r) ==
    [r EXCEPT !.off = @ + 1, !.hashed = Append(@, NextBlock(r))]

-----------------------------------------------------------------------------
(* FileWriter.                                                             *)

NoWriter == [has |-> FALSE, open |-> FALSE, target |-> NoName,
             partial |-> NoName, hashed |-> <<>>]

NewWriter == [NoWriter EXCEPT !.has = TRUE]

CloseWriter(w) == [w EXCEPT !.open = FALSE]

\* The candidate names resolveUniqueName settles on: "p (n)" for the smallest
\* n whose file and whose .partial are both absent.
UniqueNames(d, p) ==
    LET taken(n) == Exists(d, <<p, n>>) \/ PartialExists(d, <<p, n>>)
    IN  {<<p, n>> : n \in {m \in 1..MaxCopies :
                             ~taken(m) /\ \A k \in 1..(m - 1) : taken(k)}}

\* Mutant of Targets: an existing file is not looked for.
TargetsUnchecked(d, i, policy) == {<<RelPath[i], 0>>}

\* Where open() writes: the path itself, or what the policy makes of it when a
\* file has that name already.
Targets(d, i, policy) ==
    LET own == <<RelPath[i], 0>>
    IN  IF Exists(d, own) /\ policy \in {"Rename", "Ask"}
        THEN UniqueNames(d, RelPath[i])
        ELSE {own}

SkippedByPolicy(d, i, policy) ==
    policy = "Skip" /\ Exists(d, <<RelPath[i], 0>>)

\* What an allocation may leave: its failure is ignored, and it may reserve
\* space without growing the file.
Preallocations(i) ==
    {[k \in 1..n |-> Hole] : n \in {0} \cup {m \in {ManifestSize[i]} : PreallocExtends}}

\* The disk once open() has cleared the way for target: a file to be replaced
\* and whatever has the name of its .partial are gone.
Cleared(d, target) ==
    [final |-> Drop(d.final, {target} \cup FinalsAt(target)),
     partial |-> Drop(d.partial, {target} \cup PartialsAt(target))]

OpenedDisk(d, target, allocated) ==
    [Cleared(d, target) EXCEPT !.partial = Put(@, target, allocated)]

OpenedWriter(target) ==
    [has |-> TRUE, open |-> TRUE, target |-> target, partial |-> target,
     hashed |-> <<>>]

\* Mutant of Written: the .partial file is opened for appending.
WrittenAtEnd(c, off, blk) == Append(c, blk)

\* A block written at an offset; whatever lies before it and was never
\* written is a hole.
Written(c, off, blk) ==
    [k \in 1..(IF off < Len(c) THEN Len(c) ELSE off + 1) |->
        IF k = off + 1 THEN blk ELSE IF k <= Len(c) THEN c[k] ELSE Hole]

WriteToDisk(d, w, off, blk) ==
    [d EXCEPT !.partial = Put(@, w.partial, Written(@[w.partial], off, blk))]

\* A block that write() leaves in QFile's buffer, and a writer that has one there.
Buffered(blk) == blk[1] \in SmallTail /\ blk[2] = SourceSize[blk[1]]
LastHashed(w) == w.hashed[Len(w.hashed)]
HasBuffered(w) == w.open /\ w.hashed # <<>> /\ Buffered(LastHashed(w))

\* A content without its k-th block, in a region that was allocated or at the
\* end of the file.
Without(c, k) ==
    {[c EXCEPT ![k] = Hole]} \cup {e \in {SubSeq(c, 1, k - 1)} : k = Len(c)}

\* The disks on which the buffer of w has not arrived.
Unflushed(d, w) ==
    IF HasBuffered(w)
    THEN {[d EXCEPT !.partial = Put(@, w.partial, c)] :
             c \in Without(d.partial[w.partial], LastHashed(w)[2])}
    ELSE {}

\* Mutant of Verified: the digests are not compared.
VerifiedUnseen(w, hash) == TRUE

\* Mutant of HalfCommitted: the .partial file is removed with the old copy.
HalfCommittedClean(d, w) ==
    [final |-> Drop(d.final, {w.target}), partial |-> Drop(d.partial, {w.partial})]

\* finalizeAndCommit: only a matching digest has a file removed or renamed, and
\* then the file of the target's name goes first and the .partial is renamed to
\* it.  (No committed file has the name of the .partial: open() has removed it,
\* and nothing is committed until the next open().)
Verified(w, hash) == w.hashed = hash
Renamable(d, w) == w.partial \in DOMAIN d.partial
Committed(d, w) ==
    [final |-> Put(d.final, w.target, d.partial[w.partial]),
     partial |-> Drop(d.partial, {w.partial} \cup PartialsAt(w.target))]
\* The removal has happened and the rename has not.
HalfCommitted(d, w) ==
    [final |-> Drop(d.final, {w.target}),
     partial |-> Drop(d.partial, PartialsAt(w.target))]
=============================================================================

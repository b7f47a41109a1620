----------------------------- MODULE Initramfs ------------------------------
(***************************************************************************)
(* The initial ram file system (fs/initramfs/initramfs.cpp) as functions   *)
(* of the tar archive: the entries that it keeps, and the children that it *)
(* lists for a directory by comparing names.  A name is the sequence of    *)
(* its characters, since what is listed depends on them.                   *)
(***************************************************************************)
EXTENDS Naturals, SequencesExt

\* String::subString(begin), and String::startsWith(other)
SubString(s, begin) == SubSeq(s, begin + 1, Len(s))
StartsWith(s, other) == Len(s) >= Len(other) /\ SubSeq(s, 1, Len(other)) = other

\* String::findNext(c) # nullptr: it does not look at the first character.
FindsNext(s, c) == \E k \in 2 .. Len(s) : s[k] = c

\* A trailing slash is cut off.
EntryName(s) == IF s # <<>> /\ Last(s) = "/" THEN Front(s) ELSE s

\* The blocks from one header to the next: the header, and the file rounded up.
BLOCK == 512
Advance(size) == (size + BLOCK - 1) \div BLOCK + 1

\* InitramfsFsProvider(): the files and directories among the headers, up to
\* the first block without the signature.  The archive is a sequence of blocks;
\* a block of data, which may look like a header, is stepped over.
Entries(tar) ==
  LET from[b \in 1 .. Len(tar)] ==
        IF ~tar[b].ustar THEN <<>>
        ELSE (IF tar[b].type \notin {"FILE", "DIRECTORY"} THEN <<>>
              ELSE <<[name |-> EntryName(tar[b].name), type |-> tar[b].type, size |-> tar[b].size]>>)
             \o from[b + Advance(tar[b].size)]
  IN  from[1]

\* read(node, offset, length): how many bytes are copied.
ReadLength(size, offset, length) ==
  IF offset < size THEN Min({size - offset, length}) ELSE 0

\* What is left of a name under a directory's.
BaseName(name, dir) ==
  LET rest == SubString(name, Len(dir))
  IN  IF rest # <<>> /\ rest[1] = "/" THEN SubString(rest, 1) ELSE rest

\* Mutant: entries further down are listed as well.
PopulateEverything(entries, e) ==
  LET dir == entries[e].name
      indexes == [k \in DOMAIN entries |-> k]
  IN  SelectSeq(indexes, LAMBDA k : /\ StartsWith(entries[k].name, dir)
                                    /\ BaseName(entries[k].name, dir) # <<>>)

\* populateDirectory(): the entries that become children of directory e.
PopulateDirectory(entries, e) ==
  LET dir == entries[e].name
      indexes == [k \in DOMAIN entries |-> k]
  IN  SelectSeq(indexes, LAMBDA k : /\ StartsWith(entries[k].name, dir)
                                    /\ BaseName(entries[k].name, dir) # <<>>
                                    /\ ~FindsNext(BaseName(entries[k].name, dir), "/"))

\* The meaning of the names: x is dir, a slash and one more component.
IsChild(x, dir) ==
  /\ Len(x) > Len(dir) + 1 /\ StartsWith(x, dir) /\ x[Len(dir) + 1] = "/"
  /\ \A k \in Len(dir) + 2 .. Len(x) : x[k] # "/"

\* A name that goes on after the directory's without a slash ("ab" and "a").
Extends(x, dir) == Len(x) > Len(dir) /\ StartsWith(x, dir) /\ x[Len(dir) + 1] # "/"
=============================================================================

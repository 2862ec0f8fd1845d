------------------------------ MODULE Server9P ------------------------------
(***************************************************************************)
(* The 9P file server of the host tools: the table of fids, the paths they *)
(* stand for and the directory listings kept in memory, over the host's    *)
(* file system.                                                            *)
(*                                                                         *)
(* The server answers one request after the other, so a request is a step. *)
(* A request that fails and changes nothing is a stuttering step and is    *)
(* left out; the guards are the conditions under which it does not fail.   *)
(* The file system is external: a tree of names over inodes.  Contents,    *)
(* times and permissions are left out, and with them read(), write(),      *)
(* fsync(), set_attr() and statfs(), which touch neither fids nor names.   *)
(***************************************************************************)
EXTENDS Naturals, Sequences, Session9P

CONSTANTS
    Fid, Inode,
    Client,         \* clients to consider
    Count,          \* values of Treaddir.count
    EntrySize,      \* EntrySize[n]: encoded size of a directory entry
    None

Root == <<"root">>
DotDot == ".."
Bad == "/"          \* an absolute path, ".", or more than one component
Empty == ""         \* a path of no components

(* A client uses some names and requests, offers some message sizes,       *)
(* creates paths up to a depth and walks up to a number of names at once;  *)
(* a careful one renames and removes only what no other fid names.         *)
ASSUME ClientAssumption ==
    \A v \in Client :
        /\ v.careful \in BOOLEAN /\ {v.depth, v.walk} \subseteq Nat /\ v.offers \subseteq Nat
        /\ \A n \in v.names : EntrySize[n] \in Nat \ {0}

(* Readdir.count is an unsigned number; None stands for Option::None.      *)
ASSUME FidAssumption == Count \subseteq Nat /\ None \notin Fid

VARIABLES
    client,         \* the client
    at,             \* at[p]: the inode that path p of the host names
    dirs,           \* inodes that are directories
    fids            \* Server.fids

vars == <<client, at, dirs, fids, msize>>
WName == client.names \cup {DotDot, Bad, Empty}

(* Paths are sequences of names.                                           *)
IsPrefix(s, t) == Len(s) <= Len(t) /\ \A k \in 1 .. Len(s) : s[k] = t[k]
Front(s) == SubSeq(s, 1, Len(s) - 1)
Last(s) == s[Len(s)]

(* The map m with v at k.                                                  *)
Insert(m, k, v) == [x \in DOMAIN m \cup {k} |-> IF x = k THEN v ELSE m[x]]

----------------------------------------------------------------------------
(* The host's file system (std::fs).                                       *)
Exists(p) == p \in DOMAIN at
IsDir(p) == Exists(p) /\ at[p] \in dirs
Children(p) == {q \in DOMAIN at : Len(q) = Len(p) + 1 /\ IsPrefix(p, q)}
Beneath(p) == {q \in DOMAIN at : IsPrefix(p, q)}
Opened == {fids[f].file : f \in DOMAIN fids} \ {None}
FreeInode == Inode \ (Range(at) \cup Opened)
CanCreate(p) == Len(p) > 1 /\ ~Exists(p) /\ IsDir(Front(p)) /\ Len(p) <= client.depth

Unlinked(p) == Restrict(at, DOMAIN at \ {p})
CanRemove(p) == Exists(p) /\ (IsDir(p) => Children(p) = {})

(* rename(2): a file over a file, a directory over an empty directory or   *)
(* nothing, and never beneath itself.  Two names of one file stay.         *)
SameFile(p, q) == Exists(p) /\ Exists(q) /\ at[p] = at[q]
CanRename(p, q) ==
    \/ SameFile(p, q)
    \/ /\ Exists(p) /\ ~IsPrefix(p, q) /\ ~IsPrefix(q, p)
       /\ \A r \in Beneath(p) : Len(r) - Len(p) + Len(q) <= client.depth
       /\ Len(q) > 1 /\ IsDir(Front(q))
       /\ Exists(q) => (IsDir(p) <=> IsDir(q)) /\ CanRemove(q)
Renamed(p, q) ==
    LET back(r) == IF IsPrefix(q, r) THEN p \o SubSeq(r, Len(q) + 1, Len(r)) ELSE r
        new == {q \o SubSeq(r, Len(p) + 1, Len(r)) : r \in Beneath(p)}
    IN  IF SameFile(p, q) THEN at
        ELSE [r \in ((DOMAIN at \ Beneath(p)) \cup new) |-> at[back(r)]]

----------------------------------------------------------------------------
(* join_path().  Its result is None where it is an error.                  *)
join_path(buf, name) ==
    CASE name = Bad -> None
      [] name = Empty -> buf
      [] name = DotDot -> IF buf # Root THEN Front(buf) ELSE buf
      [] OTHER -> Append(buf, name)

(* do_walk(): every path on the way must exist.                            *)
WalkStep(p, name) ==
    LET q == join_path(p, name)
    IN  IF p # None /\ q # None /\ Exists(q) THEN q ELSE None
do_walk(buf, wnames) ==
    LET walked[k \in 0 .. Len(wnames)] ==
            IF k = 0 THEN buf ELSE WalkStep(walked[k - 1], wnames[k])
    IN  walked[Len(wnames)]

(* The fields got, snap, over and room are auxiliary: the entries the      *)
(* client got since it read at offset 0, what the directory held then,     *)
(* whether its last reply was empty, and how much that had room for.       *)
NewFid(path, ino, dir) ==
    [path |-> path, ino |-> ino, dir |-> dir, file |-> None, dirents |-> None,
     got |-> <<>>, snap |-> {}, over |-> FALSE, room |-> 0]

(* What a careful client knows to be its own affair: no fid but f names    *)
(* a path at or beneath p.                                                 *)
Unshared(p, f) ==
    client.careful => \A g \in DOMAIN fids : g # f => ~IsPrefix(p, fids[g].path)

----------------------------------------------------------------------------
(* The end of all fids, and a new message size.                            *)
version(size) ==
    /\ agree(size)
    /\ fids' = <<>>
    /\ UNCHANGED <<at, dirs>>

attach(f) ==
    /\ f \notin DOMAIN fids
    /\ Exists(Root)
    /\ fids' = Insert(fids, f, NewFid(Root, at[Root], IsDir(Root)))
    /\ UNCHANGED <<at, dirs>>

(* A walk of no names copies the metadata of the fid, however old.         *)
walk(f, newfid, wnames) ==
    /\ f \in DOMAIN fids
    /\ newfid = f \/ newfid \notin DOMAIN fids
    /\ LET p == do_walk(fids[f].path, wnames)
       IN  /\ p # None
           /\ fids' = Insert(fids, newfid, IF wnames = <<>> THEN NewFid(p, fids[f].ino, fids[f].dir)
                                                      ELSE NewFid(p, at[p], IsDir(p)))
    /\ UNCHANGED <<at, dirs>>

clunk(f) ==
    /\ f \in DOMAIN fids
    /\ fids' = Restrict(fids, DOMAIN fids \ {f})
    /\ UNCHANGED <<at, dirs>>

(* The fid goes whether or not the file can be removed.  remove_dir() is   *)
(* called if the file was a directory when last looked at.                 *)
remove(f) ==
    /\ f \in DOMAIN fids
    /\ Unshared(fids[f].path, f)
    /\ fids' = Restrict(fids, DOMAIN fids \ {f})
    /\ LET p == fids[f].path
       IN  at' = IF CanRemove(p) /\ IsDir(p) = fids[f].dir THEN Unlinked(p) ELSE at
    /\ UNCHANGED dirs

(* Opens with P9_CREATE make a file where there is none, unless a file is  *)
(* there and P9_EXCL is given; a directory opens only for reading.         *)
lopen(f, create, excl, write) ==
    /\ f \in DOMAIN fids
    /\ create => write
    /\ LET p == fids[f].path
           opened(ino) == [fids[f] EXCEPT !.ino = ino, !.dir = ino \in dirs, !.file = ino]
       IN  \/ /\ Exists(p) /\ ~(create /\ excl) /\ (IsDir(p) => ~write)
              /\ fids' = Insert(fids, f, opened(at[p]))
              /\ UNCHANGED <<at, dirs>>
           \/ /\ create /\ CanCreate(p)
              /\ \E ino \in FreeInode :
                    /\ at' = Insert(at, p, ino)
                    /\ dirs' = dirs \ {ino}
                    /\ fids' = Insert(fids, f, [opened(ino) EXCEPT !.dir = FALSE])

(* Mutant: the fid keeps the path of the directory.                        *)
Mut_lcreate(f, name) ==
    /\ f \in DOMAIN fids
    /\ fids[f].dir
    /\ LET p == join_path(fids[f].path, name)
       IN  /\ p # None /\ CanCreate(p)
           /\ \E ino \in FreeInode :
                 /\ at' = Insert(at, p, ino)
                 /\ dirs' = dirs \ {ino}
                 /\ fids' = Insert(fids, f, [fids[f] EXCEPT !.ino = ino, !.dir = FALSE, !.file = ino])

lcreate(f, name) ==
    /\ f \in DOMAIN fids
    /\ fids[f].dir
    /\ LET p == join_path(fids[f].path, name)
       IN  /\ p # None /\ CanCreate(p)
           /\ \E ino \in FreeInode :
                 /\ at' = Insert(at, p, ino)
                 /\ dirs' = dirs \ {ino}
                 /\ fids' = Insert(fids, f, [fids[f] EXCEPT !.path = p, !.ino = ino, !.dir = FALSE,
                                                      !.file = ino])

mkdir(dfid, name) ==
    /\ dfid \in DOMAIN fids
    /\ LET p == join_path(fids[dfid].path, name)
       IN  /\ p # None /\ CanCreate(p)
           /\ \E ino \in FreeInode : at' = Insert(at, p, ino) /\ dirs' = dirs \cup {ino}
    /\ UNCHANGED fids

(* The renamed fid follows its file; other fids keep the paths they have.  *)
rename(f, dfid, name) ==
    /\ {f, dfid} \subseteq DOMAIN fids
    /\ LET p == fids[f].path
           q == join_path(fids[dfid].path, name)
       IN  /\ q # None /\ CanRename(p, q)
           /\ Unshared(p, f) /\ Unshared(q, f)
           /\ at' = Renamed(p, q)
           /\ fids' = [fids EXCEPT ![f].path = q]
    /\ UNCHANGED dirs

rename_at(olddirfid, oldname, newdirfid, newname) ==
    /\ {olddirfid, newdirfid} \subseteq DOMAIN fids
    /\ LET p == join_path(fids[olddirfid].path, oldname)
           q == join_path(fids[newdirfid].path, newname)
       IN  /\ p # None /\ q # None /\ CanRename(p, q)
           /\ Unshared(p, None) /\ Unshared(q, None)
           /\ at' = Renamed(p, q)
    /\ UNCHANGED <<dirs, fids>>

unlink_at(dirfd, name, removedir) ==
    /\ dirfd \in DOMAIN fids
    /\ LET p == join_path(fids[dirfd].path, name)
       IN  /\ p # None /\ CanRemove(p)
           /\ IsDir(p) => removedir
           /\ Unshared(p, None)
           /\ at' = Unlinked(p)
    /\ UNCHANGED <<dirs, fids>>

link(f, dfid, name) ==
    /\ {f, dfid} \subseteq DOMAIN fids
    /\ LET p == fids[f].path
           q == join_path(fids[dfid].path, name)
       IN  /\ q # None /\ CanCreate(q) /\ Exists(p) /\ ~IsDir(p)
           /\ at' = Insert(at, q, at[p])
    /\ UNCHANGED <<dirs, fids>>

get_attr(f) ==
    /\ f \in DOMAIN fids
    /\ LET p == fids[f].path
       IN  /\ Exists(p)
           /\ fids' = [fids EXCEPT ![f].ino = at[p], ![f].dir = IsDir(p)]
    /\ UNCHANGED <<at, dirs>>

----------------------------------------------------------------------------
(* Directory entries carry the offset of their end.                        *)
Dirents(names) ==
    LET end[i \in 0 .. Len(names)] ==
            IF i = 0 THEN 0 ELSE end[i - 1] + EntrySize[names[i]]
    IN  [i \in DOMAIN names |-> [name |-> names[i], offset |-> end[i]]]

(* Mutant: the entry that ends at offset is sent again.                    *)
Mut_Fitting(dirents, offset, count) ==
    LET rest == {i \in DOMAIN dirents : dirents[i].offset >= offset}
        first == Min(rest)
        start == dirents[first].offset - EntrySize[dirents[first].name]
        fits == {i \in rest : dirents[i].offset - start <= count}
    IN  IF fits = {} THEN <<>> ELSE SubSeq(dirents, first, Max(fits))

(* The entries after offset, as many as fit into count.                    *)
Fitting(dirents, offset, count) ==
    LET rest == {i \in DOMAIN dirents : dirents[i].offset > offset}
        first == Min(rest)
        start == dirents[first].offset - EntrySize[dirents[first].name]
        fits == {i \in rest : dirents[i].offset - start <= count}
    IN  IF fits = {} THEN <<>> ELSE SubSeq(dirents, first, Max(fits))

(* readdir() at offset 0 reads the directory, in an order of the host's;   *)
(* at any other offset it serves what it has read.  The client goes on     *)
(* where the last entry it got ends.                                       *)
NamesIn(p) == {Last(q) : q \in Children(p)}
Room(count) == Min({msize - ReadHeader, count})
Replied(fid, offset, room) ==
    LET entries == Fitting(fid.dirents, offset, room)
    IN  [fid EXCEPT !.got = @ \o entries, !.over = entries = <<>>, !.room = room]

Orders(S) == Bijection(1 .. Cardinality(S), S)

readdir_start(f, count) ==
    /\ f \in DOMAIN fids
    /\ fids[f].dir /\ IsDir(fids[f].path)
    /\ \E names \in Orders(NamesIn(fids[f].path)) :
          LET fid == [fids[f] EXCEPT !.dirents = Dirents(names), !.got = <<>>,
                                     !.snap = NamesIn(fids[f].path)]
          IN  fids' = Insert(fids, f, Replied(fid, 0, Room(count)))
    /\ UNCHANGED <<at, dirs>>

readdir_next(f, count) ==
    /\ f \in DOMAIN fids
    /\ fids[f].dir /\ fids[f].dirents # None
    /\ fids[f].got # <<>>
    /\ fids' = Insert(fids, f, Replied(fids[f], Last(fids[f].got).offset, Room(count)))
    /\ UNCHANGED <<at, dirs>>

----------------------------------------------------------------------------
(* An empty directory is exported.                                         *)
Init ==
    \E ino \in Inode :
        /\ client \in Client
        /\ at = [p \in {Root, Front(Root)} |-> IF p = Root THEN ino ELSE None]
        /\ dirs = {ino, None}
        /\ fids = <<>> /\ msize = MaxSize

Asked(request) == request \in client.requests

Request ==
    \E f \in Fid :
        \/ Asked("attach") /\ attach(f)
        \/ Asked("clunk") /\ clunk(f)
        \/ Asked("remove") /\ remove(f)
        \/ Asked("lopen") /\ \E c, x, w \in BOOLEAN : lopen(f, c, x, w)
        \/ Asked("getattr") /\ get_attr(f)
        \/ Asked("readdir") /\ \E c \in Count : readdir_start(f, c) \/ readdir_next(f, c)
        \/ \E name \in WName :
            \/ Asked("lcreate") /\ lcreate(f, name)
            \/ Asked("mkdir") /\ mkdir(f, name)
            \/ Asked("unlinkat") /\ \E d \in BOOLEAN : unlink_at(f, name, d)
            \/ \E g \in Fid :
                \/ Asked("rename") /\ rename(f, g, name)
                \/ Asked("link") /\ link(f, g, name)
                \/ Asked("renameat") /\ \E to \in WName : rename_at(f, name, g, to)
        \/ Asked("walk") /\ \E g \in Fid, k \in 0 .. client.walk :
                               \E wnames \in [1 .. k -> WName] : walk(f, g, wnames)

Next ==
    /\ UNCHANGED client
    /\ \/ Asked("version") /\ \E size \in client.offers : version(size)
       \/ UNCHANGED msize /\ Request
Spec == Init /\ [][Next]_vars

----------------------------------------------------------------------------
TypeOK ==
    /\ \A p \in DOMAIN at : Len(p) <= client.depth /\ at[p] \in Inode \cup {None}
    /\ dirs \subseteq Inode \cup {None}
    /\ DOMAIN fids \subseteq Fid
    /\ \A f \in DOMAIN fids : fids[f].ino \in Inode /\ fids[f].file \in Inode \cup {None}

(* "debug_assert!(buf.starts_with(root))" in join_path(): whatever the     *)
(* client walks, creates and renames, with '..' too, a fid stays at or     *)
(* beneath the root it was attached to.                                    *)
(* And the fid of a careful client stands for one file: its path names the *)
(* file that its metadata describes, and the open file, if any, is that    *)
(* one, through creations, renames, links and removals by other fids.      *)
FidNamesItsFile ==
    \A f \in DOMAIN fids :
        /\ IsPrefix(Root, fids[f].path)
        /\ client.careful =>
              /\ Exists(fids[f].path) /\ at[fids[f].path] = fids[f].ino
              /\ fids[f].dir = IsDir(fids[f].path)
              /\ fids[f].file \in {None, fids[f].ino}

(* readdir(): "This ensures consistency even if the directory changes in   *)
(* between Treaddir messages."  A client that reads on until an empty      *)
(* reply got each name the directory had at the start, and got it once.    *)
(* But an empty reply has a second meaning: the next entry is too large    *)
(* for what the client asked for or for the message size, which may be     *)
(* less than a long name takes.  Then, and only then, names are missing.   *)
ListingIsConsistent ==
    \A f \in DOMAIN fids :
        LET fid == fids[f]
            got == [i \in DOMAIN fid.got |-> fid.got[i].name]
        IN  /\ IsInjective(got) /\ Range(got) \subseteq fid.snap
            /\ fid.over /\ Range(got) # fid.snap =>
                  EntrySize[fid.dirents[Len(fid.got) + 1].name] > fid.room
=============================================================================

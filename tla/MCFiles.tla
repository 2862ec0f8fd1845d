------------------------------ MODULE MCFiles ------------------------------
(* The 9P server: fids and names, or the contents of one file.             *)
EXTENDS Server9P, Data9P, TLC

(* A client that does everything but list directories, down to files in    *)
(* directories beneath the root.                                           *)
Worker ==
    [names |-> {"a", "b"}, depth |-> 3, walk |-> 2, careful |-> TRUE, offers |-> {5},
     requests |-> {"version", "attach", "walk", "clunk", "remove", "lopen", "lcreate", "mkdir",
                   "rename", "renameat", "unlinkat", "link", "getattr"}]

(* One that lists a directory in pieces with one fid while it creates and  *)
(* removes files with another.  The entry of "b" does not fit into a reply *)
(* if the client asks for too little or the messages are of the least size.*)
Lister ==
    [names |-> {"a", "b"}, depth |-> 2, walk |-> 1, careful |-> FALSE, offers |-> {3, 5},
     requests |-> {"version", "attach", "walk", "clunk", "lcreate", "unlinkat", "readdir"}]

Clients == {Worker, Lister}
MCEntrySize == [n \in {"a", "b"} |-> IF n = "a" THEN 1 ELSE 3]
Symm == Permutations(Inode)

VARIABLE part       \* "names" or "contents"

allVars == <<part, vars, dataVars>>

SumInit ==
    /\ part \in {"names", "contents"} /\ Init /\ DataInit
    /\ part = "contents" => client = Worker
SumNext ==
    \/ part = "names" /\ Next /\ UNCHANGED <<part, open, file, reply, transfer>>
    \/ part = "contents" /\ DataNext /\ UNCHANGED <<part, client, at, dirs, fids>>
SumSpec == SumInit /\ [][SumNext]_allVars
=============================================================================

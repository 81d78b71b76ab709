---------------------------- MODULE FixedTmpFile ----------------------------
(***************************************************************************)
(* A file is written to <name>.tmp, a path every process shares, and        *)
(* renamed: write_token does so with token.json, _write_pubkey_doc with the *)
(* published key, LocalVaultDriver.write_receipt with the receipts of an    *)
(* organisation (OrgVault).  A path names an inode; open(path, "w") empties *)
(* the inode the path names, and a process goes on writing to its inode     *)
(* when another one has renamed it.  What a power loss leaves is not        *)
(* modelled: write_token promises nothing about it.                         *)
(*                                                                          *)
(* An inode holds a whole document, named for the process that wrote it, or *)
(* the one from before, or it is empty or torn.                             *)
(***************************************************************************)
EXTENDS Naturals

CONSTANTS
    Writers,      \* processes that write a file
    Names,        \* of the files
    Inodes,       \* the inodes of its file system, enough that Open finds one
    None,         \* a path that is not in the directory
    Original      \* a document from before

ASSUME FixedTmpAssumption ==
    /\ None \notin Inodes /\ None \notin Names
    /\ Original \notin Writers
    /\ "empty" \notin Writers \cup {Original}

VARIABLES
    content,      \* of every inode
    path,         \* the inode each name is a path of
    tmp,          \* the inode <name>.tmp is a path of
    pc,           \* where each process is in its call
    fd,           \* the inode each process has open
    target        \* the name each process writes

vars == <<content, path, tmp, pc, fd, target>>

Documents == Writers \cup {Original}

\* Some of the names are there from before.
Init ==
    /\ \E old \in SUBSET Names, at \in [Names -> Inodes] :
          /\ \A m, n \in old : at[m] = at[n] => m = n
          /\ path = [n \in Names |-> IF n \in old THEN at[n] ELSE None]
          /\ content = [i \in Inodes |-> IF \E n \in old : at[n] = i THEN Original ELSE "empty"]
    /\ tmp = [n \in Names |-> None]
    /\ pc = [w \in Writers |-> "idle"]
    /\ fd = [w \in Writers |-> None]
    /\ target = [w \in Writers |-> None]

At(w, place) == pc[w] = place

Goto(w, place) == pc' = [pc EXCEPT ![w] = place]

Free ==
    Inodes \ ({path[n] : n \in Names} \cup {tmp[n] : n \in Names} \cup {fd[w] : w \in Writers})

Call(w) ==
    /\ At(w, "idle") /\ Goto(w, "open")
    /\ \E n \in Names : target' = [target EXCEPT ![w] = n]
    /\ UNCHANGED <<content, path, tmp, fd>>

\* open(tmp, "w"): a new inode, or the one the path has, emptied.
Open(w) ==
    /\ At(w, "open") /\ Goto(w, "write")
    /\ \E i \in IF tmp[target[w]] = None THEN Free ELSE {tmp[target[w]]} :
          /\ content' = [content EXCEPT ![i] = "empty"]
          /\ tmp' = [tmp EXCEPT ![target[w]] = i]
          /\ fd' = [fd EXCEPT ![w] = i]
    /\ UNCHANGED <<path, target>>

\* Over bytes another process left since, the result is a mixture of the two,
\* or this document when it is the longer one.
Write(w) ==
    /\ At(w, "write") /\ Goto(w, "chmod")
    /\ \E new \in IF content[fd[w]] = "empty" THEN {w} ELSE {w, "torn"} :
          content' = [content EXCEPT ![fd[w]] = new]
    /\ fd' = [fd EXCEPT ![w] = None]
    /\ UNCHANGED <<path, tmp, target>>

\* os.chmod(tmp) raises FileNotFoundError when another process renamed it.
Chmod(w) ==
    /\ At(w, "chmod")
    /\ Goto(w, IF tmp[target[w]] = None THEN "raised" ELSE "replace")
    /\ UNCHANGED <<content, path, tmp, fd, target>>

\* os.replace(tmp, path), whatever inode tmp names by then.
Replace(w) ==
    /\ At(w, "replace")
    /\ IF tmp[target[w]] = None
       THEN Goto(w, "raised") /\ UNCHANGED path
       ELSE Goto(w, "done") /\ path' = [path EXCEPT ![target[w]] = tmp[target[w]]]
    /\ tmp' = [tmp EXCEPT ![target[w]] = None]
    /\ UNCHANGED <<content, fd, target>>

\* The caller has what it wants, or its exception; it may call again.
Again(w) ==
    /\ pc[w] \in {"done", "raised"}
    /\ pc' = [pc EXCEPT ![w] = "idle"]
    /\ UNCHANGED <<content, path, tmp, fd, target>>

\* Killed in the call, perhaps in the middle of a write.
Kill(w) ==
    /\ pc[w] \in {"open", "write", "chmod", "replace"}
    /\ pc' = [pc EXCEPT ![w] = "idle"]
    /\ fd' = [fd EXCEPT ![w] = None]
    /\ content' \in {content} \cup
          {[content EXCEPT ![i] = "torn"] : i \in {fd[w]} \ {None}}
    /\ UNCHANGED <<path, tmp, target>>

Step(w) ==
    Call(w) \/ Open(w) \/ Write(w) \/ Chmod(w) \/ Replace(w) \/ Again(w) \/ Kill(w)

Next == \E w \in Writers : Step(w)

Spec == Init /\ [][Next]_vars

----------------------------------------------------------------------------
(* Properties.                                                              *)

Places == {"idle", "open", "write", "chmod", "replace", "done", "raised"}

TypeOK ==
    /\ content \in [Inodes -> Documents \cup {"empty", "torn"}]
    /\ path \in [Names -> Inodes \cup {None}]
    /\ tmp \in [Names -> Inodes \cup {None}]
    /\ pc \in [Writers -> Places]
    /\ fd \in [Writers -> Inodes \cup {None}]
    /\ target \in [Writers -> Names \cup {None}]
    /\ \A w \in Writers : pc[w] # "idle" => target[w] \in Names

\* "Temp file + rename so a crash mid-write can't corrupt token.json"
\* (write_token): a file, once there, holds a whole document.
FilesIntact == \A n \in Names : path[n] # None => content[path[n]] \in Documents

\* A call that returned has replaced the file by its own document, and one
\* that was killed or raised has not left a part of one there.
ReturnMeansStored ==
    \A w \in Writers :
        pc[w] = "done" => path[target[w]] # None /\ content[path[target[w]]] = w
=============================================================================

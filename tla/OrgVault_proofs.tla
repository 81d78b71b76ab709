--------------------------- MODULE OrgVault_proofs ---------------------------
(***************************************************************************)
(* Proofs about FixedTmpFile, and about OrgVault, which writes a share with *)
(* it, for any processes or runs, names, inodes and configurations.         *)
(*                                                                          *)
(* The argument for the share: whoever writes one name, the inodes of       *)
(* different names stay apart (Apart), so a run that is alone at its name,  *)
(* and had the share under it all the time, finds its own document behind   *)
(* the temporary name when it renames it (Own), and nobody writes to a name *)
(* that is taken but those that were rivals when it was (Kept).             *)
(***************************************************************************)
EXTENDS OrgVault, TLAPS

----------------------------------------------------------------------------
(* FixedTmpFile: files written through <name>.tmp by any processes.         *)

LEMMA InitTypeOK == Init => TypeOK
  BY FixedTmpAssumption DEF Init, TypeOK, Documents, Places

\* What Open does, with the inode it gets named.
LEMMA OpenNames ==
  ASSUME TypeOK, NEW w \in Writers, Open(w)
  PROVE  /\ target[w] \in Names
         /\ \E i \in Inodes :
               /\ i \in IF tmp[target[w]] = None THEN Free ELSE {tmp[target[w]]}
               /\ content' = [content EXCEPT ![i] = "empty"]
               /\ tmp' = [tmp EXCEPT ![target[w]] = i]
               /\ fd' = [fd EXCEPT ![w] = i]
<1>1. target[w] \in Names
  BY DEF TypeOK, Open, At
<1>2. (IF tmp[target[w]] = None THEN Free ELSE {tmp[target[w]]}) \subseteq Inodes
  BY <1>1 DEF TypeOK, Free
<1> QED
  BY <1>1, <1>2 DEF Open

LEMMA NextTypeOK == TypeOK /\ [Next]_vars => TypeOK'
<1> SUFFICES ASSUME TypeOK, [Next]_vars PROVE TypeOK'
  OBVIOUS
<1> USE DEF TypeOK, Places, Goto, At
<1>1. ASSUME NEW w \in Writers, Call(w) PROVE TypeOK'
  BY <1>1 DEF Call
<1>2. ASSUME NEW w \in Writers, Open(w) PROVE TypeOK'
  <2>1. PICK i \in Inodes :
               /\ content' = [content EXCEPT ![i] = "empty"]
               /\ tmp' = [tmp EXCEPT ![target[w]] = i]
               /\ fd' = [fd EXCEPT ![w] = i]
    BY <1>2, OpenNames
  <2> QED
    BY <1>2, <2>1 DEF Open
<1>3. ASSUME NEW w \in Writers, Write(w) PROVE TypeOK'
  <2>1. PICK new \in {w, "torn"} : content' = [content EXCEPT ![fd[w]] = new]
    BY <1>3 DEF Write
  <2> QED
    BY <1>3, <2>1 DEF Write, Documents
<1>4. ASSUME NEW w \in Writers, Chmod(w) PROVE TypeOK'
  BY <1>4 DEF Chmod
<1>5. ASSUME NEW w \in Writers, Replace(w) PROVE TypeOK'
  BY <1>5 DEF Replace
<1>6. ASSUME NEW w \in Writers, Again(w) PROVE TypeOK'
  BY <1>6 DEF Again
<1>7. ASSUME NEW w \in Writers, Kill(w) PROVE TypeOK'
  <2>1. content' \in [Inodes -> Documents \cup {"empty", "torn"}]
    BY <1>7 DEF Kill
  <2> QED
    BY <1>7, <2>1 DEF Kill
<1>8. CASE UNCHANGED vars
  BY <1>8 DEF vars
<1> QED
  BY <1>1, <1>2, <1>3, <1>4, <1>5, <1>6, <1>7, <1>8 DEF Next, Step

\* The types hold for any processes, names and inodes.
THEOREM TypeCorrect == Spec => []TypeOK
  BY InitTypeOK, NextTypeOK, PTL DEF Spec

----------------------------------------------------------------------------
(***************************************************************************)
(* One process: no temporary name is another path of an inode, so what it   *)
(* empties and fills is no file; and from chmod on the temporary file of    *)
(* its target holds its whole document.                                     *)
(***************************************************************************)
TmpApart ==
    /\ \A m, n \in Names : path[m] # None => path[m] # tmp[n]
    /\ \A m, n \in Names : m # n /\ tmp[m] # None => tmp[m] # tmp[n]

Midway(w) ==
    LET at == tmp[target[w]]
    IN  /\ pc[w] = "write" => fd[w] = at /\ at # None /\ content[at] = "empty"
        /\ pc[w] # "write" => fd[w] = None
        /\ pc[w] \in {"chmod", "replace"} => at # None /\ content[at] = w

OneWriterInv ==
    /\ TypeOK
    /\ FilesIntact
    /\ TmpApart
    /\ \A w \in Writers : Midway(w)
    /\ ReturnMeansStored

LEMMA NextOneWriter ==
  ASSUME NEW only, Writers = {only}
  PROVE  OneWriterInv /\ [Next]_vars => OneWriterInv'
<1> SUFFICES ASSUME OneWriterInv, [Next]_vars PROVE OneWriterInv'
  OBVIOUS
<1>0. TypeOK /\ TypeOK'
  BY NextTypeOK DEF OneWriterInv
<1>n. None \notin Inodes /\ "empty" \notin Documents
  BY FixedTmpAssumption DEF Documents
<1> DEFINE t == target[only]
<1> USE <1>0, <1>n DEF OneWriterInv, TypeOK, FilesIntact, TmpApart, Midway,
                       ReturnMeansStored, Goto, At
<1>1. CASE Call(only)
  BY <1>1 DEF Call
<1>2. CASE Open(only)
  <2>1. PICK i \in Inodes :
               /\ i \in IF tmp[t] = None THEN Free ELSE {tmp[t]}
               /\ content' = [content EXCEPT ![i] = "empty"]
               /\ tmp' = [tmp EXCEPT ![t] = i]
               /\ fd' = [fd EXCEPT ![only] = i]
    BY <1>2, OpenNames
  <2>2. t \in Names /\ target' = target /\ path' = path
    BY <1>2 DEF Open
  <2>3. \A n \in Names : path[n] # i
    BY <2>1, <2>2 DEF Free
  <2>4. \A n \in Names : n # t => tmp[n] # i
    BY <2>1, <2>2 DEF Free
  <2>5. TmpApart'
    BY <2>1, <2>2, <2>3, <2>4
  <2>6. FilesIntact'
    BY <2>1, <2>2, <2>3
  <2> QED
    BY <1>2, <2>1, <2>2, <2>5, <2>6 DEF Open
<1>3. CASE Write(only)
  <2>1. /\ t \in Names /\ fd[only] = tmp[t] /\ tmp[t] \in Inodes
        /\ content' = [content EXCEPT ![tmp[t]] = only]
    BY <1>3 DEF Write
  <2>2. UNCHANGED <<path, tmp, target>>
    BY <1>3 DEF Write
  <2>3. FilesIntact'
    BY <2>1, <2>2
  <2> QED
    BY <1>3, <2>1, <2>2, <2>3 DEF Write
<1>4. CASE Chmod(only)
  BY <1>4 DEF Chmod
<1>5. CASE Replace(only)
  <2>1. /\ t \in Names /\ tmp[t] # None /\ content[tmp[t]] = only
        /\ path' = [path EXCEPT ![t] = tmp[t]]
        /\ tmp' = [tmp EXCEPT ![t] = None]
        /\ pc' = [pc EXCEPT ![only] = "done"]
        /\ UNCHANGED <<content, fd, target>>
    BY <1>5 DEF Replace
  <2>2. TmpApart'
    BY <2>1
  <2>3. FilesIntact'
    BY <2>1 DEF Documents
  <2> QED
    BY <1>5, <2>1, <2>2, <2>3
<1>6. CASE Again(only)
  BY <1>6 DEF Again
<1>7. CASE Kill(only)
  <2>1. \A n \in Names : path[n] # None => content'[path[n]] = content[path[n]]
    BY <1>7 DEF Kill
  <2> QED
    BY <1>7, <2>1 DEF Kill
<1>8. CASE UNCHANGED vars
  BY <1>8 DEF vars
<1> QED
  BY <1>1, <1>2, <1>3, <1>4, <1>5, <1>6, <1>7, <1>8 DEF Next, Step

\* While one process writes, kills and all, every file stays whole, and a call
\* that returned has stored its document.
THEOREM OneWriterIntact ==
  ASSUME NEW only, Writers = {only}
  PROVE  Spec => [](FilesIntact /\ ReturnMeansStored)
<1>1. Init => OneWriterInv
  <2> SUFFICES ASSUME Init PROVE OneWriterInv
    OBVIOUS
  <2>1. TypeOK
    BY InitTypeOK
  <2>2. FilesIntact
    BY FixedTmpAssumption DEF Init, FilesIntact, Documents
  <2>3. TmpApart
    BY FixedTmpAssumption DEF Init, TmpApart
  <2> QED
    BY <2>1, <2>2, <2>3 DEF Init, OneWriterInv, Midway, ReturnMeansStored
<1>2. OneWriterInv /\ [Next]_vars => OneWriterInv'
  BY NextOneWriter
<1>3. OneWriterInv => FilesIntact /\ ReturnMeansStored
  BY DEF OneWriterInv
<1> QED
  BY <1>1, <1>2, <1>3, PTL DEF Spec

----------------------------------------------------------------------------
(* The mirror: the invariant.                                               *)

\* One name, one inode, one temporary inode; an open inode belongs to no other
\* name than the one its writer is to rename it to.
Apart ==
    /\ \A m, n \in Names : tmp[m] # None => tmp[m] # path[n]
    /\ \A m, n \in Names : tmp[m] # None /\ tmp[m] = tmp[n] => m = n
    /\ \A m, n \in Names : path[m] # None /\ path[m] = path[n] => m = n
    /\ \A w \in Writers : fd[w] # None => pc[w] = "write"
    /\ \A w \in Writers \ adrift : pc[w] = "write" => fd[w] # None
    /\ \A w \in Writers : fd[w] # None =>
          \A n \in Names \ {target[w]} : tmp[n] # fd[w] /\ path[n] # fd[w]

\* A run nobody contests its name with writes a new file there; its own, as long
\* as it is on the share.
Own ==
    /\ \A w \in Writers \ adrift : Writing(w) => mount = "mounted"
    /\ \A w, u \in Writers :
          Writing(w) /\ Writing(u) /\ w # u /\ target[w] = target[u] => w \in contested
    /\ \A w \in Writers \ contested : Writing(w) => path[target[w]] = None
    /\ \A w \in Writers \ (contested \cup adrift) :
          /\ pc[w] = "write" => fd[w] = tmp[target[w]] /\ content[fd[w]] = "empty"
          /\ pc[w] \in {"chmod", "replace"} =>
                tmp[target[w]] # None /\ content[tmp[target[w]]] = w

Kept(w) ==
    \/ w \in objects
    \/ \E n \in Names :
          /\ path[n] # None /\ content[path[n]] = w
          /\ \A u \in Writers : Writing(u) => target[u] # n

Returned ==
    /\ \A w \in returned : pc[w] \in {"done", "line", "end"}
    /\ \A w \in returned \ (adrift \cup contested) : Kept(w)
    /\ adrift \cup contested = {} => FilesIntact

ShareInv == Apart /\ Own /\ Returned

\* What a run has been told by the time it needs a driver.
Told ==
    \A w \in Writers :
        /\ pc[w] \in {"cache", "fill"} => answer[w] # Unreadable
        /\ pc[w] \in {"ask", "cache", "fill"} /\ config[w] = NoConfig =>
              known[w] \in {NoConfig, Unreadable}

Invs == MirrorTypeOK /\ ShareInv /\ Told /\ KnownIsMirrored

USE FixedTmpAssumption, OrgVaultAssumption

----------------------------------------------------------------------------
(* Types.                                                                   *)

LEMMA MirrorInitType == MirrorInit => MirrorTypeOK
  BY DEF MirrorInit, Init, MirrorTypeOK, MirrorPlaces, Places, Documents, Writing, NothingCached

\* What Open does, with the inode it gets named.
LEMMA OpenPicks ==
  ASSUME MirrorTypeOK, NEW w \in Writers, Open(w)
  PROVE  /\ target[w] \in Names /\ pc[w] = "open"
         /\ pc' = [pc EXCEPT ![w] = "write"] /\ UNCHANGED <<path, target>>
         /\ \E i \in Inodes :
               /\ \/ tmp[target[w]] = None /\ i \in Free
                  \/ tmp[target[w]] = i
               /\ content' = [content EXCEPT ![i] = "empty"]
               /\ tmp' = [tmp EXCEPT ![target[w]] = i]
               /\ fd' = [fd EXCEPT ![w] = i]
<1>1. target[w] \in Names /\ pc[w] = "open"
  BY DEF MirrorTypeOK, Open, At, Writing
<1>2. (IF tmp[target[w]] = None THEN Free ELSE {tmp[target[w]]}) \subseteq Inodes
  BY <1>1 DEF MirrorTypeOK, Free
<1> QED
  BY <1>1, <1>2 DEF Open, Goto

\* What a failure or a kill does to the inode that is open.
LEMMA TornContent ==
  ASSUME MirrorTypeOK, NEW w \in Writers,
         content' \in {content} \cup {[content EXCEPT ![i] = "torn"] : i \in {fd[w]} \ {None}}
  PROVE  /\ content' \in [Inodes -> Documents \cup {"empty", "torn"}]
         /\ \A i \in Inodes : i # fd[w] => content'[i] = content[i]
  BY DEF MirrorTypeOK

LEMMA MirrorStepType ==
  ASSUME MirrorTypeOK, Told, [MirrorNext]_mvars PROVE MirrorTypeOK'
<1>0. /\ content \in [Inodes -> Documents \cup {"empty", "torn"}]
      /\ path \in [Names -> Inodes \cup {None}]
      /\ tmp \in [Names -> Inodes \cup {None}]
      /\ fd \in [Writers -> Inodes \cup {None}]
      /\ pc \in [Writers -> MirrorPlaces]
      /\ target \in [Writers -> Names \cup {None}]
      /\ \A w \in Writers : Writing(w) => target[w] \in Names
      /\ server \in Offers \cup {NoConfig}
      /\ cache \in [config : Offers \cup {NoConfig, Unreadable}, at : Nat]
      /\ now \in Nat /\ changes \in Nat
      /\ mount \in {"mounted", "bare", "gone"}
      /\ config \in [Writers -> Offers \cup {NoConfig}]
      /\ answer \in [Writers -> Offers \cup {NoConfig, Unreadable}]
      /\ known \in [Writers -> Offers \cup {NoConfig, Unreadable}]
      /\ objects \subseteq Writers /\ lines \subseteq Writers
      /\ returned \subseteq Writers /\ adrift \subseteq Writers /\ contested \subseteq Writers
  BY DEF MirrorTypeOK
<1> USE <1>0 DEF MirrorTypeOK, MirrorPlaces, Places, Writing, Goto, At, files, places, history
<1>1. CASE UNCHANGED mvars
  BY <1>1 DEF mvars, vars
<1>2. CASE Change
  BY <1>2 DEF Change, vars
<1>3. CASE Tick
  BY <1>3 DEF Tick, vars
<1>4. ASSUME NEW w \in Writers, RunStep(w) PROVE MirrorTypeOK'
  <2>1. CASE ReadCache(w)
    BY <2>1 DEF ReadCache
  <2>2. CASE Ask(w)
    BY <2>2 DEF Ask
  <2>3. CASE OpenCache(w)
    BY <2>3 DEF OpenCache
  <2>4. CASE FillCache(w)
    <3>1. answer[w] \in Offers \cup {NoConfig}
      BY <2>4 DEF FillCache, Told
    <3> QED
      BY <2>4, <3>1 DEF FillCache
  <2>5. CASE NoVault(w)
    BY <2>5 DEF NoVault
  <2>6. CASE Put(w)
    BY <2>6 DEF Put
  <2>7. CASE Probe(w) \/ ProbeBelow(w)
    <3>1. PICK n \in Names : target' = [target EXCEPT ![w] = n] /\ Contest(w, n)
      BY <2>7 DEF Probe, ProbeBelow
    <3>2. contested' \subseteq Writers
      BY <3>1 DEF Contest, Rivals
    <3> QED
      BY <2>7, <3>1, <3>2 DEF Probe, ProbeBelow
  <2>8. CASE NotMounted(w) \/ WriteBelow(w)
    BY <2>8 DEF NotMounted, WriteBelow
  <2>9. CASE MirrorWrite(w)
    <3>1. CASE Open(w)
      <4>1. PICK i \in Inodes :
               /\ content' = [content EXCEPT ![i] = "empty"]
               /\ tmp' = [tmp EXCEPT ![target[w]] = i]
               /\ fd' = [fd EXCEPT ![w] = i]
        BY <3>1, OpenPicks
      <4> QED
        BY <2>9, <3>1, <4>1 DEF MirrorWrite, Open
    <3>2. CASE Write(w)
      <4>1. PICK new \in {w, "torn"} : content' = [content EXCEPT ![fd[w]] = new]
        BY <3>2 DEF Write
      <4> QED
        BY <2>9, <3>2, <4>1 DEF MirrorWrite, Write, Documents
    <3>3. CASE Chmod(w)
      BY <2>9, <3>3 DEF MirrorWrite, Chmod
    <3> QED
      BY <2>9, <3>1, <3>2, <3>3 DEF MirrorWrite
  <2>10. CASE MirrorReplace(w)
    BY <2>10 DEF MirrorReplace, Replace
  <2>11. CASE Raises(w)
    BY <2>11, TornContent DEF Raises
  <2>12. CASE AppendLine(w)
    BY <2>12 DEF AppendLine
  <2>13. CASE Breaks(w)
    BY <2>13, TornContent DEF Breaks, Kill
  <2>14. CASE Killed(w)
    BY <2>14 DEF Killed
  <2> QED
    BY <1>4, <2>1, <2>2, <2>3, <2>4, <2>5, <2>6, <2>7, <2>8, <2>9, <2>10, <2>11,
       <2>12, <2>13, <2>14 DEF RunStep
<1> QED
  BY <1>1, <1>2, <1>3, <1>4 DEF MirrorNext

----------------------------------------------------------------------------
(* What a run knows.                                                        *)

LEMMA ToldInit == MirrorInit => Told /\ KnownIsMirrored
  BY DEF MirrorInit, Init, Told, KnownIsMirrored, At

LEMMA ToldStep ==
  ASSUME MirrorTypeOK, Told, KnownIsMirrored, [MirrorNext]_mvars
  PROVE  Told' /\ KnownIsMirrored'
<1>0. /\ pc \in [Writers -> MirrorPlaces]
      /\ server \in Offers \cup {NoConfig}
      /\ config \in [Writers -> Offers \cup {NoConfig}]
      /\ answer \in [Writers -> Offers \cup {NoConfig, Unreadable}]
      /\ known \in [Writers -> Offers \cup {NoConfig, Unreadable}]
  BY DEF MirrorTypeOK
<1> USE <1>0 DEF Told, KnownIsMirrored, At, Goto, files, places, history
<1>1. CASE UNCHANGED mvars
  BY <1>1 DEF mvars, vars
<1>2. CASE Change \/ Tick
  BY <1>2 DEF Change, Tick, vars
<1>3. ASSUME NEW w \in Writers, RunStep(w) PROVE Told' /\ KnownIsMirrored'
  <2>1. CASE ReadCache(w)
    BY <2>1 DEF ReadCache
  <2>2. CASE Ask(w)
    BY <2>2 DEF Ask
  <2>3. CASE OpenCache(w)
    BY <2>3 DEF OpenCache
  <2>4. CASE FillCache(w)
    BY <2>4 DEF FillCache
  <2>5. CASE \/ NoVault(w) \/ Put(w) \/ Probe(w) \/ ProbeBelow(w) \/ NotMounted(w)
             \/ AppendLine(w) \/ Killed(w)
    BY <2>5 DEF NoVault, Put, Probe, ProbeBelow, NotMounted, AppendLine, Killed
  <2>6. CASE MirrorWrite(w) \/ MirrorReplace(w) \/ WriteBelow(w) \/ Raises(w) \/ Breaks(w)
    BY <2>6 DEF MirrorWrite, Open, Write, Chmod, MirrorReplace, Replace, WriteBelow, Raises,
                Breaks, Kill
  <2> QED
    BY <1>3, <2>1, <2>2, <2>3, <2>4, <2>5, <2>6 DEF RunStep
<1> QED
  BY <1>1, <1>2, <1>3 DEF MirrorNext

----------------------------------------------------------------------------
(* The share.                                                               *)

LEMMA ShareInit == MirrorInit => ShareInv
  BY DEF MirrorInit, Init, ShareInv, Apart, Own, Returned, Kept, Writing, FilesIntact

\* A step that touches no file, and begins or ends no run's writing.
LEMMA QuietStep ==
  ASSUME MirrorTypeOK, ShareInv,
         UNCHANGED <<files, contested>>,
         \A u \in Writers : pc'[u] = pc[u] \/ (~Writing(u) /\ ~Writing(u)' /\ fd[u] = None),
         objects \subseteq objects', adrift \subseteq adrift',
         \A w \in returned' : pc'[w] \in {"done", "line", "end"},
         \A w \in returned' : w \in returned \/ w \in objects' \/ w \in adrift',
         mount' = mount \/ \A u \in Writers : Writing(u) => u \in adrift'
  PROVE  ShareInv'
<1>1. /\ content' = content /\ path' = path /\ tmp' = tmp /\ fd' = fd
      /\ target' = target /\ contested' = contested
      /\ \A u \in Writers : Writing(u)' <=> Writing(u)
  BY DEF files, Writing
<1>2. Apart'
  BY <1>1 DEF ShareInv, Apart, Writing
<1>3. Own'
  <2>1. \A u \in Writers : Writing(u)' => pc'[u] = pc[u]
    OBVIOUS
  <2> QED
    BY <1>1, <2>1 DEF ShareInv, Own, Writing
<1>4. \A w \in Writers : Kept(w) => Kept(w)'
  BY <1>1 DEF Kept
<1>5. \A w \in Writers : w \in objects' => Kept(w)'
  BY DEF Kept
<1> QED
  BY <1>1, <1>2, <1>3, <1>4, <1>5 DEF ShareInv, Returned, FilesIntact, MirrorTypeOK, Kept

\* A run has begun to write, at a name that is free on the share or below it.
LEMMA ProbeStep ==
  ASSUME MirrorTypeOK, ShareInv, NEW w \in Writers, Probe(w) \/ ProbeBelow(w)
  PROVE  ShareInv'
<1>0. PICK n \in Names : target' = [target EXCEPT ![w] = n] /\ Contest(w, n)
  BY DEF Probe, ProbeBelow
<1>1. /\ pc[w] = "driver" /\ pc' = [pc EXCEPT ![w] = "open"]
      /\ UNCHANGED <<content, path, tmp, fd, objects, returned>>
      /\ adrift \subseteq adrift'
      /\ \/ mount' = mount /\ mount = "mounted"
         \/ mount # "mounted" /\ w \in adrift'
  BY DEF Probe, ProbeBelow, At, Goto, places
<1>2. /\ pc \in [Writers -> MirrorPlaces] /\ target \in [Writers -> Names \cup {None}]
      /\ returned \subseteq Writers /\ fd[w] = None /\ w \notin returned
  BY <1>1 DEF MirrorTypeOK, ShareInv, Apart, Returned
<1>3. /\ \A u \in Writers : u # w => target'[u] = target[u] /\ (Writing(u)' <=> Writing(u))
                                   /\ pc'[u] = pc[u]
      /\ target'[w] = n /\ pc'[w] = "open" /\ Writing(w)'
      /\ contested \subseteq contested'
      /\ \A u \in Rivals(n) : u \in contested' /\ w \in contested'
      /\ path[n] # None => w \in contested'
  BY <1>0, <1>1, <1>2 DEF Writing, Contest
<1>4. /\ \A u \in Writers : u # w /\ Writing(u)' /\ target'[u] = n => u \in Rivals(n)
      /\ \A u \in Writers : path[n] # None /\ content[path[n]] = u => u \in contested'
  BY <1>3 DEF Rivals
<1>5. Apart'
  <2>1. \A u \in Writers \ adrift' : pc'[u] = "write" => fd'[u] # None
    BY <1>1, <1>3 DEF ShareInv, Apart
  <2> QED
    BY <1>1, <1>2, <1>3, <2>1 DEF ShareInv, Apart
<1>6. Own'
  <2>0. \A v \in Writers \ adrift' : Writing(v)' => mount' = "mounted"
    BY <1>1, <1>3 DEF ShareInv, Own
  <2>1. ASSUME NEW v \in Writers, NEW u \in Writers, Writing(v)', Writing(u)', v # u,
               target'[v] = target'[u]
        PROVE  v \in contested'
    BY <1>3, <1>4, <2>1 DEF ShareInv, Own
  <2>2. ASSUME NEW v \in Writers, v \notin contested', Writing(v)'
        PROVE  path'[target'[v]] = None
    BY <1>1, <1>3, <2>2 DEF ShareInv, Own
  <2>3. ASSUME NEW v \in Writers, v \notin contested', v \notin adrift'
        PROVE  /\ pc'[v] = "write" => fd'[v] = tmp'[target'[v]] /\ content'[fd'[v]] = "empty"
               /\ pc'[v] \in {"chmod", "replace"} =>
                     tmp'[target'[v]] # None /\ content'[tmp'[target'[v]]] = v
    BY <1>1, <1>3, <2>3 DEF ShareInv, Own
  <2> QED
    BY <2>0, <2>1, <2>2, <2>3 DEF Own
<1>7. \A v \in Writers : v \notin contested' /\ Kept(v) => Kept(v)'
  <2> SUFFICES ASSUME NEW v \in Writers, v \notin contested', v \notin objects, Kept(v)
               PROVE  Kept(v)'
    BY <1>1 DEF Kept
  <2>1. PICK m \in Names :
          /\ path[m] # None /\ content[path[m]] = v
          /\ \A u \in Writers : Writing(u) => target[u] # m
    BY DEF Kept
  <2>2. m # n
    BY <1>4, <2>1
  <2> QED
    BY <1>1, <1>3, <2>1, <2>2 DEF Kept
<1>8. \A v \in returned' : pc'[v] \in {"done", "line", "end"}
  BY <1>1, <1>2, <1>3 DEF ShareInv, Returned
<1>9. \A v \in returned' \ (adrift' \cup contested') : Kept(v)'
  BY <1>1, <1>2, <1>3, <1>7 DEF ShareInv, Returned
<1>10. adrift' \cup contested' = {} => FilesIntact'
  BY <1>1, <1>3 DEF ShareInv, Returned, FilesIntact
<1> QED
  BY <1>5, <1>6, <1>8, <1>9, <1>10 DEF ShareInv, Returned

\* A step in the directory below the mount point.
LEMMA BelowStep ==
  ASSUME MirrorTypeOK, ShareInv, NEW w \in Writers, WriteBelow(w) PROVE ShareInv'
<1>1. /\ content' = content /\ path' = path /\ tmp' = tmp /\ fd' = fd /\ target' = target
      /\ objects' = objects /\ adrift' = adrift /\ contested' = contested /\ mount' = mount
      /\ pc' = [pc EXCEPT ![w] = pc'[w]] /\ Writing(w)
      /\ \/ returned' = returned /\ Writing(w)'
         \/ returned' = returned \cup {w} /\ pc'[w] = "done"
      /\ pc'[w] # "write" => fd[w] = None
  BY DEF WriteBelow, files, places, At, Goto, Writing, MirrorTypeOK, ShareInv, Apart
<1>2. /\ pc \in [Writers -> MirrorPlaces] /\ returned \subseteq Writers
      /\ w \in adrift /\ w \notin returned
  <2>1. pc[w] = "write" => fd[w] = None
    BY DEF WriteBelow, At
  <2>2. pc[w] # "write" => mount # "mounted"
    BY DEF WriteBelow, At
  <2> QED
    BY <1>1, <2>1, <2>2 DEF MirrorTypeOK, ShareInv, Apart, Own, Returned, Writing
<1>3. /\ \A u \in Writers : u # w => pc'[u] = pc[u]
      /\ \A u \in Writers : Writing(u)' => Writing(u)
  BY <1>1, <1>2 DEF Writing
<1>4. Apart'
  BY <1>1, <1>2, <1>3 DEF ShareInv, Apart
<1>5. Own'
  <2>1. \A v \in Writers \ (contested \cup adrift) : pc'[v] = pc[v]
    BY <1>2, <1>3
  <2> QED
    BY <1>1, <1>3, <2>1 DEF ShareInv, Own
<1>6. \A v \in Writers : Kept(v) => Kept(v)'
  BY <1>1, <1>3 DEF Kept
<1>7. \A v \in returned' : pc'[v] \in {"done", "line", "end"}
  BY <1>1, <1>2, <1>3 DEF ShareInv, Returned
<1>8. \A v \in returned' \ (adrift' \cup contested') : Kept(v)'
  BY <1>1, <1>2, <1>6 DEF ShareInv, Returned
<1> QED
  BY <1>1, <1>4, <1>5, <1>7, <1>8 DEF ShareInv, Returned, FilesIntact

\* The temporary name comes to an inode that is no file of any name.
LEMMA OpenStep ==
  ASSUME MirrorTypeOK, ShareInv, NEW w \in Writers, Open(w),
         UNCHANGED <<objects, returned, adrift, contested, mount>>
  PROVE  ShareInv'
<1>0. PICK i \in Inodes :
        /\ (tmp[target[w]] = None /\ i \in Free) \/ tmp[target[w]] = i
        /\ content' = [content EXCEPT ![i] = "empty"]
        /\ tmp' = [tmp EXCEPT ![target[w]] = i]
        /\ fd' = [fd EXCEPT ![w] = i]
  BY OpenPicks
<1>1. /\ target[w] \in Names /\ pc[w] = "open" /\ pc' = [pc EXCEPT ![w] = "write"]
      /\ path' = path /\ target' = target
      /\ objects' = objects /\ returned' = returned /\ adrift' = adrift
      /\ contested' = contested /\ mount' = mount
  BY OpenPicks
<1>2. /\ content \in [Inodes -> Documents \cup {"empty", "torn"}]
      /\ path \in [Names -> Inodes \cup {None}] /\ tmp \in [Names -> Inodes \cup {None}]
      /\ fd \in [Writers -> Inodes \cup {None}] /\ pc \in [Writers -> MirrorPlaces]
      /\ returned \subseteq Writers /\ i # None
      /\ \A u \in Writers : Writing(u) => target[u] \in Names
  BY DEF MirrorTypeOK
<1>3. /\ \A n \in Names : path[n] # i
      /\ \A n \in Names \ {target[w]} : tmp[n] # i
      /\ \A u \in Writers : fd[u] = i => target[u] = target[w] /\ u # w
  BY <1>0, <1>1, <1>2 DEF Free, ShareInv, Apart
<1>4. /\ \A n \in Names \ {target[w]} : tmp'[n] = tmp[n]
      /\ tmp'[target[w]] = i /\ fd'[w] = i /\ pc'[w] = "write" /\ content'[i] = "empty"
      /\ \A u \in Writers \ {w} : fd'[u] = fd[u] /\ pc'[u] = pc[u]
      /\ \A j \in Inodes \ {i} : content'[j] = content[j]
      /\ \A u \in Writers : Writing(u)' <=> Writing(u)
  BY <1>0, <1>1, <1>2 DEF Writing
<1>5. Apart'
  <2>1. \A m, n \in Names : tmp'[m] # None => tmp'[m] # path'[n]
    BY <1>1, <1>3, <1>4 DEF ShareInv, Apart
  <2>2. \A m, n \in Names : tmp'[m] # None /\ tmp'[m] = tmp'[n] => m = n
    BY <1>1, <1>3, <1>4 DEF ShareInv, Apart
  <2>3. /\ \A u \in Writers : fd'[u] # None => pc'[u] = "write"
        /\ \A u \in Writers \ adrift' : pc'[u] = "write" => fd'[u] # None
    BY <1>1, <1>2, <1>4 DEF ShareInv, Apart
  <2>4. ASSUME NEW u \in Writers, fd'[u] # None, NEW n \in Names \ {target'[u]}
        PROVE  tmp'[n] # fd'[u] /\ path'[n] # fd'[u]
    BY <1>1, <1>3, <1>4, <2>4 DEF ShareInv, Apart
  <2>5. \A m, n \in Names : path'[m] # None /\ path'[m] = path'[n] => m = n
    BY <1>1 DEF ShareInv, Apart
  <2> QED
    BY <2>1, <2>2, <2>3, <2>4, <2>5 DEF Apart
<1>6. Own'
  <2>1. ASSUME NEW v \in Writers, NEW u \in Writers, Writing(v)', Writing(u)', v # u,
               target'[v] = target'[u]
        PROVE  v \in contested'
    BY <1>1, <1>4, <2>1 DEF ShareInv, Own
  <2>0. \A v \in Writers \ adrift' : Writing(v)' => mount' = "mounted"
    BY <1>1, <1>4 DEF ShareInv, Own
  <2>3. ASSUME NEW v \in Writers, v \notin contested', Writing(v)'
        PROVE  path'[target'[v]] = None
    BY <1>1, <1>4, <2>3 DEF ShareInv, Own
  <2>2. ASSUME NEW v \in Writers, v \notin contested', v \notin adrift'
        PROVE  /\ pc'[v] = "write" => fd'[v] = tmp'[target'[v]] /\ content'[fd'[v]] = "empty"
               /\ pc'[v] \in {"chmod", "replace"} =>
                     tmp'[target'[v]] # None /\ content'[tmp'[target'[v]]] = v
    <3>1. CASE v = w
      BY <1>1, <1>4, <2>2, <3>1 DEF ShareInv, Own, Writing
    <3>2. CASE v # w
      <4>1. Writing(v) => target[v] # target[w] /\ target[v] \in Names
        BY <1>1, <1>2, <2>2, <3>2 DEF ShareInv, Own, Writing
      <4>2. Writing(v) => tmp'[target[v]] = tmp[target[v]] /\ tmp[target[v]] # i
        BY <1>3, <1>4, <4>1
      <4>3. Writing(v) /\ tmp[target[v]] # None =>
              content'[tmp[target[v]]] = content[tmp[target[v]]]
        BY <1>2, <1>4, <4>1, <4>2
      <4>4. pc[v] = "write" => fd[v] # None
        BY <1>1, <2>2 DEF ShareInv, Apart
      <4> QED
        BY <1>1, <1>4, <2>2, <3>2, <4>1, <4>2, <4>3, <4>4 DEF ShareInv, Own, Writing
    <3> QED
      BY <3>1, <3>2
  <2> QED
    BY <2>0, <2>1, <2>2, <2>3 DEF Own
<1>7. \A n \in Names : path'[n] = path[n] /\ (path[n] # None => content'[path[n]] = content[path[n]])
  BY <1>1, <1>2, <1>3, <1>4
<1>8. \A v \in Writers : Kept(v) => Kept(v)'
  BY <1>1, <1>4, <1>7 DEF Kept
<1>9. \A v \in returned' : pc'[v] \in {"done", "line", "end"}
  BY <1>1, <1>2, <1>4 DEF ShareInv, Returned
<1> QED
  BY <1>1, <1>2, <1>5, <1>6, <1>7, <1>8, <1>9 DEF ShareInv, Returned, FilesIntact

\* An open inode gets another content, and its writer lets go of it or not: a
\* write, a failure or a kill.
LEMMA ContentStep ==
  ASSUME MirrorTypeOK, ShareInv, NEW w \in Writers, Writing(w),
         \A j \in Inodes : j # fd[w] => content'[j] = content[j],
         fd' = [fd EXCEPT ![w] = None],
         UNCHANGED <<path, tmp, target, objects, returned, adrift, contested, mount>>,
         NEW place, pc' = [pc EXCEPT ![w] = place],
         \/ place \in {"idle", "raised"}
         \/ place = "chmod" /\ pc[w] = "write"
               /\ (w \notin contested \cup adrift => content'[fd[w]] = w)
  PROVE  ShareInv'
<1>1. /\ path' = path /\ tmp' = tmp /\ target' = target /\ objects' = objects
      /\ returned' = returned /\ adrift' = adrift /\ contested' = contested
      /\ mount' = mount
  OBVIOUS
<1>2. /\ path \in [Names -> Inodes \cup {None}] /\ tmp \in [Names -> Inodes \cup {None}]
      /\ fd \in [Writers -> Inodes \cup {None}] /\ pc \in [Writers -> MirrorPlaces]
      /\ returned \subseteq Writers /\ target[w] \in Names
      /\ \A u \in Writers : Writing(u) => target[u] \in Names
  BY DEF MirrorTypeOK
<1>3. /\ \A u \in Writers \ {w} : fd'[u] = fd[u] /\ pc'[u] = pc[u]
      /\ fd'[w] = None /\ pc'[w] = place
      /\ \A u \in Writers : Writing(u)' => Writing(u)
      /\ w \notin returned
  BY <1>2 DEF Writing, ShareInv, Returned
<1>4. \A n \in Names \ {target[w]} :
         /\ path[n] # None => content'[path[n]] = content[path[n]]
         /\ tmp[n] # None => content'[tmp[n]] = content[tmp[n]]
  BY <1>2 DEF ShareInv, Apart
<1>5. Apart'
  BY <1>1, <1>3 DEF ShareInv, Apart
<1>6. Own'
  <2>1. ASSUME NEW v \in Writers, NEW u \in Writers, Writing(v)', Writing(u)', v # u,
               target'[v] = target'[u]
        PROVE  v \in contested'
    BY <1>1, <1>3, <2>1 DEF ShareInv, Own
  <2>0. \A v \in Writers \ adrift' : Writing(v)' => mount' = "mounted"
    BY <1>1, <1>3 DEF ShareInv, Own
  <2>3. ASSUME NEW v \in Writers, v \notin contested', Writing(v)'
        PROVE  path'[target'[v]] = None
    BY <1>1, <1>3, <2>3 DEF ShareInv, Own
  <2>2. ASSUME NEW v \in Writers, v \notin contested', v \notin adrift'
        PROVE  /\ pc'[v] = "write" => fd'[v] = tmp'[target'[v]] /\ content'[fd'[v]] = "empty"
               /\ pc'[v] \in {"chmod", "replace"} =>
                     tmp'[target'[v]] # None /\ content'[tmp'[target'[v]]] = v
    <3>1. CASE v = w
      <4>1. CASE place \in {"idle", "raised"}
        BY <1>3, <3>1, <4>1 DEF Writing
      <4>2. CASE place = "chmod" /\ pc[w] = "write" /\ content'[fd[w]] = w
        BY <1>1, <1>3, <2>2, <3>1, <4>2 DEF ShareInv, Own, Apart, Writing
      <4> QED
        BY <1>1, <2>2, <3>1, <4>1, <4>2
    <3>2. CASE v # w
      <4>1. Writing(v) => target[v] # target[w] /\ target[v] \in Names
        BY <1>1, <1>2, <2>2, <3>2 DEF ShareInv, Own
      <4>2. pc[v] = "write" => fd[v] # None
        BY <1>1, <2>2 DEF ShareInv, Apart
      <4> QED
        BY <1>1, <1>3, <1>4, <2>2, <3>2, <4>1, <4>2 DEF ShareInv, Own, Writing
    <3> QED
      BY <3>1, <3>2
  <2> QED
    BY <2>0, <2>1, <2>2, <2>3 DEF Own
<1>7. \A v \in Writers : Kept(v) => Kept(v)'
  BY <1>1, <1>3, <1>4 DEF Kept
<1>8. \A v \in returned' : pc'[v] \in {"done", "line", "end"}
  BY <1>1, <1>2, <1>3 DEF ShareInv, Returned
<1>9. adrift \cup contested = {} => FilesIntact'
  <2>1. contested = {} => path[target[w]] = None
    BY DEF ShareInv, Own
  <2> QED
    BY <1>1, <1>4, <2>1 DEF ShareInv, Returned, FilesIntact
<1>10. \A v \in returned' \ (adrift' \cup contested') : Kept(v)'
  BY <1>1, <1>2, <1>7 DEF ShareInv, Returned
<1>11. Returned'
  BY <1>1, <1>8, <1>9, <1>10 DEF Returned
<1> QED
  BY <1>5, <1>6, <1>11 DEF ShareInv

\* os.replace, whatever inode the temporary name has by then.
LEMMA ReplaceStep ==
  ASSUME MirrorTypeOK, ShareInv, NEW w \in Writers, MirrorReplace(w) PROVE ShareInv'
<1>0. /\ pc[w] = "replace" /\ target[w] \in Names /\ Writing(w)
      /\ content \in [Inodes -> Documents \cup {"empty", "torn"}]
      /\ path \in [Names -> Inodes \cup {None}] /\ tmp \in [Names -> Inodes \cup {None}]
      /\ pc \in [Writers -> MirrorPlaces] /\ fd \in [Writers -> Inodes \cup {None}]
      /\ returned \subseteq Writers
      /\ \A u \in Writers : Writing(u) => target[u] \in Names
  BY DEF MirrorTypeOK, MirrorReplace, Replace, At, Writing
<1>1. /\ content' = content /\ fd' = fd /\ target' = target /\ objects' = objects
      /\ adrift' = adrift /\ contested' = contested /\ mount' = mount
      /\ tmp' = [tmp EXCEPT ![target[w]] = None]
  BY DEF MirrorReplace, Replace, places
<1>2. CASE tmp[target[w]] = None
  <2>1. /\ path' = path /\ returned' = returned /\ tmp' = tmp
        /\ pc' = [pc EXCEPT ![w] = "raised"]
    BY <1>0, <1>1, <1>2 DEF MirrorReplace, Replace, Goto
  <2>2. fd[w] = None
    BY <1>0 DEF ShareInv, Apart
  <2>3. fd' = [fd EXCEPT ![w] = None]
    BY <1>0, <1>1, <2>2
  <2> QED
    BY <1>0, <1>1, <2>1, <2>3, ContentStep
<1>3. CASE tmp[target[w]] # None
  <2> DEFINE i == tmp[target[w]]
             n == target[w]
  <2>1. /\ path' = [path EXCEPT ![n] = i] /\ returned' = returned \cup {w}
        /\ pc' = [pc EXCEPT ![w] = "done"]
    BY <1>3 DEF MirrorReplace, Replace, Goto
  <2>2. /\ path'[n] = i /\ tmp'[n] = None /\ n \in Names /\ i \in Inodes /\ i # None
        /\ \A m \in Names \ {n} : path'[m] = path[m] /\ tmp'[m] = tmp[m]
        /\ pc'[w] = "done"
        /\ \A u \in Writers \ {w} : pc'[u] = pc[u]
        /\ \A u \in Writers : Writing(u)' <=> (Writing(u) /\ u # w)
    BY <1>0, <1>1, <1>3, <2>1 DEF Writing
  <2>3. /\ \A m \in Names : path[m] # i
        /\ \A m \in Names \ {n} : tmp[m] # i
        /\ \A u \in Writers : fd[u] = i => target[u] = n
    BY <1>0, <1>3 DEF ShareInv, Apart
  <2> HIDE DEF i, n
  <2>n. n = target[w] /\ i = tmp[n]
    BY DEF i, n
  <2>4. Apart'
    <3>1. \A m, k \in Names : tmp'[m] # None => tmp'[m] # path'[k]
      BY <2>2, <2>3 DEF ShareInv, Apart
    <3>2. \A m, k \in Names : tmp'[m] # None /\ tmp'[m] = tmp'[k] => m = k
      BY <2>2 DEF ShareInv, Apart
    <3>3. /\ \A u \in Writers : fd'[u] # None => pc'[u] = "write"
          /\ \A u \in Writers \ adrift' : pc'[u] = "write" => fd'[u] # None
      BY <1>0, <1>1, <2>2 DEF ShareInv, Apart
    <3>4. ASSUME NEW u \in Writers, fd'[u] # None, NEW m \in Names \ {target'[u]}
          PROVE  tmp'[m] # fd'[u] /\ path'[m] # fd'[u]
      BY <1>1, <2>2, <2>3, <3>4 DEF ShareInv, Apart
    <3>5. \A m, k \in Names : path'[m] # None /\ path'[m] = path'[k] => m = k
      BY <2>2, <2>3 DEF ShareInv, Apart
    <3> QED
      BY <3>1, <3>2, <3>3, <3>4, <3>5 DEF Apart
  <2>5. Own'
    <3>1. ASSUME NEW v \in Writers, NEW u \in Writers, Writing(v)', Writing(u)', v # u,
                 target'[v] = target'[u]
          PROVE  v \in contested'
      BY <1>1, <2>2, <3>1 DEF ShareInv, Own
    <3>0. \A v \in Writers \ adrift' : Writing(v)' => mount' = "mounted"
      BY <1>1, <2>2 DEF ShareInv, Own
    <3>3. ASSUME NEW v \in Writers, v \notin contested', Writing(v)'
          PROVE  path'[target'[v]] = None
      <4>1. v # w /\ Writing(v) /\ target[v] # n /\ target[v] \in Names
        BY <1>0, <1>1, <2>2, <2>n, <3>3 DEF ShareInv, Own
      <4> QED
        BY <1>1, <2>2, <3>3, <4>1 DEF ShareInv, Own
    <3>2. ASSUME NEW v \in Writers, v \notin contested', v \notin adrift'
          PROVE  /\ pc'[v] = "write" => fd'[v] = tmp'[target'[v]] /\ content'[fd'[v]] = "empty"
                 /\ pc'[v] \in {"chmod", "replace"} =>
                       tmp'[target'[v]] # None /\ content'[tmp'[target'[v]]] = v
      <4>1. CASE v = w
        BY <2>2, <4>1 DEF Writing
      <4>2. CASE v # w
        <5>1. Writing(v) => target[v] # n /\ target[v] \in Names
          BY <1>0, <1>1, <2>n, <3>2, <4>2 DEF ShareInv, Own
        <5> QED
          BY <1>1, <2>2, <3>2, <4>2, <5>1 DEF ShareInv, Own, Writing
      <4> QED
        BY <4>1, <4>2
    <3> QED
      BY <3>0, <3>1, <3>2, <3>3 DEF Own
  <2>6. \A v \in Writers : Kept(v) => Kept(v)'
    <3> SUFFICES ASSUME NEW v \in Writers, v \notin objects, Kept(v) PROVE Kept(v)'
      BY <1>1 DEF Kept
    <3>1. PICK m \in Names :
            /\ path[m] # None /\ content[path[m]] = v
            /\ \A u \in Writers : Writing(u) => target[u] # m
      BY DEF Kept
    <3>2. m # n
      BY <1>0, <2>n, <3>1
    <3> QED
      BY <1>1, <2>2, <3>1, <3>2 DEF Kept
  <2>7. w \notin contested \cup adrift => content[i] = w /\ Kept(w)'
    <3> SUFFICES ASSUME w \notin contested \cup adrift PROVE content[i] = w /\ Kept(w)'
      OBVIOUS
    <3>1. content[i] = w
      BY <1>0, <2>n DEF ShareInv, Own
    <3>2. \A u \in Writers : Writing(u)' => target'[u] # n
      BY <1>0, <1>1, <2>2, <2>n DEF ShareInv, Own
    <3> QED
      BY <1>1, <2>2, <3>1, <3>2 DEF Kept
  <2>8. Returned'
    <3>1. \A v \in returned' : pc'[v] \in {"done", "line", "end"}
      BY <1>0, <2>1, <2>2 DEF ShareInv, Returned
    <3>2. \A v \in returned' \ (adrift' \cup contested') : Kept(v)'
      BY <1>0, <1>1, <2>1, <2>6, <2>7 DEF ShareInv, Returned
    <3>3. adrift' \cup contested' = {} => FilesIntact'
      BY <1>1, <2>2, <2>7 DEF ShareInv, Returned, FilesIntact, Documents
    <3> QED
      BY <3>1, <3>2, <3>3 DEF Returned
  <2> QED
    BY <2>4, <2>5, <2>8 DEF ShareInv
<1> QED
  BY <1>2, <1>3

LEMMA ShareStep ==
  ASSUME MirrorTypeOK, ShareInv, [MirrorNext]_mvars PROVE ShareInv'
<1>0. /\ pc \in [Writers -> MirrorPlaces] /\ fd \in [Writers -> Inodes \cup {None}]
      /\ content \in [Inodes -> Documents \cup {"empty", "torn"}]
      /\ returned \subseteq Writers
      /\ \A u \in Writers : fd[u] # None => pc[u] = "write"
      /\ \A u \in returned : pc[u] \in {"done", "line", "end"}
  BY DEF MirrorTypeOK, ShareInv, Apart, Returned
<1>1. CASE UNCHANGED mvars
  BY <1>0, <1>1, QuietStep DEF mvars, vars, files, places, history
<1>2. CASE Change
  <2>1. /\ UNCHANGED <<files, contested, objects, returned, pc>> /\ adrift \subseteq adrift'
        /\ mount' = mount \/ \A u \in Writers : Writing(u) => u \in adrift'
    BY <1>2 DEF Change, vars, files
  <2> QED
    BY <1>0, <2>1, QuietStep
<1>4. CASE Tick
  BY <1>0, <1>4, QuietStep DEF Tick, vars, files, history
<1>3. ASSUME NEW w \in Writers, RunStep(w) PROVE ShareInv'
  <2>1. CASE \/ ReadCache(w) \/ Ask(w) \/ OpenCache(w) \/ FillCache(w) \/ NoVault(w)
             \/ Put(w) \/ NotMounted(w) \/ AppendLine(w) \/ Killed(w)
    <3>1. /\ UNCHANGED <<files, contested>>
          /\ pc' = [pc EXCEPT ![w] = pc'[w]] /\ ~Writing(w) /\ pc[w] # "write"
          /\ pc'[w] \in {"driver", "ask", "cache", "fill", "end", "line"}
          /\ pc[w] \in {"done", "line", "end"} => pc'[w] = "end"
          /\ objects \subseteq objects' /\ adrift' = adrift /\ mount' = mount
          /\ \/ returned' = returned
             \/ /\ returned' = returned \cup {w} /\ pc'[w] = "line"
                /\ w \in objects'
      <4> USE <1>0 DEF files, places, history, At, Goto, Writing
      <4>1. CASE ReadCache(w)
        BY <4>1 DEF ReadCache
      <4>2. CASE Ask(w)
        BY <4>2 DEF Ask
      <4>3. CASE OpenCache(w)
        BY <4>3 DEF OpenCache
      <4>4. CASE FillCache(w)
        BY <4>4 DEF FillCache
      <4>5. CASE NoVault(w)
        BY <4>5 DEF NoVault
      <4>6. CASE Put(w)
        BY <4>6 DEF Put
      <4>7. CASE NotMounted(w)
        BY <4>7 DEF NotMounted
      <4>8. CASE AppendLine(w)
        BY <4>8 DEF AppendLine
      <4>9. CASE Killed(w)
        BY <4>9 DEF Killed
      <4> QED
        BY <2>1, <4>1, <4>2, <4>3, <4>4, <4>5, <4>6, <4>7, <4>8, <4>9
    <3>2. /\ \A u \in Writers : pc'[u] = pc[u] \/ (~Writing(u) /\ ~Writing(u)' /\ fd[u] = None)
          /\ \A u \in returned' : pc'[u] \in {"done", "line", "end"}
          /\ \A u \in returned' : u \in returned \/ u \in objects' \/ u \in adrift'
      BY <1>0, <3>1 DEF Writing
    <3> QED
      BY <3>1, <3>2, QuietStep
  <2>2. CASE Probe(w) \/ ProbeBelow(w)
    BY <2>2, ProbeStep
  <2>7. CASE WriteBelow(w)
    BY <2>7, BelowStep
  <2>3. CASE MirrorWrite(w)
    <3>0. UNCHANGED <<objects, returned, adrift, contested, mount>>
      BY <2>3 DEF MirrorWrite, history, places
    <3>1. CASE Open(w)
      BY <3>0, <3>1, OpenStep
    <3>2. CASE fd[w] # None /\ Write(w)
      <4>1. PICK new \in IF content[fd[w]] = "empty" THEN {w} ELSE {w, "torn"} :
              content' = [content EXCEPT ![fd[w]] = new]
        BY <3>2 DEF Write
      <4>2. /\ pc[w] = "write" /\ pc' = [pc EXCEPT ![w] = "chmod"]
            /\ fd' = [fd EXCEPT ![w] = None] /\ UNCHANGED <<path, tmp, target>>
        BY <3>2 DEF Write, At, Goto
      <4>3. w \notin contested \cup adrift => content'[fd[w]] = w
        BY <1>0, <3>2, <4>1, <4>2 DEF ShareInv, Own
      <4>4. \A j \in Inodes : j # fd[w] => content'[j] = content[j]
        BY <1>0, <4>1
      <4>5. Writing(w)
        BY <4>2 DEF Writing
      <4> QED
        BY <3>0, <4>2, <4>3, <4>4, <4>5, ContentStep
    <3>3. CASE Chmod(w)
      <4>1. /\ pc[w] = "chmod" /\ UNCHANGED <<content, path, tmp, fd, target>>
            /\ pc' = [pc EXCEPT ![w] = pc'[w]]
            /\ \/ tmp[target[w]] = None /\ pc'[w] = "raised"
               \/ tmp[target[w]] # None /\ pc'[w] = "replace"
        BY <1>0, <3>3 DEF Chmod, At, Goto
      <4>2. /\ \A u \in Writers \ {w} : pc'[u] = pc[u]
            /\ \A u \in Writers : Writing(u)' => Writing(u)
            /\ w \notin returned
        BY <1>0, <4>1 DEF Writing
      <4>3. Apart'
        BY <1>0, <3>0, <4>1, <4>2 DEF ShareInv, Apart
      <4>4. Own'
        BY <3>0, <4>1, <4>2 DEF ShareInv, Own, Writing
      <4>5. Returned'
        BY <1>0, <3>0, <4>1, <4>2 DEF ShareInv, Returned, Kept, FilesIntact
      <4> QED
        BY <4>3, <4>4, <4>5 DEF ShareInv
    <3> QED
      BY <2>3, <3>1, <3>2, <3>3 DEF MirrorWrite
  <2>4. CASE MirrorReplace(w)
    BY <2>4, ReplaceStep
  <2>5. CASE Raises(w)
    BY <2>5, TornContent, ContentStep DEF Raises, Goto, history, places
  <2>6. CASE Breaks(w)
    BY <2>6, TornContent, ContentStep DEF Breaks, Kill, Writing, history, places
  <2> QED
    BY <1>3, <2>1, <2>2, <2>3, <2>4, <2>5, <2>6, <2>7 DEF RunStep
<1> QED
  BY <1>1, <1>2, <1>3, <1>4 DEF MirrorNext

----------------------------------------------------------------------------
(* Theorems.                                                                *)

LEMMA Invariance == MirrorSpec => []Invs
<1>1. MirrorInit => Invs
  BY MirrorInitType, ShareInit, ToldInit DEF Invs
<1>2. Invs /\ [MirrorNext]_mvars => Invs'
  BY MirrorStepType, ShareStep, ToldStep DEF Invs
<1> QED
  BY <1>1, <1>2, PTL DEF MirrorSpec

\* Type correctness of the runs, the cache, the share and the bucket.
THEOREM MirrorTypes == MirrorSpec => []MirrorTypeOK
<1>1. Invs => MirrorTypeOK
  BY DEF Invs
<1> QED
  BY <1>1, Invariance, PTL

\* A receipt that was acknowledged stays in the organisation's place and whole,
\* for any number of seats, names, failures and changes of the configuration,
\* but for races to one name and a mount that was not there, came or went during
\* the write (write_receipt).
THEOREM ReceiptsStay == MirrorSpec => []MirroredStays
<1>1. Invs => MirroredStays
  BY DEF Invs, ShareInv, Returned, MirroredStays, Kept, InPlace
<1> QED
  BY <1>1, Invariance, PTL

\* A run whose seat knew of a vault mirrors to one, unless it was told that
\* there is none any more (_load_cached_vault_config).
THEOREM KnownMirrored == MirrorSpec => []KnownIsMirrored
<1>1. Invs => KnownIsMirrored
  BY DEF Invs
<1> QED
  BY <1>1, Invariance, PTL
=============================================================================

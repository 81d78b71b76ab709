---------------------------- MODULE Station_proofs ----------------------------
(***************************************************************************)
(* The station's two stores of credentials, and the backup and the restore  *)
(* of its workspace, for any numbers of credentials, saves, policy changes, *)
(* backups and restores.                                                    *)
(***************************************************************************)
EXTENDS StationVault, BackupRestore, WellFoundedInduction, TLAPS

(***************************************************************************)
(* Types: a store with one more entry is a store.                           *)
(***************************************************************************)
LEMMA WithInVaults ==
  ASSUME NEW f \in Vaults, NEW e \in Entries, NEW n \in 0 .. MaxSaves
  PROVE  With(f, e, n) \in Vaults
  <1>1. PICK es \in SUBSET Entries : f \in [es -> 0 .. MaxSaves]
    BY DEF Vaults
  <1>2. With(f, e, n) \in [es \cup {e} -> 0 .. MaxSaves]
    BY <1>1 DEF With
  <1> QED
    BY <1>1, <1>2 DEF Vaults

LEMMA EmptyInVaults == Empty \in Vaults
  BY DEF Empty, Vaults

IsNamed(store) == \A p \in DOMAIN store : p \in Providers /\ store[p] \in NamedEntries

LEMMA WithInCreds ==
  ASSUME NEW c \in UNION {[ids -> 0 .. MaxSaves] : ids \in SUBSET Ids}, NEW id \in Ids,
         NEW n \in 0 .. MaxSaves
  PROVE  With(c, id, n) \in UNION {[ids -> 0 .. MaxSaves] : ids \in SUBSET Ids}
  <1>1. PICK ids \in SUBSET Ids : c \in [ids -> 0 .. MaxSaves]
    OBVIOUS
  <1>2. With(c, id, n) \in [ids \cup {id} -> 0 .. MaxSaves]
    BY <1>1 DEF With
  <1> QED
    BY <1>1, <1>2

LEMMA EmptyInCreds == Empty \in UNION {[ids -> 0 .. MaxSaves] : ids \in SUBSET Ids}
  BY DEF Empty

TypeInv ==
    /\ TypeOK
    /\ \A w \in Writers \ {"credential"} : copy[w] # None => copy[w] \in Vaults
    /\ copy["credential"] # None => IsNamed(copy["credential"])

Holders == [code : Codes \cup {"none"}, error : {"denied", "stray", "none"}]

LEMMA HolderTypes ==
  /\ Nothing \in Holders
  /\ \A h \in Holders : \A c \in Codes : [h EXCEPT !.code = c] \in Holders
  /\ \A h \in Holders : \A e \in {"denied", "stray"} : [h EXCEPT !.error = e] \in Holders
  BY DEF Nothing, Holders

LEMMA NextCapture ==
  ASSUME CaptureTypeOK, CaptureNext \/ Forget PROVE CaptureTypeOK'
  <1> USE CaptureAssumption DEF CaptureTypeOK, Connections
  <1>1. CASE Listen
    BY <1>1 DEF Listen, capture
  <1>2. CASE Connect
    BY <1>2 DEF Connect
  <1>3. CASE Handle
    <2>1. CASE serving \in Codes
      BY <1>3, <2>1, HolderTypes DEF Handle, Holders
    <2>2. CASE serving \in {"denied", "stray"}
      BY <1>3, <2>2, HolderTypes DEF Handle, Holders, Codes
    <2>3. CASE serving = "post"
      BY <1>3, <2>3 DEF Handle, Codes
    <2> QED
      BY <1>3, <2>1, <2>2, <2>3 DEF Handle
  <1>4. CASE HangsUp
    BY <1>4 DEF HangsUp
  <1>5. CASE Wake \/ Timeout
    BY <1>5 DEF Wake, Timeout, capture
  <1>6. CASE Shutdown
    BY <1>6 DEF Shutdown
  <1>7. CASE Closed
    <2>1. holder' \in Holders /\ asked' \in BOOLEAN
      BY <1>7, HolderTypes, Zenon DEF Closed
    <2>2. connections' \in 0 .. MaxConnections /\ got' \in Codes \cup {"none"}
      BY <1>7 DEF Closed
    <2> QED
      BY <1>7, <2>1, <2>2 DEF Closed, Holders
  <1>8. CASE Forget
    BY <1>8 DEF Forget
  <1> QED
    BY <1>1, <1>2, <1>3, <1>4, <1>5, <1>6, <1>7, <1>8 DEF CaptureNext

LEMMA InitTypeInv == Init => TypeInv
  <1> SUFFICES ASSUME Init PROVE TypeInv
    OBVIOUS
  <1>1. CaptureTypeOK
    <2>1. holder \in Holders /\ asked \in BOOLEAN
      BY HolderTypes, Zenon DEF Init, CaptureInit
    <2>2. connections \in 0 .. MaxConnections
      BY CaptureAssumption DEF Init, CaptureInit
    <2> QED
      BY <2>1, <2>2 DEF Init, CaptureInit, CaptureTypeOK, Holders
  <1>2. vault = Damaged \/ vault \in Vaults
    BY EmptyInVaults, StationAssumption DEF Init, Vaults
  <1>3. \A i \in Ids : With(Empty, i, 0) \in UNION {[ids -> 0 .. MaxSaves] : ids \in SUBSET Ids}
    BY EmptyInCreds, WithInCreds, StationAssumption
  <1>4. SomeNamed \subseteq NamedEntries
    BY <1>3, EmptyInCreds DEF SomeNamed, NamedEntries
  <1>5. named = Damaged \/ IsNamed(named)
    BY <1>3, <1>4 DEF Init, IsNamed, Providers, NamedEntries, Empty
  <1> QED
    BY <1>1, <1>2, <1>5, StationAssumption DEF Init, TypeInv, TypeOK, Places, Writers, IsNamed

LEMMA NextTypeInv == TypeInv /\ [Next]_vars => TypeInv'
  <1> SUFFICES ASSUME TypeInv, [Next]_vars PROVE TypeInv'
    OBVIOUS
  <1> USE CaptureAssumption, StationAssumption DEF TypeInv, TypeOK, Writers
  <1>1. ASSUME NEW w \in Writers, Load(w) PROVE TypeInv'
    <2>1. /\ copy' = [copy EXCEPT ![w] = IF Store(w) = Damaged THEN Empty ELSE Store(w)]
          /\ UNCHANGED <<wizard, capture, vault, named, saves>>
      BY <1>1 DEF Load
    <2>2. CaptureTypeOK'
      BY <2>1 DEF CaptureTypeOK, capture
    <2>3. IsNamed(Empty)
      BY DEF IsNamed, Empty
    <2> QED
      BY <2>1, <2>2, <2>3, EmptyInVaults DEF Store, IsNamed
  <1>2. ASSUME NEW w \in Writers, Save(w) PROVE TypeInv'
    <2>1. /\ vault' = With(copy[w], EntryOf[w], saves + 1)
          /\ saves' = saves + 1 /\ saves' \in 0 .. MaxSaves
          /\ copy' = [copy EXCEPT ![w] = None]
          /\ copy[w] \in Vaults
          /\ UNCHANGED <<capture, named>>
      BY <1>2 DEF Save, Saved
    <2>5. wizard' \in {wizard, "idle"}
      BY <1>2 DEF Save, Goto
    <2>2. vault' \in Vaults
      BY <1>2, <2>1, WithInVaults DEF Save, EntryOf, Entries
    <2>3. CaptureTypeOK'
      BY <2>1 DEF CaptureTypeOK, capture
    <2> QED
      BY <2>1, <2>2, <2>3, <2>5 DEF Places, IsNamed
  <1>3. ASSUME NEW w \in Writers, SaveRaises(w) PROVE TypeInv'
    <2>1. CaptureTypeOK' /\ wizard' \in Places
      BY <1>3 DEF SaveRaises, CaptureTypeOK, capture, Goto, Places
    <2> QED
      BY <1>3, <2>1 DEF SaveRaises, IsNamed
  <1>4. CASE SaveCredential
    <2> DEFINE all == copy["credential"]
               entry == IF "mine" \in DOMAIN all THEN all["mine"]
                        ELSE [creds |-> Empty, default |-> None]
    <2>1. entry \in NamedEntries
      BY <1>4, EmptyInCreds DEF SaveCredential, IsNamed, NamedEntries
    <2>2. PICK id \in IF entry.default \in DOMAIN entry.creds THEN {entry.default} ELSE Ids :
             named' = With(all, "mine", [creds |-> With(entry.creds, id, saves + 1),
                                         default |-> id])
      BY <1>4 DEF SaveCredential
    <2>3. id \in Ids
      <3>1. PICK ids \in SUBSET Ids : entry.creds \in [ids -> 0 .. MaxSaves]
        BY <2>1 DEF NamedEntries
      <3> QED
        BY <2>2, <3>1
    <2>4. saves + 1 \in 0 .. MaxSaves
      BY <1>4 DEF SaveCredential
    <2>5. [creds |-> With(entry.creds, id, saves + 1), default |-> id] \in NamedEntries
      BY <2>1, <2>3, <2>4, WithInCreds DEF NamedEntries
    <2>6. IsNamed(named')
      BY <1>4, <2>2, <2>5 DEF SaveCredential, IsNamed, With, Providers
    <2>7. CaptureTypeOK'
      BY <1>4 DEF SaveCredential, CaptureTypeOK, capture
    <2> QED
      BY <1>4, <2>4, <2>6, <2>7 DEF SaveCredential, Saved, IsNamed
  <1>5. ASSUME \/ CaptureNext /\ UNCHANGED stores
               \/ Ask \/ Abort \/ Exchange \/ Report
        PROVE  TypeInv'
    <2>1. UNCHANGED stores
      BY <1>5 DEF Ask, Abort, Exchange, Report
    <2>2. CaptureTypeOK' /\ wizard' \in Places
      <3>1. CASE CaptureNext
        BY <3>1, NextCapture DEF CaptureNext, Listen, Connect, Handle, HangsUp, Wake, Timeout,
                                 Shutdown, Closed, Goto, Places
      <3>2. CASE Exchange \/ Report
        BY <3>2, NextCapture DEF Exchange, Report, Goto, Places
      <3>3. CASE Ask \/ Abort
        BY <3>3 DEF Ask, Abort, capture, CaptureTypeOK, Goto, Places
      <3> QED
        BY <1>5, <3>1, <3>2, <3>3
    <2> QED
      BY <2>1, <2>2 DEF stores, IsNamed
  <1>6. ASSUME SetField \/ (\E w \in Writers : LoadRaises(w)) \/ UNCHANGED vars PROVE TypeInv'
    <2>1. UNCHANGED vars
      BY <1>6 DEF SetField, LoadRaises
    <2> QED
      BY <2>1 DEF vars, stores, capture, CaptureTypeOK, IsNamed
  <1> QED
    BY <1>1, <1>2, <1>3, <1>4, <1>5, <1>6 DEF Next

\* The types of the two stores and of the wizard hold for any credentials and
\* any number of saves and connections.
THEOREM TypeCorrect == Spec => []TypeOK
  BY InitTypeInv, NextTypeInv, PTL DEF Spec, TypeInv

----------------------------------------------------------------------------

CopiesOfWriters == copy = [w \in Writers |-> copy[w]]

LEMMA InitCopies == Init => CopiesOfWriters
  BY DEF Init, CopiesOfWriters

LEMMA NextCopies == CopiesOfWriters /\ [Next]_vars => CopiesOfWriters'
  <1> SUFFICES ASSUME CopiesOfWriters, [Next]_vars PROVE CopiesOfWriters'
    OBVIOUS
  <1> USE DEF CopiesOfWriters, Writers
  <1>1. ASSUME UNCHANGED stores PROVE CopiesOfWriters'
    BY <1>1 DEF stores
  <1>2. ASSUME NEW w \in Writers, Load(w) \/ Save(w) \/ SaveRaises(w) PROVE CopiesOfWriters'
    BY <1>2 DEF Load, Save, SaveRaises, Saved
  <1>3. CASE SaveCredential
    BY <1>3 DEF SaveCredential, Saved
  <1>4. ASSUME \/ CaptureNext /\ UNCHANGED stores
               \/ Ask \/ Abort \/ Exchange \/ Report \/ SetField
               \/ \E w \in Writers : LoadRaises(w)
               \/ UNCHANGED vars
        PROVE  UNCHANGED stores
    BY <1>4 DEF Ask, Abort, Exchange, Report, SetField, LoadRaises, vars, stores
  <1> QED
    BY <1>1, <1>2, <1>3, <1>4 DEF Next

\* The credential a save returns for is the provider's default from then on,
\* whatever default the store named before.
THEOREM SavedServed == Spec => SavedIsServed
  <1> DEFINE Served ==
        Saves("credential") =>
          LET e == named'["mine"]
          IN  e.default \in DOMAIN e.creds /\ e.creds[e.default] = saves'
  <1>1. TypeInv /\ CopiesOfWriters /\ [Next]_vars => [Served]_vars
    <2> SUFFICES ASSUME TypeInv, CopiesOfWriters, Next, Saves("credential") PROVE Served
      OBVIOUS
    <2> USE DEF Writers, Saves
    <2>1. SaveCredential
      <3>1. \A w \in Writers : ~Load(w) /\ ~LoadRaises(w) /\ ~SaveRaises(w)
        BY DEF Load, LoadRaises, SaveRaises, vars, stores, TypeInv, TypeOK
      <3>2. \A w \in Writers : ~Save(w)
        BY DEF Save, Saved, CopiesOfWriters
      <3> QED
        BY <3>1, <3>2 DEF Next, Ask, Abort, Exchange, Report, SetField, vars, stores,
                          TypeInv, TypeOK
    <2>2. PICK id, creds :
             /\ named' = With(copy["credential"], "mine",
                              [creds |-> With(creds, id, saves + 1), default |-> id])
             /\ saves' = saves + 1
      BY <2>1 DEF SaveCredential, Saved
    <2>3. named'["mine"] = [creds |-> With(creds, id, saves + 1), default |-> id]
      BY <2>2 DEF With
    <2> QED
      BY <2>2, <2>3 DEF With
  <1>2. Spec => []TypeInv
    BY InitTypeInv, NextTypeInv, PTL DEF Spec
  <1>3. Spec => []CopiesOfWriters
    BY InitCopies, NextCopies, PTL DEF Spec
  <1> QED
    BY <1>1, <1>2, <1>3, PTL DEF Spec, SavedIsServed

(***************************************************************************)
(* Told: a connection is served only while the listener is up, and a page   *)
(* that says the token is being exchanged leaves a code of such a page in   *)
(* the holder until the wizard has got it.                                  *)
(***************************************************************************)
Told ==
    /\ serving # "none" => Listening
    /\ shown # {} => \/ Listening /\ holder.code \in Codes
                     \/ wizard = "exchanging"
    /\ holder.code \in Codes => Listening /\ holder.code \in shown
    /\ wizard = "exchanging" => got \in shown

LEMMA InitTold == Init => Told
  <1> SUFFICES ASSUME Init PROVE Told
    OBVIOUS
  <1>1. serving = "none" /\ shown = {} /\ wizard = "idle"
    BY DEF Init, CaptureInit
  <1>2. holder.code = "none"
    BY DEF Init, CaptureInit, Nothing
  <1> QED
    BY <1>1, <1>2 DEF Told, Codes

LEMMA NextTold == CaptureTypeOK /\ Told /\ [Next]_vars => Told'
  <1> SUFFICES ASSUME CaptureTypeOK, Told, [Next]_vars PROVE Told'
    OBVIOUS
  <1> USE DEF Told, Listening
  <1>1. ASSUME CaptureNext PROVE Told'
    <2>1. CASE Listen
      BY <2>1 DEF Listen, Goto, capture
    <2>2. CASE Connect
      BY <2>2 DEF Connect
    <2>3. CASE Handle
      <3>1. Listening /\ UNCHANGED <<wizard, got>> /\ serving' = "none"
        BY <2>3 DEF Handle
      <3>2. shown' = shown \cup ({serving} \cap Codes)
        BY <2>3 DEF Handle
      <3>3. CASE serving \in Codes
        <4>1. holder'.code = serving
          BY <2>3, <3>3 DEF Handle, CaptureTypeOK
        <4> QED
          BY <3>1, <3>2, <3>3, <4>1
      <3>4. CASE serving \notin Codes
        <4>1. holder'.code = holder.code
          BY <2>3, <3>4 DEF Handle, CaptureTypeOK
        <4> QED
          BY <3>1, <3>2, <3>4, <4>1
      <3> QED
        BY <3>3, <3>4
    <2>4. CASE HangsUp
      BY <2>4 DEF HangsUp
    <2>5. CASE Wake \/ Timeout
      BY <2>5 DEF Wake, Timeout, Goto, capture
    <2>6. CASE Shutdown
      BY <2>6 DEF Shutdown
    <2>7. CASE Closed
      <3>1. /\ serving' = "none" /\ shown' = shown /\ got' = holder.code
            /\ wizard' = IF holder.code \in Codes THEN "exchanging" ELSE "failed"
            /\ wizard = "stopping"
        BY <2>7 DEF Closed, Goto
      <3>2. holder'.code = "none"
        BY <2>7 DEF Closed, Nothing
      <3> QED
        BY <3>1, <3>2 DEF Codes
    <2> QED
      BY <1>1, <2>1, <2>2, <2>3, <2>4, <2>5, <2>6, <2>7 DEF CaptureNext
  <1>2. CASE Exchange \/ Report
    <2>1. shown' = {} /\ UNCHANGED <<serving, holder>> /\ ~Listening
          /\ wizard' # "exchanging"
      BY <1>2 DEF Exchange, Report, Forget, Goto
    <2>2. holder.code \notin Codes
      BY <2>1, <1>2 DEF Exchange, Report, Goto
    <2> QED
      BY <2>1, <2>2
  <1>3. CASE Ask \/ Abort
    BY <1>3 DEF Ask, Abort, Goto, capture
  <1>4. ASSUME NEW w \in Writers, Save(w) \/ SaveRaises(w) PROVE Told'
    BY <1>4 DEF Save, SaveRaises, Goto, capture
  <1>5. ASSUME \/ SaveCredential \/ SetField \/ UNCHANGED vars
               \/ \E w \in Writers : Load(w) \/ LoadRaises(w)
        PROVE  Told'
    <2>1. UNCHANGED <<wizard, capture>>
      BY <1>5 DEF SaveCredential, SetField, Load, LoadRaises, vars
    <2> QED
      BY <2>1 DEF capture
  <1> QED
    BY <1>1, <1>2, <1>3, <1>4, <1>5 DEF Next

\* A wizard whose browser was told that the token is being exchanged does not
\* report a failure of the wait, whatever else came in and however late
\* (_oauth_capture_code).
THEOREM ToldIsExchanged == Spec => []ShownIsExchanged
  <1>1. Told => ShownIsExchanged
    BY DEF Told, Listening, ShownIsExchanged
  <1>2. TypeInv => CaptureTypeOK
    BY DEF TypeInv, TypeOK
  <1>3. TypeInv /\ Told /\ [Next]_vars => Told'
    BY <1>2, NextTold
  <1> QED
    BY <1>1, <1>3, InitTold, InitTypeInv, NextTypeInv, PTL DEF Spec

----------------------------------------------------------------------------
(* Backup and restore.                                                      *)

(***************************************************************************)
(* What is on the disk and in the archives.  Versions grow along a history, *)
(* and no change in it is later than the last one made.                     *)
(***************************************************************************)
IsHistory(rows, c) ==
    /\ rows \in Seq([to : 1 .. c, change : 1 .. c, prev : 0 .. c \cup {9}])
    /\ \A n \in DOMAIN rows : rows[n].to <= rows[n].change
    /\ \A n \in DOMAIN rows, m \in DOMAIN rows : m < n => rows[m].to < rows[n].to

IsContent(f, x, c) ==
    /\ f = Policy => x \in 0 .. c
    /\ f = History => IsHistory(x, c)

\* A directory with some of the two files, written when there had been c changes.
IsDocs(w, c) ==
    /\ w = [f \in DOMAIN w |-> w[f]]
    /\ DOMAIN w \subseteq {Policy, History}
    /\ \A f \in DOMAIN w : IsContent(f, w[f], c)

LEMMA FileNames ==
  /\ Policy # History
  /\ Range(Files) = {Policy, History}
  /\ First({Policy, History}) = Policy /\ First({Policy}) = Policy
  /\ First({History}) = History
  <1>1. Policy # History
    BY DEF Policy, History
  <1>2. DOMAIN Files = {1, 2} /\ Files[1] = Policy /\ Files[2] = History
    BY DEF Files
  <1>3. Range(Files) = {Policy, History}
    BY <1>2 DEF Range
  <1>4. \A files : \A n \in DOMAIN Files :
          (Files[n] \in files /\ \A k \in 1 .. n - 1 : Files[k] \notin files)
             <=> IF n = 1 THEN Policy \in files ELSE History \in files /\ Policy \notin files
    BY <1>2
  <1>5. ASSUME NEW files \in {{Policy, History}, {Policy}} PROVE First(files) = Policy
    <2>1. (CHOOSE n \in DOMAIN Files :
             Files[n] \in files /\ \A k \in 1 .. n - 1 : Files[k] \notin files) = 1
      BY <1>1, <1>2, <1>4, <1>5
    <2> QED
      BY <1>2, <2>1 DEF First
  <1>6. First({History}) = History
    <2>1. (CHOOSE n \in DOMAIN Files :
             Files[n] \in {History} /\ \A k \in 1 .. n - 1 : Files[k] \notin {History}) = 2
      BY <1>1, <1>2, <1>4
    <2> QED
      BY <1>2, <2>1 DEF First
  <1> QED
    BY <1>1, <1>3, <1>5, <1>6

LEMMA PutPuts ==
  ASSUME NEW w, NEW f, NEW x
  PROVE  /\ DOMAIN Put(w, f, x) = DOMAIN w \cup {f}
         /\ Put(w, f, x)[f] = x
         /\ \A g \in DOMAIN w \ {f} : Put(w, f, x)[g] = w[g]
         /\ Put(w, f, x) = [g \in DOMAIN Put(w, f, x) |-> Put(w, f, x)[g]]
  BY DEF Put

LEMMA HistoryLater ==
  ASSUME NEW c \in Nat, NEW d \in Nat, c <= d, NEW rows, IsHistory(rows, c)
  PROVE  IsHistory(rows, d)
  <1> DEFINE R == [to : 1 .. c, change : 1 .. c, prev : 0 .. c \cup {9}]
             Q == [to : 1 .. d, change : 1 .. d, prev : 0 .. d \cup {9}]
  <1>1. R \subseteq Q /\ rows \in Seq(R)
    BY DEF IsHistory
  <1> HIDE DEF R, Q
  <1>2. rows \in Seq(Q)
    BY <1>1
  <1> QED
    BY <1>2 DEF IsHistory, Q

LEMMA DocsLater ==
  ASSUME NEW c \in Nat, NEW d \in Nat, c <= d, NEW w, IsDocs(w, c)
  PROVE  IsDocs(w, d)
  BY HistoryLater DEF IsDocs, IsContent

LEMMA PutDocs ==
  ASSUME NEW c \in Nat, NEW w, IsDocs(w, c), NEW f \in {Policy, History}, NEW x, IsContent(f, x, c)
  PROVE  IsDocs(Put(w, f, x), c)
  <1> DEFINE v == Put(w, f, x)
  <1>1. /\ v = [g \in DOMAIN v |-> v[g]]
        /\ DOMAIN v = DOMAIN w \cup {f} /\ v[f] = x
        /\ \A g \in DOMAIN w \ {f} : v[g] = w[g]
    BY DEF Put
  <1> HIDE DEF v
  <1>2. \A g \in DOMAIN v : IsContent(g, v[g], c)
    BY <1>1 DEF IsDocs
  <1>3. IsDocs(v, c)
    BY <1>1, <1>2 DEF IsDocs
  <1> QED
    BY <1>3 DEF v

LEMMA EmptyHistory == ASSUME NEW c \in Nat PROVE IsHistory(<<>>, c)
  BY DEF IsHistory

LEMMA EmptyDocs == ASSUME NEW c \in Nat PROVE IsDocs(<<>>, c)
  BY DEF IsDocs

LEMMA RowsOfHistory ==
  ASSUME NEW c \in Nat, NEW rows, IsHistory(rows, c), NEW n \in DOMAIN rows
  PROVE  rows[n].to \in 1 .. c /\ rows[n].change \in 1 .. c /\ rows[n].prev \in 0 .. c \cup {9}
  <1> DEFINE R == [to : 1 .. c, change : 1 .. c, prev : 0 .. c \cup {9}]
  <1>1. rows \in Seq(R)
    BY DEF IsHistory
  <1> HIDE DEF R
  <1>2. rows[n] \in R
    BY <1>1
  <1> QED
    BY <1>2 DEF R

\* The version and the change a history ends with.
LEMMA LastOfHistory ==
  ASSUME NEW c \in Nat, NEW rows, IsHistory(rows, c)
  PROVE  /\ LastVersion(rows) \in 0 .. c /\ LastChange(rows) \in 0 .. c
         /\ \A n \in DOMAIN rows : rows[n].to <= LastVersion(rows)
  <1>1. CASE rows = <<>>
    BY <1>1 DEF LastVersion, LastChange
  <1>2. CASE rows # <<>>
    <2>1. Len(rows) \in DOMAIN rows /\ \A n \in DOMAIN rows : n \in Nat /\ n <= Len(rows)
      BY <1>2 DEF IsHistory
    <2>2. \A n \in DOMAIN rows : rows[n].to \in 1 .. c /\ rows[n].change \in 1 .. c
      BY RowsOfHistory
    <2>3. \A n \in DOMAIN rows : rows[n].to <= rows[Len(rows)].to
      BY <2>1, <2>2 DEF IsHistory
    <2> QED
      BY <1>2, <2>1, <2>2, <2>3 DEF LastVersion, LastChange
  <1> QED
    BY <1>1, <1>2

LEMMA NextVersion ==
  ASSUME NEW c \in Nat, NEW rows, IsHistory(rows, c),
         NEW row, row = [to |-> LastVersion(rows) + 1, change |-> c + 1, prev |-> LastChange(rows)]
  PROVE  /\ IsHistory(Append(rows, row), c + 1)
         /\ LastVersion(Append(rows, row)) = row.to
         /\ LastChange(Append(rows, row)) = c + 1
         /\ Append(rows, row) # <<>>
  <1> DEFINE R == [to : 1 .. c + 1, change : 1 .. c + 1, prev : 0 .. c + 1 \cup {9}]
             more == Append(rows, row)
  <1>1. IsHistory(rows, c + 1)
    BY HistoryLater
  <1>2. LastVersion(rows) \in 0 .. c /\ LastChange(rows) \in 0 .. c
    BY LastOfHistory
  <1>3. row \in R /\ row.to = LastVersion(rows) + 1 /\ row.change = c + 1
    BY <1>2
  <1>4. rows \in Seq(R)
    BY <1>1 DEF IsHistory
  <1> HIDE DEF R
  <1>5. /\ more \in Seq(R) /\ DOMAIN more = 1 .. Len(rows) + 1 /\ Len(more) = Len(rows) + 1
        /\ \A n \in 1 .. Len(rows) : n \in DOMAIN rows /\ more[n] = rows[n]
        /\ more[Len(rows) + 1] = row
    BY <1>3, <1>4
  <1> HIDE DEF more
  <1>6. \A n \in DOMAIN more : more[n].to <= more[n].change
    <2> SUFFICES ASSUME NEW n \in DOMAIN more PROVE more[n].to <= more[n].change
      OBVIOUS
    <2>1. CASE n \in 1 .. Len(rows)
      BY <2>1, <1>5 DEF IsHistory
    <2>2. CASE n = Len(rows) + 1
      BY <2>2, <1>2, <1>3, <1>5
    <2> QED
      BY <2>1, <2>2, <1>4, <1>5
  <1>7. \A n \in DOMAIN more, m \in DOMAIN more : m < n => more[m].to < more[n].to
    <2> SUFFICES ASSUME NEW n \in DOMAIN more, NEW m \in DOMAIN more, m < n
                 PROVE  more[m].to < more[n].to
      OBVIOUS
    <2>0. Len(rows) \in Nat /\ m \in 1 .. Len(rows)
      BY <1>4, <1>5
    <2>1. CASE n \in 1 .. Len(rows)
      BY <2>0, <2>1, <1>5 DEF IsHistory
    <2>2. CASE n = Len(rows) + 1
      <3>1. more[m] = rows[m] /\ rows[m].to <= LastVersion(rows) /\ rows[m].to \in 1 .. c
        BY <2>0, <1>5, LastOfHistory, RowsOfHistory
      <3> QED
        BY <3>1, <2>2, <1>2, <1>3, <1>5
    <2> QED
      BY <2>0, <2>1, <2>2, <1>5
  <1>8. Len(rows) + 1 # 0 /\ more # <<>>
    BY <1>4, <1>5
  <1>9. IsHistory(more, c + 1)
    BY <1>5, <1>6, <1>7 DEF IsHistory, R
  <1>10. LastVersion(more) = row.to /\ LastChange(more) = c + 1
    BY <1>3, <1>5, <1>8 DEF LastVersion, LastChange
  <1> QED
    BY <1>8, <1>9, <1>10 DEF more

LEMMA HistoryBegins ==
  ASSUME NEW c \in Nat, NEW rows, IsHistory(rows, c), NEW n \in 0 .. Len(rows)
  PROVE  IsHistory(SubSeq(rows, 1, n), c)
  <1> DEFINE R == [to : 1 .. c, change : 1 .. c, prev : 0 .. c \cup {9}]
             some == SubSeq(rows, 1, n)
  <1>1. rows \in Seq(R)
    BY DEF IsHistory
  <1> HIDE DEF R
  <1>2. /\ some \in Seq(R) /\ Len(some) = n /\ DOMAIN some = 1 .. n
        /\ \A k \in 1 .. n : k \in DOMAIN rows /\ some[k] = rows[k]
    BY <1>1
  <1> HIDE DEF some
  <1>3. IsHistory(some, c)
    BY <1>2 DEF IsHistory, R
  <1> QED
    BY <1>3 DEF some

\* A bounded set of numbers has a maximum.
LEMMA Greatest ==
  ASSUME NEW N \in Nat, NEW S, S \subseteq 0 .. N, S # {}
  PROVE  Max(S) \in S /\ \A n \in S : n <= Max(S)
  <1> DEFINE R == OpToRel(<, Nat)
             gaps == {N - n : n \in S}
  <1>1. IsWellFoundedOn(R, Nat)
    BY NatLessThanWellFounded
  <1>2. gaps \subseteq Nat /\ gaps # {}
    OBVIOUS
  <1> HIDE DEF R, gaps
  <1>3. PICK i \in gaps : \A j \in gaps : ~(<<j, i>> \in R)
    BY <1>1, <1>2, WFMin
  <1>4. \A j \in gaps : i <= j
    <2> SUFFICES ASSUME NEW j \in gaps PROVE i <= j
      OBVIOUS
    <2>1. i \in Nat /\ j \in Nat /\ ~(<<j, i>> \in R)
      BY <1>2, <1>3
    <2>2. ~(j < i)
      BY <2>1 DEF R, OpToRel
    <2> QED
      BY <2>1, <2>2
  <1>5. PICK m \in S : i = N - m
    BY <1>3 DEF gaps
  <1>6. \A n \in S : m >= n
    <2> SUFFICES ASSUME NEW n \in S PROVE m >= n
      OBVIOUS
    <2>1. N - n \in gaps
      BY DEF gaps
    <2>2. N - m <= N - n /\ m \in Nat /\ n \in Nat
      BY <2>1, <1>4, <1>5
    <2> QED
      BY <2>2
  <1>7. Max(S) \in S /\ \A n \in S : Max(S) >= n
    BY <1>6 DEF Max
  <1> QED
    BY <1>7

\* The head is the version of the last row, or of an earlier one.
LEMMA HeadOfChain ==
  ASSUME NEW c \in Nat, NEW rows, IsHistory(rows, c)
  PROVE  /\ ChainHead(rows) \in 0 .. c
         /\ ChainHead(rows) <= LastVersion(rows)
         /\ IsIntact(rows) => ChainHead(rows) = LastVersion(rows)
  <1> DEFINE S == {n \in 0 .. Len(rows) : Linked(rows, n)}
  <1>1. Len(rows) \in Nat
    BY DEF IsHistory
  <1>2. Linked(rows, 0)
    BY DEF Linked
  <1>3. Max(S) \in S /\ \A n \in S : n <= Max(S)
    <2>1. S \subseteq 0 .. Len(rows) /\ S # {}
      BY <1>1, <1>2
    <2> HIDE DEF S
    <2> QED
      BY <1>1, <2>1, Greatest
  <1> DEFINE m == Max(S)
             some == SubSeq(rows, 1, m)
  <1>4. m \in 0 .. Len(rows) /\ (IsIntact(rows) => m = Len(rows))
    BY <1>1, <1>3 DEF IsIntact
  <1>5. ChainHead(rows) = LastVersion(some)
    BY DEF ChainHead
  <1> HIDE DEF m, S
  <1>6. IsHistory(some, c)
    BY <1>4, HistoryBegins
  <1>7. /\ some = <<>> <=> m = 0
        /\ m # 0 => some[m] = rows[m] /\ Len(some) = m /\ m \in DOMAIN rows
        /\ rows = <<>> <=> Len(rows) = 0
    <2> DEFINE R == [to : 1 .. c, change : 1 .. c, prev : 0 .. c \cup {9}]
    <2>1. rows \in Seq(R)
      BY DEF IsHistory
    <2> HIDE DEF R
    <2>2. /\ some \in Seq(R) /\ Len(some) = m /\ DOMAIN some = 1 .. m
          /\ \A k \in 1 .. m : k \in DOMAIN rows /\ some[k] = rows[k]
      BY <1>4, <2>1
    <2> HIDE DEF some
    <2> QED
      BY <1>1, <1>4, <2>1, <2>2
  <1>8. LastVersion(some) = IF m = 0 THEN 0 ELSE rows[m].to
    BY <1>7 DEF LastVersion
  <1>9. LastVersion(rows) = IF Len(rows) = 0 THEN 0 ELSE rows[Len(rows)].to
    BY <1>7 DEF LastVersion
  <1>10. LastVersion(some) \in 0 .. c /\ LastVersion(rows) \in 0 .. c
         /\ \A n \in DOMAIN rows : rows[n].to <= LastVersion(rows)
    BY <1>6, LastOfHistory
  <1>11. LastVersion(some) <= LastVersion(rows)
    BY <1>7, <1>8, <1>10
  <1>12. IsIntact(rows) => LastVersion(some) = LastVersion(rows)
    BY <1>4, <1>8, <1>9
  <1> QED
    BY <1>5, <1>10, <1>11, <1>12

(***************************************************************************)
(* The inductive invariant.  The archive a backup makes while no restore    *)
(* runs is what the workspace was when the policy was archived, because a   *)
(* change in between leaves a number no earlier content has.                *)
(***************************************************************************)

\* The live policy is the one the history ends with.
Whole(w) ==
    DOMAIN w = {} \/ (DOMAIN w = {Policy, History} /\ w[Policy] = LastChange(w[History]))

BackupFields == {"at", "todo", "sums", "head", "blobs", "mixed"}

IsArchive(a, c) ==
    /\ DOMAIN a = BackupFields
    /\ a.mixed \in BOOLEAN
    /\ IsDocs(a.sums, c) /\ IsDocs(a.blobs, c)
    /\ Policy \in DOMAIN a.sums
    /\ DOMAIN a.blobs \subseteq DOMAIN a.sums
    /\ Verifies(a) /\ ~a.mixed =>
         /\ Whole(a.blobs)
         /\ a.head = ChainHead(Rows(a.blobs))

BackupTypes ==
    /\ changes \in Nat /\ top \in Nat
    /\ alone \in BOOLEAN /\ mixed \in BOOLEAN /\ excused \in BOOLEAN
    /\ IsDocs(ws, changes)
    /\ History \in DOMAIN ws => Policy \in DOMAIN ws
    /\ \A a \in archives : IsArchive(a, changes)

\* Which files the running backup has hashed and archived.
BackupGoes ==
    /\ DOMAIN bk = BackupFields
    /\ bk.at \in {Idle, "hash", "head", "archive"}
    /\ bk.at = Idle => bk = NoBackup
    /\ bk.mixed \in BOOLEAN
    /\ IsDocs(bk.sums, changes) /\ IsDocs(bk.blobs, changes)
    /\ bk.todo \cup DOMAIN bk.sums \subseteq DOMAIN ws
    /\ bk.at # Idle => Policy \in bk.todo \cup DOMAIN bk.sums
    /\ bk.at = "hash" =>
         /\ bk.todo # {} /\ bk.todo \cap DOMAIN bk.sums = {} /\ DOMAIN bk.blobs = {}
         /\ History \in DOMAIN bk.sums => Policy \in DOMAIN bk.sums
    /\ bk.at = "head" => bk.todo = {} /\ DOMAIN bk.blobs = {}
    /\ bk.at = "archive" =>
         /\ bk.todo # {} /\ bk.todo \cup DOMAIN bk.blobs = DOMAIN bk.sums
         /\ bk.todo \cap DOMAIN bk.blobs = {}
         /\ History \in DOMAIN bk.blobs => Policy \in DOMAIN bk.blobs

MomentsKept ==
    /\ \A w \in moments : IsDocs(w, changes)
    /\ bk.at # Idle => ws \in moments

\* As long as the policy is the hashed one, so is the history.
HashedTogether ==
    History \in DOMAIN bk.sums /\ ws[Policy] = bk.sums[Policy] => ws[History] = bk.sums[History]

\* As long as the history is the hashed one, the head is its head.
HeadOfHashed ==
    bk.at = "archive" /\ History \in DOMAIN bk.sums /\ ws[History] = bk.sums[History] =>
      bk.head = ChainHead(bk.sums[History])

\* The moment the policy was archived.
ArchivedTogether ==
    Policy \in DOMAIN bk.blobs /\ History \in DOMAIN bk.sums =>
      \E w \in moments :
         /\ DOMAIN w = {Policy, History}
         /\ w[Policy] = bk.blobs[Policy]
         /\ bk.blobs[Policy] = bk.sums[Policy] => w[History] = bk.sums[History]

OneMoment ==
    bk.at # Idle /\ alone =>
      /\ rs.at = Idle
      /\ HashedTogether
      /\ HeadOfHashed
      /\ ArchivedTogether
      /\ ~bk.mixed =>
            /\ \A w \in moments : Whole(w)
            /\ bk.todo \cup DOMAIN bk.sums = {Policy, History}

RestoreFields == {"at", "todo", "archive", "forced"}

RestoreGoes ==
    /\ DOMAIN rs = RestoreFields
    /\ rs.at \in {Idle, "compare", "open", "write"}
    /\ rs.at = Idle => rs = NoRestore
    /\ rs.at # Idle =>
         /\ IsArchive(rs.archive, changes) /\ Verifies(rs.archive)
         /\ rs.todo \subseteq DOMAIN rs.archive.blobs /\ rs.todo # {}
         /\ History \in DOMAIN rs.archive.blobs => History \in rs.todo
         /\ Policy \notin rs.todo => Policy \in DOMAIN ws
    /\ rs.at = "compare" => rs.todo = DOMAIN rs.archive.blobs

\* What is restored of an archive that is not mixed is what the archive holds.
HeadKept ==
    IF rs.at \in {Idle, "compare"}
    THEN ~mixed => Whole(ws)
    ELSE ~mixed =>
           /\ ~rs.archive.mixed
           /\ \A f \in DOMAIN rs.archive.blobs \ rs.todo :
                 f \in DOMAIN ws /\ ws[f] = rs.archive.blobs[f]

\* The history comes last: until it is opened the old one is there.
NotBehind ==
    IF rs.at \in {Idle, "compare"}
    THEN ~excused => LastVersion(Rows(ws)) >= top
    ELSE ~excused =>
           /\ ~rs.archive.mixed
           /\ LastVersion(Rows(rs.archive.blobs)) >= top
           /\ rs.at = "open" \/ Policy \in rs.todo => LastVersion(Rows(ws)) >= top

BackupInv ==
    /\ BackupTypes /\ BackupGoes /\ MomentsKept /\ OneMoment
    /\ RestoreGoes /\ HeadKept /\ NotBehind

----------------------------------------------------------------------------

LEMMA RowsOfDocs ==
  ASSUME NEW c \in Nat, NEW w, IsDocs(w, c)
  PROVE  IsHistory(Rows(w), c)
  <1>1. IsHistory(<<>>, c)
    BY DEF IsHistory
  <1> QED
    BY <1>1 DEF Rows, IsDocs, IsContent

LEMMA WorkspaceDocs ==
  ASSUME NEW c \in Nat, NEW policy \in 0 .. c, NEW rows, IsHistory(rows, c)
  PROVE  /\ DOMAIN Workspace(policy, rows) = {Policy, History}
         /\ Workspace(policy, rows)[Policy] = policy
         /\ Workspace(policy, rows)[History] = rows
         /\ IsDocs(Workspace(policy, rows), c)
  <1> DEFINE w == Workspace(policy, rows)
  <1>1. /\ w = [f \in DOMAIN w |-> w[f]] /\ DOMAIN w = {Policy, History}
        /\ w[Policy] = policy /\ w[History] = rows
    BY FileNames DEF Workspace
  <1> HIDE DEF w
  <1>2. IsDocs(w, c)
    BY <1>1, FileNames DEF IsDocs, IsContent
  <1> QED
    BY <1>1, <1>2 DEF w

LEMMA ArchiveLater ==
  ASSUME NEW c \in Nat, NEW d \in Nat, c <= d, NEW a, IsArchive(a, c)
  PROVE  IsArchive(a, d)
  BY DocsLater DEF IsArchive

\* What a change of the policy leaves: a number that no file ever had.
LEMMA PolicySets ==
  ASSUME BackupTypes, SetPolicy
  PROVE  /\ changes' = changes + 1 /\ changes' \in Nat /\ changes <= changes'
         /\ IsDocs(ws', changes')
         /\ DOMAIN ws' = {Policy, History} /\ ws'[Policy] = changes + 1
         /\ LastChange(ws'[History]) = changes + 1
         /\ Rows(ws') = ws'[History]
         /\ top' = LastVersion(ws'[History]) /\ top' \in Nat
         /\ Whole(ws')
  <1> DEFINE rows == Rows(ws)
             row == [to |-> LastVersion(rows) + 1, change |-> changes + 1, prev |-> LastChange(rows)]
             more == Append(rows, row)
  <1>1. /\ changes' = changes + 1 /\ changes \in Nat
        /\ ws' = Workspace(changes + 1, more)
        /\ top' = row.to
    BY DEF SetPolicy, Becomes, BackupTypes
  <1>2. IsHistory(rows, changes)
    BY RowsOfDocs DEF BackupTypes
  <1>3. row.to = LastVersion(rows) + 1 /\ LastVersion(rows) \in Nat
    BY <1>1, <1>2, LastOfHistory
  <1> HIDE DEF rows
  <1>4. /\ IsHistory(more, changes + 1)
        /\ LastVersion(more) = row.to
        /\ LastChange(more) = changes + 1
    BY <1>1, <1>2, NextVersion
  <1> HIDE DEF more, row
  <1>5. /\ DOMAIN ws' = {Policy, History} /\ ws'[Policy] = changes + 1 /\ ws'[History] = more
        /\ IsDocs(ws', changes + 1)
    BY <1>1, <1>4, WorkspaceDocs
  <1>6. Rows(ws') = ws'[History]
    BY <1>5 DEF Rows
  <1> QED
    BY <1>1, <1>3, <1>4, <1>5, <1>6 DEF Whole

LEMMA NoBackupIs ==
  /\ DOMAIN NoBackup = BackupFields /\ NoBackup.at = Idle /\ NoBackup.todo = {}
  /\ NoBackup.sums = <<>> /\ NoBackup.blobs = <<>> /\ NoBackup.mixed = FALSE
  BY DEF NoBackup, BackupFields

LEMMA NoRestoreIs ==
  /\ DOMAIN NoRestore = RestoreFields /\ NoRestore.at = Idle /\ NoRestore.todo = {}
  BY DEF NoRestore, RestoreFields

LEMMA NoBackupGoes ==
  ASSUME bk = NoBackup, changes \in Nat
  PROVE  BackupGoes /\ OneMoment
  <1>1. DOMAIN bk.sums = {} /\ DOMAIN bk.blobs = {}
    BY NoBackupIs
  <1> QED
    BY <1>1, NoBackupIs, EmptyDocs DEF BackupGoes, OneMoment, Idle

LEMMA NoRestoreGoes ==
  ASSUME rs = NoRestore
  PROVE  RestoreGoes
  BY NoRestoreIs DEF RestoreGoes, Idle

LEMMA InitBackupInv == BackupInit => BackupInv
  <1> SUFFICES ASSUME BackupInit PROVE BackupInv
    OBVIOUS
  <1> DEFINE one == <<[to |-> 1, change |-> 1, prev |-> 0]>>
             two == <<[to |-> 1, change |-> 1, prev |-> 0], [to |-> 2, change |-> 2, prev |-> 9]>>
  <1>1. /\ IsHistory(one, 1) /\ Len(one) = 1 /\ LastVersion(one) = 1 /\ LastChange(one) = 1
    BY DEF IsHistory, LastVersion, LastChange
  <1>2. /\ IsHistory(two, 2) /\ Len(two) = 2 /\ LastVersion(two) = 2 /\ LastChange(two) = 2
    BY DEF IsHistory, LastVersion, LastChange
  <1>3. /\ changes = Len(Rows(ws)) /\ top = LastVersion(Rows(ws))
        /\ ws \in {<<>>, Workspace(1, one), Workspace(2, two)}
    BY DEF BackupInit
  <1> HIDE DEF one, two
  <1>4. /\ changes \in Nat /\ top \in Nat /\ IsDocs(ws, changes) /\ Whole(ws)
        /\ History \in DOMAIN ws => Policy \in DOMAIN ws
    <2>1. CASE ws = <<>>
      <3>1. Rows(ws) = <<>> /\ DOMAIN ws = {}
        BY <2>1 DEF Rows
      <3> QED
        BY <1>3, <2>1, <3>1, EmptyDocs DEF LastVersion, Whole
    <2>2. CASE ws = Workspace(1, one)
      <3>1. /\ DOMAIN ws = {Policy, History} /\ ws[Policy] = 1 /\ ws[History] = one
            /\ IsDocs(ws, 1)
        BY <1>1, <2>2, WorkspaceDocs
      <3>2. Rows(ws) = one
        BY <3>1 DEF Rows
      <3> QED
        BY <1>1, <1>3, <3>1, <3>2 DEF Whole
    <2>3. CASE ws = Workspace(2, two)
      <3>1. /\ DOMAIN ws = {Policy, History} /\ ws[Policy] = 2 /\ ws[History] = two
            /\ IsDocs(ws, 2)
        BY <1>2, <2>3, WorkspaceDocs
      <3>2. Rows(ws) = two
        BY <3>1 DEF Rows
      <3> QED
        BY <1>2, <1>3, <3>1, <3>2 DEF Whole
    <2> QED
      BY <1>3, <2>1, <2>2, <2>3
  <1>5. BackupTypes
    BY <1>4 DEF BackupInit, BackupTypes
  <1>6. BackupGoes /\ OneMoment /\ RestoreGoes
    BY <1>4, NoBackupGoes, NoRestoreGoes DEF BackupInit
  <1>7. MomentsKept
    BY NoBackupIs DEF BackupInit, MomentsKept
  <1>8. HeadKept
    BY <1>4, NoRestoreIs DEF BackupInit, HeadKept
  <1>9. NotBehind
    BY <1>3, <1>4, NoRestoreIs DEF BackupInit, NotBehind
  <1> QED
    BY <1>5, <1>6, <1>7, <1>8, <1>9 DEF BackupInv

LEMMA SetPolicyKeeps == BackupInv /\ SetPolicy => BackupInv'
  <1> SUFFICES ASSUME BackupInv, SetPolicy PROVE BackupInv'
    OBVIOUS
  <1> USE DEF BackupInv
  <1>1. /\ changes' = changes + 1 /\ changes \in Nat /\ changes' \in Nat /\ changes <= changes'
        /\ IsDocs(ws', changes')
        /\ DOMAIN ws' = {Policy, History} /\ ws'[Policy] = changes + 1
        /\ LastChange(ws'[History]) = changes + 1
        /\ Rows(ws') = ws'[History]
        /\ top' = LastVersion(ws'[History]) /\ top' \in Nat
        /\ Whole(ws')
    BY PolicySets DEF BackupTypes
  <1>2. /\ bk' = bk /\ rs' = rs /\ archives' = archives /\ alone' = alone
        /\ moments' = IF bk.at = Idle THEN {} ELSE moments \cup {ws'}
        /\ mixed' = (mixed \/ rs.at = "write" \/ rs.at = "open")
        /\ excused' = (excused \/ rs.at # Idle)
    BY DEF SetPolicy, Becomes
  <1>3. BackupTypes'
    <2>1. \A a \in archives' : IsArchive(a, changes')
      BY <1>1, <1>2, ArchiveLater DEF BackupTypes
    <2>2. mixed' \in BOOLEAN /\ excused' \in BOOLEAN /\ alone' \in BOOLEAN
      BY <1>2 DEF BackupTypes
    <2> QED
      BY <1>1, <2>1, <2>2 DEF BackupTypes
  <1>4. BackupGoes'
    <2>1. IsDocs(bk.sums, changes') /\ IsDocs(bk.blobs, changes')
      BY <1>1, DocsLater DEF BackupGoes
    <2>2. bk.todo \cup DOMAIN bk.sums \subseteq DOMAIN ws'
      BY <1>1 DEF BackupGoes, BackupTypes, IsDocs
    <2> QED
      BY <1>2, <2>1, <2>2 DEF BackupGoes
  <1>5. MomentsKept'
    BY <1>1, <1>2, DocsLater DEF MomentsKept
  <1>6. OneMoment'
    <2> SUFFICES ASSUME bk.at # Idle, alone PROVE OneMoment'
      BY <1>2 DEF OneMoment
    <2>1. HashedTogether'
      <3>1. History \in DOMAIN bk.sums => Policy \in DOMAIN bk.sums
        BY DEF BackupGoes, Idle
      <3>2. History \in DOMAIN bk.sums => bk.sums[Policy] \in 0 .. changes
        BY <3>1 DEF BackupGoes, IsDocs, IsContent
      <3> QED
        BY <1>1, <1>2, <3>2 DEF HashedTogether
    <2>2. HeadOfHashed'
      <3>1. History \in DOMAIN bk.sums => IsHistory(bk.sums[History], changes)
        BY DEF BackupGoes, IsDocs, IsContent
      <3>2. History \in DOMAIN bk.sums => LastChange(bk.sums[History]) \in 0 .. changes
        BY <1>1, <3>1, LastOfHistory
      <3> QED
        BY <1>1, <1>2, <3>2 DEF HeadOfHashed
    <2>3. ArchivedTogether'
      BY <1>2 DEF OneMoment, ArchivedTogether
    <2>4. ~bk.mixed => /\ \A w \in moments' : Whole(w)
                       /\ bk.todo \cup DOMAIN bk.sums = {Policy, History}
      BY <1>1, <1>2 DEF OneMoment
    <2> QED
      BY <1>2, <2>1, <2>2, <2>3, <2>4 DEF OneMoment
  <1>7. RestoreGoes'
    BY <1>1, <1>2, ArchiveLater DEF RestoreGoes
  <1>8. HeadKept'
    BY <1>1, <1>2 DEF HeadKept, RestoreGoes, Idle
  <1>9. NotBehind'
    <2>1. LastVersion(Rows(ws')) >= top'
      BY <1>1
    <2> QED
      BY <1>2, <2>1 DEF NotBehind, Idle
  <1> QED
    BY <1>3, <1>4, <1>5, <1>6, <1>7, <1>8, <1>9

LEMMA MachineDiesKeeps == BackupInv /\ MachineDies => BackupInv'
  <1> SUFFICES ASSUME BackupInv, MachineDies PROVE BackupInv'
    OBVIOUS
  <1> USE DEF BackupInv
  <1>1. /\ bk.at = Idle /\ rs.at = Idle /\ ws' = <<>> /\ top' = 0 /\ mixed' = FALSE /\ moments' = {}
        /\ archives' = archives /\ bk' = bk /\ alone' = alone /\ changes' = changes /\ rs' = rs
        /\ excused' = excused
    BY DEF MachineDies, Becomes
  <1>2. DOMAIN ws' = {} /\ Rows(ws') = <<>> /\ LastVersion(Rows(ws')) = 0
    BY <1>1 DEF Rows, LastVersion
  <1>3. BackupTypes'
    BY <1>1, <1>2, EmptyDocs DEF BackupTypes
  <1>4. bk' = NoBackup /\ changes' \in Nat
    BY <1>1 DEF BackupGoes, BackupTypes
  <1>5. BackupGoes' /\ OneMoment'
    <2>1. DOMAIN bk'.sums = {} /\ DOMAIN bk'.blobs = {}
      BY <1>4, NoBackupIs
    <2> QED
      BY <1>4, <2>1, NoBackupIs, EmptyDocs DEF BackupGoes, OneMoment, Idle
  <1>6. MomentsKept' /\ RestoreGoes'
    BY <1>1 DEF MomentsKept, RestoreGoes
  <1>7. HeadKept' /\ NotBehind'
    BY <1>1, <1>2 DEF HeadKept, NotBehind, Whole
  <1> QED
    BY <1>3, <1>5, <1>6, <1>7

\* An archive that has lost a file is no longer a good one.
LEMMA RottenArchive ==
  ASSUME NEW c \in Nat, NEW a, IsArchive(a, c), NEW f \in DOMAIN a.blobs
  PROVE  LET b == [a EXCEPT !.blobs = Restrict(@, DOMAIN @ \ {f})]
         IN  IsArchive(b, c) /\ ~Verifies(b)
  <1> DEFINE left == Restrict(a.blobs, DOMAIN a.blobs \ {f})
             b == [a EXCEPT !.blobs = left]
  <1>1. DOMAIN a = BackupFields
    BY DEF IsArchive
  <1>2. DOMAIN b = BackupFields /\ b.sums = a.sums /\ b.mixed = a.mixed /\ b.head = a.head
        /\ b.blobs = left
    BY <1>1 DEF BackupFields
  <1>3. /\ left = [g \in DOMAIN left |-> left[g]]
        /\ DOMAIN left = DOMAIN a.blobs \ {f}
        /\ \A g \in DOMAIN left : left[g] = a.blobs[g]
    BY DEF Restrict
  <1> HIDE DEF left, b
  <1>4. IsDocs(left, c)
    BY <1>3 DEF IsArchive, IsDocs
  <1>5. ~Verifies(b)
    BY <1>2, <1>3 DEF IsArchive, Verifies
  <1>6. IsArchive(b, c)
    BY <1>2, <1>3, <1>4, <1>5 DEF IsArchive
  <1> QED
    BY <1>5, <1>6 DEF b, left

LEMMA ArchiveRotsKeeps ==
  BackupInv /\ ArchiveRots =>
    /\ BackupInv'
    /\ \A a \in archives' \ archives : ~Verifies(a)
  <1> SUFFICES ASSUME BackupInv, ArchiveRots
               PROVE  BackupInv' /\ \A a \in archives' \ archives : ~Verifies(a)
    OBVIOUS
  <1> USE DEF BackupInv
  <1>1. UNCHANGED <<ws, bk, taken, moments, alone, changes, restore>>
    BY DEF ArchiveRots
  <1>0. PICK a \in archives :
          \E f \in DOMAIN a.blobs :
            archives' = (archives \ {a}) \cup {[a EXCEPT !.blobs = Restrict(@, DOMAIN @ \ {f})]}
    BY DEF ArchiveRots
  <1>2. PICK f \in DOMAIN a.blobs :
          archives' = (archives \ {a}) \cup {[a EXCEPT !.blobs = Restrict(@, DOMAIN @ \ {f})]}
    BY <1>0
  <1>3. changes \in Nat /\ IsArchive(a, changes)
    BY DEF BackupTypes
  <1> DEFINE b == [a EXCEPT !.blobs = Restrict(@, DOMAIN @ \ {f})]
  <1>4. IsArchive(b, changes) /\ ~Verifies(b)
    BY <1>3, RottenArchive
  <1> HIDE DEF b
  <1>5. archives' = (archives \ {a}) \cup {b}
    BY <1>2 DEF b
  <1>6. BackupTypes'
    BY <1>1, <1>4, <1>5 DEF BackupTypes, restore
  <1>7. BackupGoes' /\ MomentsKept'
    BY <1>1 DEF BackupGoes, MomentsKept
  <1>8. OneMoment'
    BY <1>1 DEF OneMoment, HashedTogether, HeadOfHashed, ArchivedTogether, restore
  <1>9. RestoreGoes' /\ HeadKept' /\ NotBehind'
    BY <1>1 DEF RestoreGoes, HeadKept, NotBehind, restore
  <1> QED
    BY <1>4, <1>5, <1>6, <1>7, <1>8, <1>9

----------------------------------------------------------------------------
(* The steps of a backup.                                                   *)

\* What does not change while the files are read.
LEMMA BackupLeaves ==
  ASSUME BackupInv, UNCHANGED <<ws, archives, changes, restore>>, alone' \in BOOLEAN
  PROVE  BackupTypes' /\ RestoreGoes' /\ HeadKept' /\ NotBehind'
  BY DEF BackupInv, BackupTypes, RestoreGoes, HeadKept, NotBehind, restore

LEMMA BackupListsKeeps == BackupInv /\ BackupLists => BackupInv'
  <1> SUFFICES ASSUME BackupInv, BackupLists PROVE BackupInv'
    OBVIOUS
  <1> USE DEF BackupInv
  <1>1. /\ ws # <<>> /\ moments' = {ws} /\ alone' = (rs.at = Idle)
        /\ UNCHANGED <<ws, archives, changes, restore>>
    BY DEF BackupLists
  <1>2. /\ DOMAIN bk' = BackupFields /\ bk'.at = "hash" /\ bk'.todo = DOMAIN ws /\ bk'.mixed = mixed
        /\ bk'.sums = <<>> /\ bk'.blobs = <<>>
    BY DEF BackupLists, NoBackup, BackupFields
  <1>3. BackupTypes' /\ RestoreGoes' /\ HeadKept' /\ NotBehind'
    BY <1>1, BackupLeaves
  <1>4. Policy \in DOMAIN ws /\ DOMAIN ws \subseteq {Policy, History} /\ changes \in Nat
    <2>1. DOMAIN ws = {} => ws = <<>>
      <3>1. ws = [f \in DOMAIN ws |-> ws[f]]
        BY DEF BackupTypes, IsDocs
      <3>2. ASSUME DOMAIN ws = {} PROVE ws = [f \in {} |-> ws[f]]
        BY <3>1, <3>2, Zenon
      <3>3. <<>> = [f \in {} |-> ws[f]]
        OBVIOUS
      <3> QED
        BY <3>2, <3>3
    <2> QED
      BY <1>1, <2>1 DEF BackupTypes, IsDocs
  <1>5. DOMAIN bk'.sums = {} /\ DOMAIN bk'.blobs = {}
    BY <1>2
  <1>6. IsDocs(bk'.sums, changes') /\ IsDocs(bk'.blobs, changes')
    BY <1>1, <1>2, <1>4, EmptyDocs
  <1>7. BackupGoes'
    <2>1. bk'.mixed \in BOOLEAN
      BY <1>2 DEF BackupTypes
    <2> QED
      BY <1>1, <1>2, <1>4, <1>5, <1>6, <2>1 DEF BackupGoes, Idle
  <1>8. MomentsKept'
    BY <1>1 DEF MomentsKept, BackupTypes
  <1>9. OneMoment'
    <2> SUFFICES ASSUME rs.at = Idle
                 PROVE  ~mixed => Whole(ws) /\ DOMAIN ws = {Policy, History}
      BY <1>1, <1>2, <1>5 DEF OneMoment, HashedTogether, HeadOfHashed, ArchivedTogether, restore
    <2> QED
      BY <1>4 DEF HeadKept, Whole
  <1> QED
    BY <1>3, <1>7, <1>8, <1>9

\* The file a backup reads next.
LEMMA NextFile ==
  ASSUME NEW todo, todo \subseteq {Policy, History}, todo # {}
  PROVE  /\ First(todo) \in todo
         /\ First(todo) = Policy <=> Policy \in todo
         /\ First(todo) = History <=> todo = {History}
  <1>1. todo \in {{Policy, History}, {Policy}, {History}}
    OBVIOUS
  <1> QED
    BY <1>1, FileNames

LEMMA BackupHashesKeeps == BackupInv /\ BackupHashes => BackupInv'
  <1> SUFFICES ASSUME BackupInv, BackupHashes PROVE BackupInv'
    OBVIOUS
  <1> USE DEF BackupInv
  <1> DEFINE f == First(bk.todo)
             sums == Put(bk.sums, f, ws[f])
  <1>1. /\ bk.at = "hash" /\ bk.at # Idle /\ moments' = moments /\ alone' = alone
        /\ UNCHANGED <<ws, archives, changes, restore>>
    BY DEF BackupHashes, Idle
  <1>2. DOMAIN bk = BackupFields
    BY DEF BackupGoes
  <1>3. /\ DOMAIN bk' = BackupFields /\ bk'.sums = sums /\ bk'.todo = bk.todo \ {f}
        /\ bk'.at = IF bk.todo = {f} THEN "head" ELSE "hash"
        /\ bk'.blobs = bk.blobs /\ bk'.mixed = bk.mixed
    BY <1>1, <1>2 DEF BackupHashes, BackupFields
  <1>4. /\ bk.todo \subseteq {Policy, History} /\ bk.todo \subseteq DOMAIN ws /\ bk.todo # {}
        /\ DOMAIN bk.sums \subseteq {Policy, History}
    BY <1>1 DEF BackupGoes, BackupTypes, IsDocs
  <1>5. /\ f \in bk.todo /\ f \in {Policy, History}
        /\ f = Policy <=> Policy \in bk.todo
        /\ f = History <=> bk.todo = {History}
    BY <1>4, NextFile
  <1>6. /\ DOMAIN sums = DOMAIN bk.sums \cup {f} /\ sums[f] = ws[f]
        /\ \A g \in DOMAIN bk.sums \ {f} : sums[g] = bk.sums[g]
    BY DEF Put
  <1>7. changes \in Nat /\ IsDocs(sums, changes)
    <2>1. IsContent(f, ws[f], changes)
      BY <1>4, <1>5 DEF BackupTypes, IsDocs
    <2> QED
      BY <1>5, <2>1, PutDocs DEF BackupTypes, BackupGoes
  <1> HIDE DEF f, sums
  <1>8. BackupTypes' /\ RestoreGoes' /\ HeadKept' /\ NotBehind'
    BY <1>1, BackupLeaves DEF BackupTypes
  <1>9. BackupGoes'
    <2>1. /\ bk'.at \in {"hash", "head"} /\ bk'.at # Idle /\ bk'.at # "archive"
          /\ bk'.at = "hash" => bk.todo # {f}
          /\ bk'.at = "head" => bk.todo = {f}
      BY <1>3 DEF Idle
    <2>2. bk.todo \cap DOMAIN bk.sums = {} /\ DOMAIN bk.blobs = {} /\ bk.mixed \in BOOLEAN
          /\ bk.todo \cup DOMAIN bk.sums \subseteq DOMAIN ws
          /\ Policy \in bk.todo \cup DOMAIN bk.sums
          /\ IsDocs(bk.blobs, changes)
      BY <1>1 DEF BackupGoes
    <2>3. History \in DOMAIN sums => Policy \in DOMAIN sums
      BY <1>5, <1>6, <2>2
    <2> QED
      BY <1>1, <1>3, <1>5, <1>6, <1>7, <2>1, <2>2, <2>3 DEF BackupGoes
  <1>10. MomentsKept'
    BY <1>1 DEF MomentsKept
  <1>11. OneMoment'
    <2> SUFFICES ASSUME alone PROVE OneMoment'
      BY <1>1 DEF OneMoment
    <2>1. HashedTogether'
      <3>1. CASE f = History
        BY <3>1, <1>1, <1>3, <1>6 DEF HashedTogether
      <3>2. CASE f # History
        BY <3>2, <1>1, <1>3, <1>5, <1>6 DEF BackupGoes, HashedTogether
      <3> QED
        BY <3>1, <3>2
    <2>2. HeadOfHashed'
      BY <1>3 DEF HeadOfHashed
    <2>3. DOMAIN bk'.blobs = {}
      BY <1>1, <1>3 DEF BackupGoes
    <2>4. ArchivedTogether'
      BY <2>3 DEF ArchivedTogether
    <2>5. bk'.todo \cup DOMAIN bk'.sums = bk.todo \cup DOMAIN bk.sums
      BY <1>3, <1>5, <1>6
    <2> QED
      BY <1>1, <1>3, <2>1, <2>2, <2>4, <2>5 DEF OneMoment, restore
  <1> QED
    BY <1>8, <1>9, <1>10, <1>11

LEMMA BackupReadsHeadKeeps == BackupInv /\ BackupReadsHead => BackupInv'
  <1> SUFFICES ASSUME BackupInv, BackupReadsHead PROVE BackupInv'
    OBVIOUS
  <1> USE DEF BackupInv
  <1>1. /\ bk.at = "head" /\ bk.at # Idle /\ moments' = moments /\ alone' = alone
        /\ UNCHANGED <<ws, archives, changes, restore>>
    BY DEF BackupReadsHead, Idle
  <1>2. DOMAIN bk = BackupFields
    BY DEF BackupGoes
  <1>3. /\ DOMAIN bk' = BackupFields /\ bk'.sums = bk.sums /\ bk'.todo = DOMAIN bk.sums
        /\ bk'.at = "archive" /\ bk'.head = ChainHead(Rows(ws))
        /\ bk'.blobs = bk.blobs /\ bk'.mixed = bk.mixed
    BY <1>1, <1>2 DEF BackupReadsHead, BackupFields
  <1>4. /\ bk.todo = {} /\ DOMAIN bk.blobs = {} /\ Policy \in DOMAIN bk.sums
        /\ DOMAIN bk.sums \subseteq DOMAIN ws
    BY <1>1 DEF BackupGoes
  <1>5. BackupTypes' /\ RestoreGoes' /\ HeadKept' /\ NotBehind'
    BY <1>1, BackupLeaves DEF BackupTypes
  <1>6. BackupGoes'
    <2>1. bk'.mixed \in BOOLEAN /\ IsDocs(bk'.sums, changes') /\ IsDocs(bk'.blobs, changes')
      BY <1>1, <1>3 DEF BackupGoes
    <2> QED
      BY <1>1, <1>3, <1>4, <2>1 DEF BackupGoes, Idle
  <1>7. MomentsKept'
    BY <1>1 DEF MomentsKept
  <1>8. OneMoment'
    <2> SUFFICES ASSUME alone PROVE OneMoment'
      BY <1>1 DEF OneMoment
    <2>1. HashedTogether'
      BY <1>1, <1>3 DEF OneMoment, HashedTogether
    <2>2. HeadOfHashed'
      BY <1>1, <1>3, <1>4 DEF HeadOfHashed, Rows
    <2>3. ArchivedTogether'
      BY <1>3, <1>4 DEF ArchivedTogether
    <2> QED
      BY <1>1, <1>3, <1>4, <2>1, <2>2, <2>3 DEF OneMoment, restore
  <1> QED
    BY <1>5, <1>6, <1>7, <1>8

LEMMA BackupKilledKeeps == BackupInv /\ BackupKilled => BackupInv'
  <1> SUFFICES ASSUME BackupInv, BackupKilled PROVE BackupInv'
    OBVIOUS
  <1> USE DEF BackupInv
  <1>1. /\ bk' = NoBackup /\ moments' = {} /\ alone' = TRUE
        /\ UNCHANGED <<ws, archives, changes, restore>>
    BY DEF BackupKilled, BackupEnds
  <1>2. BackupTypes' /\ RestoreGoes' /\ HeadKept' /\ NotBehind'
    BY <1>1, BackupLeaves
  <1>3. BackupGoes' /\ OneMoment' /\ MomentsKept'
    <2>1. DOMAIN bk'.sums = {} /\ DOMAIN bk'.blobs = {} /\ changes' \in Nat
      BY <1>1, NoBackupIs DEF BackupTypes
    <2> QED
      BY <1>1, <2>1, NoBackupIs, EmptyDocs DEF BackupGoes, OneMoment, MomentsKept, Idle
  <1> QED
    BY <1>2, <1>3

\* The finished archive, if what was read the second time is what was hashed:
\* made while no restore ran, it is the workspace of one moment.
LEMMA ArchiveIsMoment ==
  ASSUME BackupInv, bk.at = "archive", alone, NEW f, bk.todo = {f}, NEW blobs,
         blobs = [g \in DOMAIN bk.blobs \cup {f} |-> IF g = f THEN ws[f] ELSE bk.blobs[g]],
         \A g \in DOMAIN bk.sums : g \in DOMAIN blobs /\ blobs[g] = bk.sums[g]
  PROVE  /\ \E w \in moments : Restrict(w, DOMAIN bk.sums) = blobs
         /\ History \in DOMAIN blobs => bk.head = ChainHead(Rows(blobs))
         /\ ~bk.mixed => DOMAIN blobs = {Policy, History} /\ Whole(blobs)
  <1> USE DEF BackupInv
  <1>1. /\ DOMAIN blobs = DOMAIN bk.sums /\ bk.at # Idle
        /\ DOMAIN blobs = DOMAIN bk.blobs \cup {f} /\ f \notin DOMAIN bk.blobs
        /\ History \in DOMAIN bk.blobs => Policy \in DOMAIN bk.blobs
        /\ Policy \in DOMAIN bk.sums /\ DOMAIN bk.sums \subseteq DOMAIN ws
        /\ DOMAIN ws \subseteq {Policy, History}
    BY FileNames DEF BackupGoes, BackupTypes, IsDocs, Idle
  <1>2. /\ blobs[f] = ws[f] /\ \A g \in DOMAIN bk.blobs : blobs[g] = bk.blobs[g]
        /\ \A g \in DOMAIN blobs : blobs[g] = bk.sums[g]
    BY <1>1
  <1>3. /\ ws \in moments /\ HashedTogether /\ HeadOfHashed /\ ArchivedTogether
        /\ ~bk.mixed => (\A w \in moments : Whole(w)) /\ DOMAIN bk.sums = {Policy, History}
    BY <1>1 DEF MomentsKept, OneMoment, BackupGoes
  <1>4. PICK w \in moments :
          DOMAIN blobs \subseteq DOMAIN w /\ \A g \in DOMAIN blobs : w[g] = blobs[g]
    <2>1. CASE DOMAIN bk.blobs = {}
      BY <2>1, <1>1, <1>2, <1>3
    <2>2. CASE DOMAIN bk.blobs # {}
      <3>1. DOMAIN bk.blobs = {Policy} /\ f = History
        BY <2>2, <1>1
      <3>2. PICK w \in moments :
              /\ DOMAIN w = {Policy, History}
              /\ w[Policy] = bk.blobs[Policy]
              /\ bk.blobs[Policy] = bk.sums[Policy] => w[History] = bk.sums[History]
        BY <3>1, <1>1, <1>3 DEF ArchivedTogether
      <3>3. DOMAIN blobs = {Policy, History} /\ w[Policy] = blobs[Policy] /\ w[History] = blobs[History]
        BY <3>1, <3>2, <1>1, <1>2
      <3> QED
        BY <3>2, <3>3
    <2> QED
      BY <2>1, <2>2
  <1>5. Restrict(w, DOMAIN bk.sums) = blobs
    <2>1. Restrict(w, DOMAIN bk.sums) = [g \in DOMAIN blobs |-> blobs[g]]
      BY <1>1, <1>4 DEF Restrict
    <2> QED
      BY <2>1
  <1>6. ASSUME History \in DOMAIN blobs PROVE bk.head = ChainHead(Rows(blobs))
    <2>1. f = History
      BY <1>1, <1>6
    <2>2. ws[History] = bk.sums[History] /\ blobs[History] = bk.sums[History]
      BY <1>2, <1>6, <2>1
    <2> QED
      BY <1>1, <1>3, <1>6, <2>2 DEF HeadOfHashed, Rows
  <1>7. ASSUME ~bk.mixed PROVE DOMAIN blobs = {Policy, History} /\ Whole(blobs)
    <2>1. DOMAIN blobs = {Policy, History}
      BY <1>1, <1>3, <1>7
    <2>2. Whole(w) /\ DOMAIN w = {Policy, History}
      BY <1>3, <1>4, <1>7, <2>1 DEF Whole
    <2> QED
      BY <1>4, <2>1, <2>2 DEF Whole
  <1> QED
    BY <1>4, <1>5, <1>6, <1>7

IsSnapshot(a) ==
    /\ \E w \in moments : Restrict(w, DOMAIN a.sums) = a.blobs
    /\ History \in DOMAIN a.blobs => a.head = ChainHead(Rows(a.blobs))

LEMMA BackupArchivesKeeps ==
  BackupInv /\ BackupArchives =>
    /\ BackupInv'
    /\ \A a \in archives' \ archives : Verifies(a) /\ alone => IsSnapshot(a)
  <1> SUFFICES ASSUME BackupInv, BackupArchives
               PROVE  /\ BackupInv'
                      /\ \A a \in archives' \ archives : Verifies(a) /\ alone => IsSnapshot(a)
    OBVIOUS
  <1> USE DEF BackupInv
  <1> DEFINE f == First(bk.todo)
             blobs == Put(bk.blobs, f, ws[f])
             b == [bk EXCEPT !.blobs = Put(@, f, ws[f]), !.todo = @ \ {f}]
             a == [b EXCEPT !.at = Idle, !.mixed = @ \/ ~alone]
  <1>1. /\ bk.at = "archive" /\ bk.at # Idle
        /\ UNCHANGED <<ws, taken, changes, restore>>
    BY DEF BackupArchives, Idle
  <1>2. DOMAIN bk = BackupFields
    BY DEF BackupGoes
  <1>3. /\ DOMAIN b = BackupFields /\ b.blobs = blobs /\ b.todo = bk.todo \ {f}
        /\ b.at = "archive" /\ b.sums = bk.sums /\ b.head = bk.head /\ b.mixed = bk.mixed
    BY <1>1, <1>2 DEF BackupFields
  <1>4. /\ DOMAIN a = BackupFields /\ a.blobs = b.blobs
        /\ a.sums = b.sums /\ a.head = b.head /\ a.mixed = (b.mixed \/ ~alone)
    BY <1>3, Zenon DEF BackupFields
  <1>5. IF b.todo = {}
        THEN archives' = archives \cup {a} /\ BackupEnds
        ELSE bk' = b /\ UNCHANGED <<archives, moments, alone>>
    BY DEF BackupArchives
  <1>6. /\ bk.todo \subseteq {Policy, History} /\ bk.todo \subseteq DOMAIN ws /\ bk.todo # {}
        /\ bk.todo \cup DOMAIN bk.blobs = DOMAIN bk.sums
        /\ bk.todo \cap DOMAIN bk.blobs = {}
        /\ History \in DOMAIN bk.blobs => Policy \in DOMAIN bk.blobs
        /\ Policy \in DOMAIN bk.sums /\ DOMAIN bk.sums \subseteq DOMAIN ws
        /\ DOMAIN ws \subseteq {Policy, History}
        /\ changes \in Nat /\ bk.mixed \in BOOLEAN /\ alone \in BOOLEAN
    BY <1>1 DEF BackupGoes, BackupTypes, IsDocs
  <1>7. /\ f \in bk.todo /\ f \in {Policy, History}
        /\ f = Policy <=> Policy \in bk.todo
        /\ f = History <=> bk.todo = {History}
    BY <1>6, NextFile
  <1>8. /\ DOMAIN blobs = DOMAIN bk.blobs \cup {f} /\ blobs[f] = ws[f]
        /\ blobs = [g \in DOMAIN bk.blobs \cup {f} |-> IF g = f THEN ws[f] ELSE bk.blobs[g]]
    BY DEF Put
  <1>9. IsDocs(blobs, changes)
    <2>1. IsContent(f, ws[f], changes)
      BY <1>6, <1>7 DEF BackupTypes, IsDocs
    <2> QED
      BY <1>6, <1>7, <2>1, PutDocs DEF BackupGoes
  <1> HIDE DEF f, blobs, b, a
  <1>10. RestoreGoes' /\ HeadKept' /\ NotBehind'
    BY <1>1 DEF RestoreGoes, HeadKept, NotBehind, restore
  <1>11. CASE b.todo = {}
    <2>1. bk.todo = {f} /\ archives' = archives \cup {a} /\ BackupEnds
      BY <1>3, <1>5, <1>7, <1>11
    <2>2. ASSUME Verifies(a), alone
          PROVE  /\ IsSnapshot(a)
                 /\ ~bk.mixed => DOMAIN blobs = {Policy, History} /\ Whole(blobs)
      <3>1. \A g \in DOMAIN bk.sums : g \in DOMAIN blobs /\ blobs[g] = bk.sums[g]
        BY <1>3, <1>4, <2>2 DEF Verifies
      <3>2. /\ \E w \in moments : Restrict(w, DOMAIN bk.sums) = blobs
            /\ History \in DOMAIN blobs => bk.head = ChainHead(Rows(blobs))
            /\ ~bk.mixed => DOMAIN blobs = {Policy, History} /\ Whole(blobs)
        BY <1>1, <1>8, <2>1, <2>2, <3>1, ArchiveIsMoment
      <3> QED
        BY <1>3, <1>4, <3>2 DEF IsSnapshot
    <2>3. IsArchive(a, changes)
      <3>1. a.mixed \in BOOLEAN
        BY <1>4
      <3>2. ASSUME Verifies(a), ~a.mixed PROVE Whole(a.blobs) /\ a.head = ChainHead(Rows(a.blobs))
        <4>1. alone /\ ~bk.mixed
          BY <1>3, <1>4, <1>6, <3>2
        <4>2. IsSnapshot(a) /\ DOMAIN blobs = {Policy, History} /\ Whole(blobs)
          BY <2>2, <3>2, <4>1
        <4> QED
          BY <1>3, <1>4, <4>2 DEF IsSnapshot
      <3>3. /\ IsDocs(a.sums, changes) /\ IsDocs(a.blobs, changes)
            /\ Policy \in DOMAIN a.sums /\ DOMAIN a.blobs \subseteq DOMAIN a.sums
        BY <1>3, <1>4, <1>6, <1>7, <1>8, <1>9 DEF BackupGoes
      <3> QED
        BY <1>4, <3>1, <3>2, <3>3 DEF IsArchive
    <2>4. BackupTypes'
      BY <1>1, <2>1, <2>3 DEF BackupTypes, BackupEnds, restore
    <2>5. BackupGoes' /\ OneMoment' /\ MomentsKept'
      <3>1. bk' = NoBackup /\ moments' = {} /\ changes' \in Nat
        BY <1>1, <1>6, <2>1 DEF BackupEnds
      <3>2. DOMAIN bk'.sums = {} /\ DOMAIN bk'.blobs = {}
        BY <3>1, NoBackupIs
      <3> QED
        BY <3>1, <3>2, NoBackupIs, EmptyDocs DEF BackupGoes, OneMoment, MomentsKept, Idle
    <2>6. \A x \in archives' \ archives : Verifies(x) /\ alone => IsSnapshot(x)
      BY <2>1, <2>2
    <2> QED
      BY <1>10, <2>4, <2>5, <2>6
  <1>12. CASE b.todo # {}
    <2>1. bk' = b /\ UNCHANGED <<archives, moments, alone>>
      BY <1>5, <1>12
    <2>2. bk.todo = {Policy, History} /\ f = Policy /\ DOMAIN bk.blobs = {}
          /\ DOMAIN bk.sums = {Policy, History}
      BY <1>3, <1>6, <1>7, <1>12
    <2>3. BackupTypes'
      BY <1>1, <2>1 DEF BackupTypes, restore
    <2>4. BackupGoes'
      <3>1. DOMAIN blobs = {Policy} /\ b.todo = {History}
        BY <1>3, <1>8, <2>2, FileNames
      <3>2. IsDocs(bk'.sums, changes') /\ IsDocs(bk'.blobs, changes')
        BY <1>1, <1>3, <1>9, <2>1 DEF BackupGoes
      <3> QED
        BY <1>1, <1>3, <1>6, <2>1, <2>2, <3>1, <3>2, FileNames DEF BackupGoes, Idle
    <2>5. MomentsKept'
      BY <1>1, <2>1 DEF MomentsKept
    <2>6. OneMoment'
      <3> SUFFICES ASSUME alone PROVE OneMoment'
        BY <2>1 DEF OneMoment
      <3>1. HashedTogether /\ HeadOfHashed
        BY <1>1 DEF OneMoment
      <3>2. HashedTogether' /\ HeadOfHashed'
        BY <1>1, <1>3, <2>1, <3>1 DEF HashedTogether, HeadOfHashed
      <3>3. ArchivedTogether'
        <4>1. ws \in moments /\ DOMAIN ws = {Policy, History}
          BY <1>1, <1>6, <2>2 DEF MomentsKept
        <4>2. blobs[Policy] = ws[Policy]
          BY <1>8, <2>2
        <4>3. blobs[Policy] = bk.sums[Policy] => ws[History] = bk.sums[History]
          BY <2>2, <3>1, <4>2 DEF HashedTogether
        <4> QED
          BY <1>3, <2>1, <4>1, <4>2, <4>3 DEF ArchivedTogether
      <3>4. b.todo \cup DOMAIN b.sums = bk.todo \cup DOMAIN bk.sums
        BY <1>3, <1>6
      <3> QED
        BY <1>1, <1>3, <2>1, <3>2, <3>3, <3>4 DEF OneMoment, restore
    <2>7. archives' = archives
      BY <2>1
    <2> QED
      BY <1>10, <2>3, <2>4, <2>5, <2>6, <2>7
  <1> QED
    BY <1>11, <1>12

----------------------------------------------------------------------------
(* The steps of a restore.                                                  *)

\* While a restore runs, or begins, no backup is alone.
LEMMA RestoreOverlaps ==
  ASSUME BackupInv, bk' = bk, alone' = alone, rs.at # Idle
  PROVE  OneMoment'
  BY DEF BackupInv, OneMoment

\* The workspace a restore leaves is one more moment of the backup that runs.
LEMMA RestoreBecomes ==
  ASSUME BackupInv, NEW w, Becomes(w), IsDocs(w, changes), DOMAIN ws \subseteq DOMAIN w,
         UNCHANGED <<archives, bk, taken, alone, changes, restored, top, mixed, excused>>,
         History \in DOMAIN w => Policy \in DOMAIN w
  PROVE  BackupTypes' /\ BackupGoes' /\ MomentsKept'
  <1>1. ws' = w /\ moments' = IF bk.at = Idle THEN {} ELSE moments \cup {w}
    BY DEF Becomes
  <1>2. BackupTypes'
    BY <1>1 DEF BackupInv, BackupTypes
  <1>3. BackupGoes'
    <2>1. bk.todo \cup DOMAIN bk.sums \subseteq DOMAIN w
      BY DEF BackupInv, BackupGoes
    <2> QED
      BY <1>1, <2>1 DEF BackupInv, BackupGoes
  <1>4. MomentsKept'
    BY <1>1 DEF BackupInv, MomentsKept
  <1> QED
    BY <1>2, <1>3, <1>4

\* An archive that verifies has all its files.
LEMMA VerifiedIsWhole ==
  ASSUME NEW c \in Nat, NEW a, IsArchive(a, c), Verifies(a)
  PROVE  /\ Policy \in DOMAIN a.blobs /\ DOMAIN a.blobs \subseteq {Policy, History}
         /\ \A f \in DOMAIN a.blobs : IsContent(f, a.blobs[f], c)
         /\ ~a.mixed => /\ DOMAIN a.blobs = {Policy, History} /\ Whole(a.blobs)
                        /\ a.head <= LastVersion(Rows(a.blobs))
                        /\ a.head \in Nat /\ LastVersion(Rows(a.blobs)) \in Nat
  <1>1. /\ Policy \in DOMAIN a.blobs /\ DOMAIN a.blobs \subseteq {Policy, History}
        /\ \A f \in DOMAIN a.blobs : IsContent(f, a.blobs[f], c)
    BY DEF IsArchive, IsDocs, Verifies
  <1>2. ASSUME ~a.mixed
        PROVE  /\ DOMAIN a.blobs = {Policy, History} /\ Whole(a.blobs)
               /\ a.head <= LastVersion(Rows(a.blobs))
               /\ a.head \in Nat /\ LastVersion(Rows(a.blobs)) \in Nat
    <2>1. Whole(a.blobs) /\ a.head = ChainHead(Rows(a.blobs)) /\ IsDocs(a.blobs, c)
      BY <1>2 DEF IsArchive
    <2>2. IsHistory(Rows(a.blobs), c)
      BY <2>1, RowsOfDocs
    <2>3. /\ ChainHead(Rows(a.blobs)) \in 0 .. c /\ LastVersion(Rows(a.blobs)) \in 0 .. c
          /\ ChainHead(Rows(a.blobs)) <= LastVersion(Rows(a.blobs))
      BY <2>2, HeadOfChain, LastOfHistory
    <2> QED
      BY <1>1, <2>1, <2>3 DEF Whole
  <1> QED
    BY <1>1, <1>2

LEMMA RestoreVerifiesKeeps == BackupInv /\ RestoreVerifies => BackupInv'
  <1> SUFFICES ASSUME BackupInv, RestoreVerifies PROVE BackupInv'
    OBVIOUS
  <1> USE DEF BackupInv
  <1>1. /\ rs.at = Idle /\ alone' = (bk.at = Idle)
        /\ UNCHANGED <<ws, archives, bk, taken, moments, changes, top, mixed, excused>>
    BY DEF RestoreVerifies
  <1>2. PICK a \in archives : \E forced \in BOOLEAN :
          /\ Verifies(a)
          /\ rs' = [at |-> "compare", todo |-> DOMAIN a.blobs, archive |-> a, forced |-> forced]
    BY DEF RestoreVerifies
  <1>3. /\ DOMAIN rs' = RestoreFields /\ rs'.at = "compare" /\ rs'.todo = DOMAIN a.blobs
        /\ rs'.archive = a /\ Verifies(a)
    BY <1>2 DEF RestoreFields
  <1>4. IsArchive(a, changes) /\ changes \in Nat
    BY DEF BackupTypes
  <1>5. Policy \in DOMAIN a.blobs
    BY <1>3, <1>4, VerifiedIsWhole
  <1>6. BackupTypes' /\ BackupGoes' /\ MomentsKept' /\ OneMoment'
    <2>1. alone' \in BOOLEAN
      BY <1>1
    <2> QED
      BY <1>1, <2>1 DEF BackupTypes, BackupGoes, MomentsKept, OneMoment
  <1>7. RestoreGoes'
    BY <1>1, <1>3, <1>4, <1>5 DEF RestoreGoes, Idle
  <1>8. HeadKept' /\ NotBehind'
    BY <1>1, <1>3 DEF HeadKept, NotBehind
  <1> QED
    BY <1>6, <1>7, <1>8

LEMMA RestoreComparesKeeps == BackupInv /\ RestoreCompares => BackupInv'
  <1> SUFFICES ASSUME BackupInv, RestoreCompares PROVE BackupInv'
    OBVIOUS
  <1> USE DEF BackupInv
  <1> DEFINE rows == Rows(ws)
             goes == ChainHead(rows) <= rs.archive.head \/ rs.forced
  <1>1. /\ rs.at = "compare" /\ rs.at # Idle
        /\ rs' = IF goes THEN [rs EXCEPT !.at = "open"] ELSE NoRestore
        /\ top' = IF rs.forced THEN 0 ELSE top
        /\ mixed' = IF goes /\ Policy \in DOMAIN rs.archive.blobs THEN rs.archive.mixed ELSE mixed
        /\ excused' = (excused \/ ~IsIntact(rows) \/ rs.archive.mixed)
        /\ UNCHANGED <<ws, backup, changes, restored>>
    BY DEF RestoreCompares, Idle
  <1>2. /\ IsArchive(rs.archive, changes) /\ Verifies(rs.archive) /\ changes \in Nat
        /\ rs.archive.mixed \in BOOLEAN
    BY <1>1 DEF RestoreGoes, BackupTypes, IsArchive
  <1>3. /\ Policy \in DOMAIN rs.archive.blobs
        /\ ~rs.archive.mixed =>
             /\ rs.archive.head <= LastVersion(Rows(rs.archive.blobs))
             /\ rs.archive.head \in Nat /\ LastVersion(Rows(rs.archive.blobs)) \in Nat
    BY <1>2, VerifiedIsWhole
  <1>4. /\ ChainHead(rows) \in Nat /\ LastVersion(rows) \in Nat
        /\ IsIntact(rows) => ChainHead(rows) = LastVersion(rows)
    BY <1>2, RowsOfDocs, HeadOfChain, LastOfHistory DEF BackupTypes
  <1>5. DOMAIN rs = RestoreFields
    BY DEF RestoreGoes
  <1>6. goes => /\ DOMAIN rs' = RestoreFields /\ rs'.at = "open" /\ rs'.todo = rs.todo
                /\ rs'.archive = rs.archive
    BY <1>1, <1>5 DEF RestoreFields
  <1>7. rs'.at # "compare" /\ rs'.at # "write" /\ (rs'.at = Idle <=> ~goes)
    BY <1>1, <1>6, NoRestoreIs DEF Idle
  <1>8. Rows(ws') = rows
    BY <1>1
  <1> HIDE DEF goes, rows
  <1>9. BackupTypes'
    <2>1. top' \in Nat /\ mixed' \in BOOLEAN /\ excused' \in BOOLEAN
      <3>1. top' \in Nat
        BY <1>1 DEF BackupTypes
      <3>2. mixed' \in BOOLEAN
        BY <1>1, <1>2 DEF BackupTypes
      <3>3. excused' \in BOOLEAN
        BY <1>1
      <3> QED
        BY <3>1, <3>2, <3>3
    <2> QED
      BY <1>1, <2>1 DEF BackupTypes, backup
  <1>10. BackupGoes' /\ MomentsKept' /\ OneMoment'
    BY <1>1, RestoreOverlaps DEF BackupGoes, MomentsKept, backup
  <1>11. RestoreGoes'
    <2>1. CASE goes
      BY <2>1, <1>1, <1>6 DEF RestoreGoes, Idle
    <2>2. CASE ~goes
      BY <2>2, <1>1, NoRestoreIs DEF RestoreGoes
    <2> QED
      BY <2>1, <2>2
  <1>12. HeadKept'
    <2>1. CASE goes
      <3>1. mixed' = rs.archive.mixed
        BY <2>1, <1>1, <1>3
      <3>2. DOMAIN rs.archive.blobs \ rs.todo = {}
        BY <1>1 DEF RestoreGoes
      <3> QED
        BY <2>1, <3>1, <3>2, <1>1, <1>6 DEF HeadKept, Idle
    <2>2. CASE ~goes
      BY <2>2, <1>1, <1>7 DEF HeadKept, Idle
    <2> QED
      BY <2>1, <2>2
  <1>13. NotBehind'
    <2> SUFFICES ASSUME ~excused'
                 PROVE  /\ ~goes => LastVersion(rows) >= top'
                        /\ goes => /\ ~rs.archive.mixed
                                   /\ LastVersion(Rows(rs.archive.blobs)) >= top'
                                   /\ LastVersion(rows) >= top'
      BY <1>1, <1>6, <1>7, <1>8 DEF NotBehind, Idle
    <2>1. ~excused /\ IsIntact(rows) /\ ~rs.archive.mixed
      BY <1>1
    <2>2. LastVersion(rows) >= top /\ top \in Nat
      BY <2>1, <1>1 DEF NotBehind, BackupTypes, rows
    <2>3. CASE rs.forced
      BY <2>1, <2>3, <1>1, <1>3, <1>4
    <2>4. CASE ~rs.forced
      <3>1. top' = top /\ (goes => ChainHead(rows) <= rs.archive.head)
        BY <2>4, <1>1 DEF goes
      <3> QED
        BY <3>1, <2>1, <2>2, <1>3, <1>4
    <2> QED
      BY <2>3, <2>4
  <1> QED
    BY <1>9, <1>10, <1>11, <1>12, <1>13

LEMMA RestoreOpensKeeps == BackupInv /\ RestoreOpens => BackupInv'
  <1> SUFFICES ASSUME BackupInv, RestoreOpens PROVE BackupInv'
    OBVIOUS
  <1> USE DEF BackupInv
  <1> DEFINE f == First(rs.todo)
  <1>1. /\ rs.at = "open" /\ rs.at # Idle /\ rs' = [rs EXCEPT !.at = "write"]
        /\ UNCHANGED <<archives, bk, taken, alone, changes, restored, top, mixed, excused>>
    BY DEF RestoreOpens, Idle
  <1>2. PICK part \in Opened(f) : Becomes(Put(ws, f, part))
    BY DEF RestoreOpens
  <1>3. /\ IsArchive(rs.archive, changes) /\ Verifies(rs.archive) /\ changes \in Nat
        /\ rs.todo \subseteq DOMAIN rs.archive.blobs /\ rs.todo # {}
        /\ History \in DOMAIN rs.archive.blobs => History \in rs.todo
        /\ DOMAIN rs = RestoreFields
    BY <1>1 DEF RestoreGoes, BackupTypes
  <1>4. /\ Policy \in DOMAIN rs.archive.blobs
        /\ DOMAIN rs.archive.blobs \subseteq {Policy, History}
        /\ \A g \in DOMAIN rs.archive.blobs : IsContent(g, rs.archive.blobs[g], changes)
    BY <1>3, VerifiedIsWhole
  <1>5. /\ f \in rs.todo /\ f \in {Policy, History}
        /\ f = Policy <=> Policy \in rs.todo
        /\ f = History <=> rs.todo = {History}
    BY <1>3, <1>4, NextFile
  <1>6. /\ DOMAIN rs' = RestoreFields /\ rs'.at = "write" /\ rs'.at # Idle /\ rs'.todo = rs.todo
        /\ rs'.archive = rs.archive
    BY <1>1, <1>3 DEF RestoreFields, Idle
  <1> HIDE DEF f
  <1>7. IsContent(f, part, changes)
    <2>1. CASE f = Policy
      BY <2>1, <1>2, <1>3, FileNames DEF Opened, IsContent
    <2>2. CASE f = History
      <3> DEFINE rows == rs.archive.blobs[f]
      <3>0. IsHistory(<<>>, changes)
        BY <1>3, EmptyHistory
      <3>1. IsHistory(rows, changes)
        BY <2>2, <1>3, <1>4, <1>5 DEF IsContent
      <3>2. part = <<>> \/ \E n \in 1 .. Len(rows) - 1 : part = SubSeq(rows, 1, n)
        BY <2>2, <1>2, FileNames DEF Opened
      <3> HIDE DEF rows
      <3>3. Len(rows) \in Nat
        BY <3>1 DEF IsHistory
      <3>4. IsHistory(part, changes)
        <4>1. \A n \in 1 .. Len(rows) - 1 : n \in 0 .. Len(rows)
          BY <3>3
        <4> QED
          BY <3>0, <3>1, <3>2, <4>1, <1>3, HistoryBegins
      <3> QED
        BY <2>2, <3>4, FileNames DEF IsContent
    <2> QED
      BY <1>5, <2>1, <2>2
  <1> DEFINE w == Put(ws, f, part)
  <1>8. DOMAIN w = DOMAIN ws \cup {f} /\ \A g \in DOMAIN ws \ {f} : w[g] = ws[g]
    BY DEF Put
  <1>9. IsDocs(w, changes)
    BY <1>3, <1>5, <1>7, PutDocs DEF BackupTypes
  <1>10. Becomes(w) /\ ws' = w
    BY <1>2 DEF Becomes
  <1> HIDE DEF w
  <1>11. BackupTypes' /\ BackupGoes' /\ MomentsKept' /\ OneMoment'
    <2>1. History \in DOMAIN w => Policy \in DOMAIN w
      BY <1>1, <1>5, <1>8 DEF BackupTypes, RestoreGoes
    <2>2. DOMAIN ws \subseteq DOMAIN w
      BY <1>8
    <2> QED
      BY <1>1, <1>9, <1>10, <2>1, <2>2, RestoreBecomes, RestoreOverlaps
  <1>12. RestoreGoes'
    BY <1>1, <1>6, <1>8, <1>10 DEF RestoreGoes
  <1>13. HeadKept'
    <2> SUFFICES ASSUME ~mixed
                 PROVE  /\ ~rs.archive.mixed
                        /\ \A g \in DOMAIN rs.archive.blobs \ rs.todo :
                              g \in DOMAIN w /\ w[g] = rs.archive.blobs[g]
      BY <1>1, <1>6, <1>10 DEF HeadKept, Idle
    <2> QED
      BY <1>1, <1>5, <1>8 DEF HeadKept, Idle
  <1>14. NotBehind'
    <2> SUFFICES ASSUME ~excused
                 PROVE  /\ ~rs.archive.mixed
                        /\ LastVersion(Rows(rs.archive.blobs)) >= top
                        /\ Policy \in rs.todo => LastVersion(Rows(w)) >= top
      BY <1>1, <1>6, <1>10 DEF NotBehind, Idle
    <2>1. Policy \in rs.todo => Rows(w) = Rows(ws)
      BY <1>5, <1>8, FileNames DEF Rows
    <2> QED
      BY <1>1, <2>1 DEF NotBehind, Idle
  <1> QED
    BY <1>11, <1>12, <1>13, <1>14

LEMMA RestoreWritesKeeps == BackupInv /\ RestoreWrites => BackupInv'
  <1> SUFFICES ASSUME BackupInv, RestoreWrites PROVE BackupInv'
    OBVIOUS
  <1> USE DEF BackupInv
  <1> DEFINE f == First(rs.todo)
             w == Put(ws, f, rs.archive.blobs[f])
  <1>1. /\ rs.at = "write" /\ rs.at # Idle /\ Becomes(w) /\ ws' = w
        /\ rs' = IF rs.todo = {f} THEN NoRestore
                 ELSE [rs EXCEPT !.at = "open", !.todo = @ \ {f}]
        /\ UNCHANGED <<archives, bk, taken, alone, changes, restored, top, mixed, excused>>
    BY DEF RestoreWrites, Becomes, Idle
  <1>2. /\ IsArchive(rs.archive, changes) /\ Verifies(rs.archive) /\ changes \in Nat
        /\ rs.todo \subseteq DOMAIN rs.archive.blobs /\ rs.todo # {}
        /\ History \in DOMAIN rs.archive.blobs => History \in rs.todo
        /\ Policy \notin rs.todo => Policy \in DOMAIN ws
        /\ DOMAIN rs = RestoreFields
    BY <1>1 DEF RestoreGoes, BackupTypes
  <1>3. /\ DOMAIN rs.archive.blobs \subseteq {Policy, History}
        /\ \A g \in DOMAIN rs.archive.blobs : IsContent(g, rs.archive.blobs[g], changes)
        /\ ~rs.archive.mixed => DOMAIN rs.archive.blobs = {Policy, History} /\ Whole(rs.archive.blobs)
    BY <1>2, VerifiedIsWhole
  <1>4. /\ f \in rs.todo /\ f \in {Policy, History}
        /\ f = Policy <=> Policy \in rs.todo
        /\ f = History <=> rs.todo = {History}
    BY <1>2, <1>3, NextFile
  <1>5. /\ DOMAIN w = DOMAIN ws \cup {f} /\ w[f] = rs.archive.blobs[f]
        /\ \A g \in DOMAIN ws \ {f} : w[g] = ws[g]
    BY DEF Put
  <1>6. IsDocs(w, changes)
    <2>1. IsContent(f, rs.archive.blobs[f], changes)
      BY <1>2, <1>3, <1>4
    <2> QED
      BY <1>2, <1>4, <2>1, PutDocs DEF BackupTypes
  <1>7. rs.todo # {f} => /\ DOMAIN rs' = RestoreFields /\ rs'.at = "open" /\ rs'.at # Idle
                         /\ rs'.todo = rs.todo \ {f} /\ rs'.archive = rs.archive
    BY <1>1, <1>2 DEF RestoreFields, Idle
  <1>8. rs.todo = {f} => rs' = NoRestore /\ rs'.at = Idle
    BY <1>1, NoRestoreIs
  <1> HIDE DEF f, w
  <1>9. BackupTypes' /\ BackupGoes' /\ MomentsKept' /\ OneMoment'
    <2>1. History \in DOMAIN w => Policy \in DOMAIN w
      BY <1>2, <1>4, <1>5 DEF BackupTypes
    <2>2. DOMAIN ws \subseteq DOMAIN w
      BY <1>5
    <2> QED
      BY <1>1, <1>6, <2>1, <2>2, RestoreBecomes, RestoreOverlaps
  <1>10. CASE rs.todo = {f}
    <2>1. RestoreGoes'
      BY <1>8, <1>10, NoRestoreIs DEF RestoreGoes, Idle
    <2>2. HeadKept'
      <3> SUFFICES ASSUME ~mixed PROVE Whole(w)
        BY <1>1, <1>8, <1>10 DEF HeadKept
      <3>1. /\ ~rs.archive.mixed
            /\ \A g \in DOMAIN rs.archive.blobs \ rs.todo :
                  g \in DOMAIN ws /\ ws[g] = rs.archive.blobs[g]
        BY <1>1 DEF HeadKept, Idle
      <3>2. /\ DOMAIN w = {Policy, History}
            /\ w[Policy] = rs.archive.blobs[Policy] /\ w[History] = rs.archive.blobs[History]
        BY <3>1, <1>3, <1>4, <1>5, <1>6, <1>10 DEF IsDocs
      <3> QED
        BY <3>1, <3>2, <1>3 DEF Whole
    <2>3. NotBehind'
      <3> SUFFICES ASSUME ~excused PROVE LastVersion(Rows(w)) >= top
        BY <1>1, <1>8, <1>10 DEF NotBehind
      <3>1. ~rs.archive.mixed /\ LastVersion(Rows(rs.archive.blobs)) >= top
        BY <1>1 DEF NotBehind, Idle
      <3>2. f = History
        BY <3>1, <1>2, <1>3, <1>10
      <3>3. Rows(w) = Rows(rs.archive.blobs)
        BY <3>1, <3>2, <1>3, <1>5 DEF Rows
      <3> QED
        BY <3>1, <3>3
    <2> QED
      BY <1>9, <2>1, <2>2, <2>3
  <1>11. CASE rs.todo # {f}
    <2>1. f = Policy /\ rs.todo = {Policy, History} /\ rs'.todo = {History}
      BY <1>2, <1>3, <1>4, <1>7, <1>11, FileNames
    <2>2. RestoreGoes'
      BY <1>1, <1>2, <1>5, <1>7, <1>11, <2>1 DEF RestoreGoes
    <2>3. HeadKept'
      <3> SUFFICES ASSUME ~mixed
                   PROVE  /\ ~rs.archive.mixed
                          /\ \A g \in DOMAIN rs.archive.blobs \ {History} :
                                g \in DOMAIN w /\ w[g] = rs.archive.blobs[g]
        BY <1>1, <1>7, <1>11, <2>1 DEF HeadKept, Idle
      <3> QED
        BY <1>1, <1>3, <1>5, <2>1 DEF HeadKept, Idle
    <2>4. NotBehind'
      <3> SUFFICES ASSUME ~excused
                   PROVE  /\ ~rs.archive.mixed
                          /\ LastVersion(Rows(rs.archive.blobs)) >= top
                          /\ LastVersion(Rows(w)) >= top
        BY <1>1, <1>7, <1>11 DEF NotBehind, Idle
      <3>1. Rows(w) = Rows(ws)
        BY <1>5, <2>1, FileNames DEF Rows
      <3> QED
        BY <1>1, <2>1, <3>1 DEF NotBehind, Idle
    <2> QED
      BY <1>9, <2>2, <2>3, <2>4
  <1> QED
    BY <1>10, <1>11

LEMMA RestoreKilledKeeps == BackupInv /\ RestoreKilled => BackupInv'
  <1> SUFFICES ASSUME BackupInv, RestoreKilled PROVE BackupInv'
    OBVIOUS
  <1> USE DEF BackupInv
  <1>1. /\ rs.at # Idle /\ rs' = NoRestore
        /\ mixed' = (mixed \/ rs.at # "compare")
        /\ excused' = (excused \/ (rs.at = "write" /\ First(rs.todo) = History))
        /\ UNCHANGED <<ws, backup, changes, restored, top>>
    BY DEF RestoreKilled
  <1>2. BackupTypes'
    BY <1>1 DEF BackupTypes, backup
  <1>3. BackupGoes' /\ MomentsKept' /\ OneMoment'
    BY <1>1, RestoreOverlaps DEF BackupGoes, MomentsKept, backup
  <1>4. rs'.at = Idle /\ rs'.at # "compare"
    BY <1>1, NoRestoreIs DEF Idle
  <1>5. RestoreGoes'
    BY <1>1, <1>4, NoRestoreIs DEF RestoreGoes
  <1>6. HeadKept'
    BY <1>1, <1>4 DEF HeadKept
  <1>7. NotBehind'
    <2> SUFFICES ASSUME ~excused' PROVE LastVersion(Rows(ws)) >= top
      BY <1>1, <1>4 DEF NotBehind
    <2>1. ~excused /\ (rs.at = "write" => First(rs.todo) # History)
      BY <1>1
    <2>2. rs.todo \subseteq {Policy, History} /\ rs.todo # {}
      <3>1. IsArchive(rs.archive, changes) /\ Verifies(rs.archive) /\ changes \in Nat
            /\ rs.todo \subseteq DOMAIN rs.archive.blobs /\ rs.todo # {}
        BY <1>1 DEF RestoreGoes, BackupTypes
      <3> QED
        BY <3>1, VerifiedIsWhole
    <2>3. rs.at = "write" => Policy \in rs.todo
      BY <2>1, <2>2, NextFile
    <2> QED
      BY <1>1, <2>1, <2>3 DEF NotBehind, RestoreGoes
  <1> QED
    BY <1>2, <1>3, <1>5, <1>6, <1>7

----------------------------------------------------------------------------

LEMMA StutterKeepsBackupInv == BackupInv /\ UNCHANGED bvars => BackupInv'
  <1> SUFFICES ASSUME BackupInv, UNCHANGED bvars PROVE BackupInv'
    OBVIOUS
  <1> USE DEF BackupInv, bvars
  <1>1. BackupTypes' /\ BackupGoes' /\ MomentsKept'
    BY DEF BackupTypes, BackupGoes, MomentsKept
  <1>2. OneMoment'
    BY DEF OneMoment, HashedTogether, HeadOfHashed, ArchivedTogether
  <1>3. RestoreGoes' /\ HeadKept' /\ NotBehind'
    BY DEF RestoreGoes, HeadKept, NotBehind
  <1> QED
    BY <1>1, <1>2, <1>3

LEMMA NextBackupInv == BackupInv /\ [BackupNext]_bvars => BackupInv'
  BY SetPolicyKeeps, MachineDiesKeeps, ArchiveRotsKeeps, BackupListsKeeps, BackupHashesKeeps,
     BackupReadsHeadKeeps, BackupArchivesKeeps, BackupKilledKeeps, RestoreVerifiesKeeps,
     RestoreComparesKeeps, RestoreOpensKeeps, RestoreWritesKeeps, RestoreKilledKeeps,
     StutterKeepsBackupInv
     DEF BackupNext

LEMMA AlwaysBackupInv == BackupSpec => []BackupInv
  BY InitBackupInv, NextBackupInv, PTL DEF BackupSpec

\* Whatever is changed, backed up and restored, in any order and with either
\* command killed at any step: the policy on the disk is the one its history
\* ends with, unless a restore was cut short or overlapped a change or a backup
\* (cmd_backup, cmd_restore).
THEOREM HeadIsPolicy == BackupSpec => []PolicyIsHead
  <1>1. BackupInv => PolicyIsHead
    <2> SUFFICES ASSUME BackupInv PROVE PolicyIsHead
      OBVIOUS
    <2> USE DEF BackupInv
    <2>1. changes \in Nat /\ IsHistory(Rows(ws), changes)
      BY RowsOfDocs DEF BackupTypes
    <2>2. \A n \in DOMAIN Rows(ws) :
             /\ IsRow(Rows(ws)[n])
             /\ n > 1 => Rows(ws)[n].to > Rows(ws)[n - 1].to
      <3> DEFINE rows == Rows(ws)
      <3>1. IsHistory(rows, changes)
        BY <2>1
      <3> HIDE DEF rows
      <3>2. ASSUME NEW n \in DOMAIN rows
            PROVE  IsRow(rows[n]) /\ (n > 1 => rows[n].to > rows[n - 1].to)
        <4>1. /\ rows[n].to \in 1 .. changes /\ rows[n].change \in 1 .. changes
              /\ rows[n].prev \in 0 .. changes \cup {9} /\ rows[n].to <= rows[n].change
          BY <2>1, <3>1, RowsOfHistory DEF IsHistory
        <4>2. n > 1 => n - 1 \in DOMAIN rows /\ n - 1 < n
          BY <3>1 DEF IsHistory
        <4>3. n > 1 => rows[n - 1].to < rows[n].to /\ rows[n - 1].to \in Nat
          <5> SUFFICES ASSUME n > 1 PROVE rows[n - 1].to < rows[n].to /\ rows[n - 1].to \in Nat
            OBVIOUS
          <5>1. rows[n - 1].to \in 1 .. changes
            BY <2>1, <3>1, <4>2, RowsOfHistory
          <5>2. rows[n - 1].to < rows[n].to
            BY <3>1, <4>2 DEF IsHistory
          <5> QED
            BY <5>1, <5>2
        <4> QED
          BY <2>1, <4>1, <4>3 DEF IsRow
      <3> QED
        BY <3>2 DEF rows
    <2>3. bk.todo \subseteq Range(Files) /\ DOMAIN ws \subseteq Range(Files)
      BY FileNames DEF BackupGoes, BackupTypes, IsDocs
    <2>4. rs.todo \subseteq Range(Files)
      <3>1. CASE rs.at = Idle
        BY <3>1, NoRestoreIs DEF RestoreGoes
      <3>2. CASE rs.at # Idle
        BY <3>2, FileNames DEF RestoreGoes, IsArchive, IsDocs
      <3> QED
        BY <3>1, <3>2
    <2>5. (bk.at = Idle) = (bk = NoBackup)
      BY NoBackupIs DEF BackupGoes
    <2>6. \A a \in archives : DOMAIN a.blobs \subseteq DOMAIN a.sums
      BY DEF BackupTypes, IsArchive
    <2>7. rs.at = Idle /\ ~mixed => (Policy \in DOMAIN ws => ws[Policy] = LastChange(Rows(ws)))
      BY DEF HeadKept, Whole, Rows
    <2> QED
      BY <2>2, <2>3, <2>4, <2>5, <2>6, <2>7 DEF PolicyIsHead, BackupTypeOK
  <1> QED
    BY <1>1, AlwaysBackupInv, PTL

\* Over any sequence of changes, backups and restores the last version on the
\* disk goes back only where the exceptions of the property say so
\* (the comparison of the heads in cmd_restore).
THEOREM VersionsGoForward == BackupSpec => []NeverRegresses
  <1>1. BackupInv => NeverRegresses
    BY DEF BackupInv, NotBehind, NeverRegresses
  <1> QED
    BY <1>1, AlwaysBackupInv, PTL

\* An archive that verifies is the workspace of one moment, with the head of
\* the history it holds, though a backup reads each file twice and the head in
\* between (_build_manifest, cmd_backup).
THEOREM ArchiveIsSnapshot == BackupSpec => VerifiedIsSnapshot
  <1>1. BackupInv /\ [BackupNext]_bvars =>
          \A a \in archives' \ archives :
             Verifies(a) /\ bk.at = "archive" /\ alone => IsSnapshot(a)
    <2> SUFFICES ASSUME BackupInv, [BackupNext]_bvars, NEW a \in archives' \ archives,
                        Verifies(a), alone
                 PROVE  IsSnapshot(a)
      OBVIOUS
    <2>1. CASE BackupArchives
      BY <2>1, BackupArchivesKeeps
    <2>2. CASE ArchiveRots
      BY <2>2, ArchiveRotsKeeps
    <2>3. archives' # archives
      OBVIOUS
    <2> QED
      BY <2>1, <2>2, <2>3
         DEF BackupNext, bvars, backup, restore, SetPolicy, MachineDies, BackupLists, BackupHashes,
             BackupReadsHead, BackupKilled, RestoreVerifies, RestoreCompares, RestoreOpens,
             RestoreWrites, RestoreKilled
  <1>2. BackupInv /\ [BackupNext]_bvars =>
          [\A a \in archives' \ archives :
             Verifies(a) /\ bk.at = "archive" /\ alone =>
               /\ \E w \in moments : Restrict(w, DOMAIN a.sums) = a.blobs
               /\ History \in DOMAIN a.blobs => a.head = ChainHead(Rows(a.blobs))]_bvars
    BY <1>1 DEF IsSnapshot
  <1> QED
    BY <1>2, AlwaysBackupInv, PTL DEF BackupSpec, VerifiedIsSnapshot
=============================================================================

------------------------- MODULE SealedVault_proofs -------------------------
(* The sealed vault, for any processes, keys, secrets and passphrases.      *)
EXTENDS SealedVault, TLAPS

LEMMA WithInKeySets ==
  ASSUME NEW ks \in KeySets, NEW name \in Names, NEW secret \in Secrets
  PROVE  With(ks, name, secret) \in KeySets
  <1>1. PICK ns \in SUBSET Names : ks \in [ns -> Secrets]
    BY DEF KeySets
  <1>2. With(ks, name, secret) \in [ns \cup {name} -> Secrets]
    BY <1>1 DEF With
  <1> QED
    BY <1>1, <1>2 DEF KeySets

LEMMA NoKeysInKeySets == NoKeys \in KeySets
  BY DEF NoKeys, KeySets

LEMMA RangeInSecrets == \A ks \in KeySets : Range(ks) \subseteq Secrets
  BY DEF KeySets, Range

LEMMA RangeWith ==
  ASSUME NEW ks, NEW name, NEW secret
  PROVE  Range(With(ks, name, secret)) \subseteq Range(ks) \cup {secret}
  BY DEF With, Range

LEMMA FileKinds ==
  ASSUME NEW f \in Files
  PROVE  /\ f.keys \in KeySets
         /\ f.kind \in {"none", "damaged", "plain", "sealed"}
         /\ f.kind = "none" => f.keys = NoKeys
         /\ f.kind = "sealed" => f.under \in Passphrases
  BY NoKeysInKeySets DEF Files, NoFile, Damaged, Plain, Sealed

LEMMA MadeFiles ==
  ASSUME NEW ks \in KeySets, NEW pw \in Passphrases
  PROVE  /\ Plain(ks) \in Files /\ Plain(ks).keys = ks /\ Plain(ks).kind = "plain"
         /\ Sealed(pw, ks) \in Files /\ Sealed(pw, ks).keys = ks
         /\ Sealed(pw, ks).kind = "sealed" /\ Sealed(pw, ks).under = pw
  BY DEF Files, Plain, Sealed

SaveRecords ==
    [ call : {"none", "rotate", "write"}, name : Names \cup {None},
      file : Files, behind : BOOLEAN ]

LEMMA NoSaveTyped == NoSave \in SaveRecords
  BY DEF NoSave, SaveRecords, Files

----------------------------------------------------------------------------
(***************************************************************************)
(* What each step does to the memory of the processes.                      *)
(***************************************************************************)
LEMMA UnlockSteps ==
  ASSUME TypeOK, NEW p \in Procs, NEW pw \in Passphrases, Unlock(p, pw)
  PROVE  /\ Idle(p) /\ UNCHANGED <<file, saving>>
         /\ learned' = [learned EXCEPT ![p] = @ \cup Shows(pw)]
         /\ \/ /\ keys' = [keys EXCEPT ![p] = file.keys]
               /\ locked' = [locked EXCEPT ![p] = FALSE]
               /\ current' \in [Procs -> Passphrases \cup {None}]
               /\ \A q \in Procs \ {p} : current'[q] = current[q]
               /\ file.kind = "sealed" => current'[p] = file.under
               /\ behind' = behind \ {p}
               /\ file.kind # "damaged"
               /\ Range(file.keys) \subseteq Shows(pw)
            \/ UNCHANGED <<memory, behind>>
  <1>1. CASE file.kind = "none" /\ Opens(p, NoKeys, current[p])
    <2>1. file.keys = NoKeys
      BY <1>1, FileKinds DEF TypeOK
    <2>2. Range(NoKeys) = {}
      BY DEF NoKeys, Range
    <2> QED
      BY <1>1, <2>1, <2>2 DEF Unlock, Opens, Gives, TypeOK
  <1>2. CASE file.kind = "plain" /\ Opens(p, file.keys, None)
    BY <1>2 DEF Unlock, Opens, Gives, Shows, TypeOK
  <1>3. CASE file.kind = "sealed" /\ file.under = pw /\ Opens(p, file.keys, pw)
    BY <1>3 DEF Unlock, Opens, Gives, Shows, TypeOK
  <1>4. CASE UNCHANGED <<memory, behind>>
    BY <1>4 DEF Unlock, Gives
  <1> QED
    BY <1>1, <1>2, <1>3, <1>4 DEF Unlock

\* What a process that saves is about to put there.
LEMMA WriteSaves ==
  ASSUME TypeOK, NEW p \in Procs, NEW name \in Names, NEW secret \in Secrets,
         WriteKey(p, name, secret)
  PROVE  \E ks \in KeySets, f \in Files :
            /\ Idle(p) /\ ks = With(keys[p], name, secret) /\ f.keys = ks
            /\ f.kind \in {"plain", "sealed"}
            /\ current[p] # None => f.kind = "sealed" /\ f.under = current[p]
            /\ keys' = [keys EXCEPT ![p] = ks]
            /\ saving' = [saving EXCEPT ![p] =
                            [call |-> "write", name |-> name, file |-> f, behind |-> p \in behind]]
            /\ saving'[p] \in SaveRecords
            /\ learned' = [learned EXCEPT ![p] = @ \cup {secret}]
            /\ UNCHANGED <<file, locked, current, behind>>
  <1> DEFINE ks == With(keys[p], name, secret)
             f == IF current[p] = None THEN Plain(ks) ELSE Sealed(current[p], ks)
  <1>1. ks \in KeySets
    BY WithInKeySets DEF TypeOK
  <1>2. /\ f \in Files /\ f.keys = ks /\ f.kind \in {"plain", "sealed"}
        /\ current[p] # None => f.kind = "sealed" /\ f.under = current[p]
    <2>1. CASE current[p] = None
      BY <1>1, <2>1 DEF Files, Plain
    <2>2. CASE current[p] # None
      BY <1>1, <2>2, MadeFiles DEF TypeOK
    <2> QED
      BY <2>1, <2>2
  <1>0. /\ Idle(p) /\ keys' = [keys EXCEPT ![p] = ks]
        /\ learned' = [learned EXCEPT ![p] = @ \cup {secret}]
        /\ UNCHANGED <<file, locked, current, behind>>
    BY DEF WriteKey
  <1> HIDE DEF f
  <1>3. saving' = [saving EXCEPT ![p] =
                     [call |-> "write", name |-> name, file |-> f, behind |-> p \in behind]]
    BY DEF WriteKey, Saves, f
  <1>4. [call |-> "write", name |-> name, file |-> f, behind |-> p \in behind] \in SaveRecords
    <2>1. (p \in behind) \in BOOLEAN
      OBVIOUS
    <2> QED
      BY <1>2, <2>1, Zenon DEF SaveRecords
  <1>5. saving'[p] \in SaveRecords
    BY <1>3, <1>4 DEF TypeOK
  <1>6. ks = With(keys[p], name, secret)
    OBVIOUS
  <1> HIDE DEF ks
  <1> QED
    BY <1>0, <1>1, <1>2, <1>3, <1>5, <1>6

LEMMA RotateSaves ==
  ASSUME TypeOK, NEW p \in Procs, NEW pw \in Passphrases, Rotate(p, pw)
  PROVE  LET f == Sealed(pw, keys[p])
         IN  /\ Idle(p) /\ f \in Files /\ f.keys = keys[p] /\ f.kind = "sealed"
             /\ saving' = [saving EXCEPT ![p] =
                             [call |-> "rotate", name |-> None, file |-> f, behind |-> p \in behind]]
             /\ saving'[p] \in SaveRecords
             /\ UNCHANGED <<file, keys, locked, current, learned, behind>>
  <1> DEFINE f == Sealed(pw, keys[p])
  <1>1. f \in Files /\ f.keys = keys[p] /\ f.kind = "sealed"
    BY MadeFiles DEF TypeOK
  <1> HIDE DEF f
  <1>2. saving' = [saving EXCEPT ![p] =
                     [call |-> "rotate", name |-> None, file |-> f, behind |-> p \in behind]]
    BY DEF Rotate, Saves, f
  <1>3. [call |-> "rotate", name |-> None, file |-> f, behind |-> p \in behind] \in SaveRecords
    <2>1. (p \in behind) \in BOOLEAN
      OBVIOUS
    <2> QED
      BY <1>1, <2>1, Zenon DEF SaveRecords
  <1>4. saving'[p] \in SaveRecords
    BY <1>2, <1>3 DEF TypeOK
  <1> QED
    BY <1>1, <1>2, <1>4 DEF Rotate, memory, f

LEMMA SavedBefore ==
  ASSUME TypeOK, NEW p \in Procs, ~Idle(p)
  PROVE  saving[p].file \in Files
  BY DEF TypeOK, SaveRecords

----------------------------------------------------------------------------

LEMMA InitTypeOK == Init => TypeOK
  <1> SUFFICES ASSUME Init PROVE TypeOK
    OBVIOUS
  <1>1. saving \in [Procs -> SaveRecords]
    BY NoSaveTyped DEF Init
  <1>2. locked \in [Procs -> BOOLEAN]
    BY Zenon DEF Init
  <1> QED
    BY <1>1, <1>2, NoKeysInKeySets DEF Init, TypeOK, SaveRecords

LEMMA NextTypeOK == TypeOK /\ [Next]_vars => TypeOK'
  <1> SUFFICES ASSUME TypeOK, [Next]_vars PROVE TypeOK'
    OBVIOUS
  <1>s. TypeOK <=> /\ file \in Files
                   /\ keys \in [Procs -> KeySets]
                   /\ locked \in [Procs -> BOOLEAN]
                   /\ current \in [Procs -> Passphrases \cup {None}]
                   /\ saving \in [Procs -> SaveRecords]
                   /\ learned \in [Procs -> SUBSET Secrets]
                   /\ behind \subseteq Procs
    BY DEF TypeOK, SaveRecords
  <1>t. TypeOK' <=> /\ file' \in Files
                    /\ keys' \in [Procs -> KeySets]
                    /\ locked' \in [Procs -> BOOLEAN]
                    /\ current' \in [Procs -> Passphrases \cup {None}]
                    /\ saving' \in [Procs -> SaveRecords]
                    /\ learned' \in [Procs -> SUBSET Secrets]
                    /\ behind' \subseteq Procs
    BY DEF TypeOK, SaveRecords
  <1>1. ASSUME NEW p \in Procs, NEW pw \in Passphrases, Unlock(p, pw) PROVE TypeOK'
    <2>1. file.keys \in KeySets
      BY <1>s, FileKinds
    <2>2. Shows(pw) \subseteq Secrets
      BY <2>1, RangeInSecrets DEF Shows
    <2>3. keys' \in [Procs -> KeySets]
      BY <1>1, <1>s, <2>1, UnlockSteps DEF memory
    <2>4. locked' \in [Procs -> BOOLEAN]
      <3>1. locked' = locked \/ locked' = [locked EXCEPT ![p] = FALSE]
        BY <1>1, UnlockSteps DEF memory
      <3> QED
        BY <3>1, <1>s
    <2>5. current' \in [Procs -> Passphrases \cup {None}]
      BY <1>1, <1>s, UnlockSteps DEF memory
    <2>6. learned' \in [Procs -> SUBSET Secrets]
      BY <1>1, <1>s, <2>2, UnlockSteps
    <2>7. behind' \subseteq Procs /\ UNCHANGED <<file, saving>>
      BY <1>1, <1>s, UnlockSteps
    <2> QED
      BY <1>s, <1>t, <2>3, <2>4, <2>5, <2>6, <2>7
  <1>2. ASSUME NEW p \in Procs, NEW pw \in Passphrases, Rotate(p, pw) PROVE TypeOK'
    BY <1>2, <1>s, <1>t, RotateSaves
  <1>3. ASSUME NEW p \in Procs, NEW name \in Names, NEW secret \in Secrets,
               WriteKey(p, name, secret)
        PROVE  TypeOK'
    BY <1>3, <1>s, <1>t, WriteSaves
  <1>4. ASSUME NEW p \in Procs, Replace(p) PROVE TypeOK'
    <2>1. file' \in Files /\ (file'.kind = "sealed" => file'.under \in Passphrases)
      BY <1>4, SavedBefore, FileKinds DEF Replace
    <2>2. current' \in [Procs -> Passphrases \cup {None}] /\ locked' \in [Procs -> BOOLEAN]
      BY <1>4, <2>1, <1>s DEF Replace
    <2>3. saving' \in [Procs -> SaveRecords]
      BY <1>4, <1>s, NoSaveTyped DEF Replace
    <2> QED
      BY <1>4, <2>1, <2>2, <2>3, <1>s, <1>t DEF Replace
  <1>5. ASSUME NEW p \in Procs, Raises(p) PROVE TypeOK'
    BY <1>5, <1>s, <1>t, NoSaveTyped DEF Raises, memory
  <1>6. ASSUME NEW p \in Procs, Restart(p) PROVE TypeOK'
    BY <1>6, <1>s, <1>t, NoSaveTyped, NoKeysInKeySets DEF Restart
  <1>7. CASE UNCHANGED vars
    BY <1>7, <1>s, <1>t DEF vars, memory, history
  <1> QED
    BY <1>1, <1>2, <1>3, <1>4, <1>5, <1>6, <1>7 DEF Next, Step

\* The types hold for any processes, keys, secrets and passphrases.
THEOREM TypeCorrect == Spec => []TypeOK
  BY InitTypeOK, NextTypeOK, PTL DEF Spec

----------------------------------------------------------------------------

\* No process holds a key it was not shown.
THEOREM FailsClosed == Spec => []WrongPassphraseShowsNothing
  <1>1. Init => WrongPassphraseShowsNothing
    BY DEF Init, WrongPassphraseShowsNothing, NoKeys, Range
  <1>2. TypeOK /\ WrongPassphraseShowsNothing /\ [Next]_vars => WrongPassphraseShowsNothing'
    <2> SUFFICES ASSUME TypeOK, WrongPassphraseShowsNothing, [Next]_vars, NEW q \in Procs
                 PROVE  Range(keys'[q]) \subseteq learned'[q]
      BY DEF WrongPassphraseShowsNothing
    <2> DEFINE Goal == Range(keys'[q]) \subseteq learned'[q]
    <2>0. Range(keys[q]) \subseteq learned[q]
      BY DEF WrongPassphraseShowsNothing
    <2>1. ASSUME NEW p \in Procs, NEW pw \in Passphrases, Unlock(p, pw) PROVE Goal
      BY <2>0, <2>1, UnlockSteps DEF TypeOK, memory
    <2>2. ASSUME NEW p \in Procs, NEW pw \in Passphrases, Rotate(p, pw) PROVE Goal
      BY <2>0, <2>2, RotateSaves
    <2>3. ASSUME NEW p \in Procs, NEW name \in Names, NEW secret \in Secrets,
                 WriteKey(p, name, secret)
          PROVE  Goal
      <3>1. Range(With(keys[p], name, secret)) \subseteq Range(keys[p]) \cup {secret}
        BY RangeWith
      <3> QED
        BY <2>0, <2>3, <3>1, WriteSaves DEF TypeOK
    <2>4. ASSUME NEW p \in Procs, Replace(p) \/ Raises(p) PROVE Goal
      BY <2>0, <2>4 DEF Replace, Raises, memory
    <2>5. ASSUME NEW p \in Procs, Restart(p) PROVE Goal
      <3>1. Range(NoKeys) = {}
        BY DEF NoKeys, Range
      <3> QED
        BY <2>0, <2>5, <3>1 DEF Restart, TypeOK
    <2>6. CASE UNCHANGED vars
      BY <2>0, <2>6 DEF vars, memory, history
    <2> QED
      BY <2>1, <2>2, <2>3, <2>4, <2>5, <2>6 DEF Next, Step
  <1> QED
    BY <1>1, <1>2, TypeCorrect, PTL DEF Spec

----------------------------------------------------------------------------
(***************************************************************************)
(* A process that is not behind has the keys of the file, and its           *)
(* passphrase, from one call to the next; and while it saves, what it is    *)
(* about to put there differs from the file in the one key it writes.       *)
(***************************************************************************)
Holds(p) ==
    /\ file.kind # "damaged"
    /\ keys[p] = file.keys
    /\ file.kind = "sealed" => current[p] = file.under

Made(p) ==
    LET f == saving[p].file
    IN  /\ saving[p].call \in {"rotate", "write"}
        /\ f.kind \in {"plain", "sealed"}
        /\ f.keys = keys[p]

Extends(p) ==
    LET f == saving[p].file
    IN  /\ \A n \in DOMAIN file.keys \ {saving[p].name} :
              n \in DOMAIN f.keys /\ f.keys[n] = file.keys[n]
        /\ file.kind = "sealed" => f.kind = "sealed"
        /\ saving[p].call = "write" /\ file.kind = "sealed" => f.under = file.under

MemoryInv ==
    /\ TypeOK
    /\ \A p \in Procs :
          /\ ~Idle(p) => Made(p)
          /\ p \notin behind /\ (Idle(p) \/ saving[p].call = "rotate") => Holds(p)
          /\ p \notin behind /\ ~Idle(p) /\ ~saving[p].behind => Extends(p)

LEMMA InitMemory == Init => MemoryInv
  <1> SUFFICES ASSUME Init PROVE MemoryInv
    OBVIOUS
  <1>1. \A p \in Procs : p \notin behind => Holds(p)
    BY DEF Init, Holds, NoFile
  <1> QED
    BY <1>1, InitTypeOK DEF Init, MemoryInv, Idle

LEMMA NextMemory == MemoryInv /\ [Next]_vars => MemoryInv'
  <1> SUFFICES ASSUME MemoryInv, [Next]_vars, NEW q \in Procs
               PROVE  /\ (~Idle(q) => Made(q))'
                      /\ (q \notin behind /\ (Idle(q) \/ saving[q].call = "rotate") => Holds(q))'
                      /\ (q \notin behind /\ ~Idle(q) /\ ~saving[q].behind => Extends(q))'
    BY NextTypeOK DEF MemoryInv
  <1> DEFINE Goal == /\ (~Idle(q) => Made(q))'
                     /\ (q \notin behind /\ (Idle(q) \/ saving[q].call = "rotate") => Holds(q))'
                     /\ (q \notin behind /\ ~Idle(q) /\ ~saving[q].behind => Extends(q))'
  <1>0. /\ TypeOK
        /\ ~Idle(q) => Made(q)
        /\ q \notin behind /\ (Idle(q) \/ saving[q].call = "rotate") => Holds(q)
        /\ q \notin behind /\ ~Idle(q) /\ ~saving[q].behind => Extends(q)
    BY DEF MemoryInv
  <1> USE DEF Idle
  <1>b. ASSUME saving'[q] = saving[q], UNCHANGED file, keys'[q] = keys[q],
               current'[q] = current[q], q \in behind => q \in behind'
        PROVE  Goal
    BY <1>0, <1>b DEF Made, Holds, Extends
  <1>1. ASSUME NEW p \in Procs, NEW pw \in Passphrases, Unlock(p, pw) PROVE Goal
    <2>1. CASE UNCHANGED <<memory, behind>>
      BY <1>1, <1>b, <2>1, <1>0, UnlockSteps DEF memory
    <2>2. CASE q # p /\ ~UNCHANGED <<memory, behind>>
      BY <1>1, <1>b, <2>2, <1>0, UnlockSteps DEF TypeOK
    <2>3. CASE q = p /\ ~UNCHANGED <<memory, behind>>
      BY <1>1, <2>3, <1>0, UnlockSteps DEF TypeOK, Holds
    <2> QED
      BY <2>1, <2>2, <2>3
  <1>2. ASSUME NEW p \in Procs, NEW pw \in Passphrases, Rotate(p, pw) PROVE Goal
    <2>1. CASE q # p
      BY <1>2, <1>b, <2>1, <1>0, RotateSaves DEF TypeOK
    <2>2. CASE q = p
      BY <1>2, <2>2, <1>0, RotateSaves DEF TypeOK, Made, Holds, Extends
    <2> QED
      BY <2>1, <2>2
  <1>3. ASSUME NEW p \in Procs, NEW name \in Names, NEW secret \in Secrets,
               WriteKey(p, name, secret)
        PROVE  Goal
    <2>1. CASE q # p
      BY <1>3, <1>b, <2>1, <1>0, WriteSaves DEF TypeOK
    <2>2. CASE q = p
      <3>0. PICK ks \in KeySets, f \in Files :
               /\ Idle(p) /\ ks = With(keys[p], name, secret) /\ f.keys = ks
               /\ f.kind \in {"plain", "sealed"}
               /\ current[p] # None => f.kind = "sealed" /\ f.under = current[p]
               /\ keys' = [keys EXCEPT ![p] = ks]
               /\ saving' = [saving EXCEPT ![p] =
                     [call |-> "write", name |-> name, file |-> f, behind |-> p \in behind]]
               /\ UNCHANGED <<file, current, behind>>
        BY <1>3, <1>0, WriteSaves
      <3>1. saving'[p] = [call |-> "write", name |-> name, file |-> f, behind |-> p \in behind]
        BY <1>0, <3>0 DEF TypeOK
      <3>s. /\ saving'[p].call = "write" /\ saving'[p].name = name
            /\ saving'[p].file = f /\ saving'[p].behind = (p \in behind)
        BY <3>1
      <3>2. keys'[p] = ks
        BY <1>0, <3>0 DEF TypeOK
      <3>3. Made(q)'
        BY <2>2, <3>s, <3>0, <3>2 DEF Made
      <3>4. ASSUME p \notin behind PROVE Extends(q)'
        <4>1. Holds(p)
          BY <1>0, <2>2, <3>0, <3>4
        <4>2. /\ DOMAIN ks = DOMAIN file.keys \cup {name}
              /\ \A n \in DOMAIN file.keys \ {name} : ks[n] = file.keys[n]
          BY <4>1, <3>0 DEF With, Holds
        <4>3. file.kind = "sealed" => current[p] = file.under /\ file.under # None
          BY <1>0, <4>1, FileKinds, SealedAssumption DEF Holds, TypeOK
        <4> QED
          BY <2>2, <3>s, <3>0, <4>2, <4>3 DEF Extends
      <3>5. (~Idle(q))' /\ saving'[q].call # "rotate"
        BY <2>2, <3>s DEF NoSave
      <3> QED
        BY <2>2, <3>s, <3>0, <3>3, <3>4, <3>5
    <2> QED
      BY <2>1, <2>2
  <1>4. ASSUME NEW p \in Procs, Replace(p) PROVE Goal
    <2>1. CASE q # p
      BY <1>4, <2>1, <1>0 DEF Replace, TypeOK, Made
    <2>2. CASE q = p
      BY <1>4, <2>2, <1>0 DEF Replace, TypeOK, Made, Holds
    <2> QED
      BY <2>1, <2>2
  <1>5. ASSUME NEW p \in Procs, Raises(p) PROVE Goal
    <2>1. CASE q # p
      BY <1>5, <1>b, <2>1, <1>0 DEF Raises, memory, TypeOK
    <2>2. CASE q = p
      BY <1>5, <2>2, <1>0 DEF Raises, memory, TypeOK, Made, Holds
    <2> QED
      BY <2>1, <2>2
  <1>6. ASSUME NEW p \in Procs, Restart(p) PROVE Goal
    <2>1. CASE q # p
      BY <1>6, <1>b, <2>1, <1>0 DEF Restart, TypeOK
    <2>2. CASE q = p
      BY <1>6, <2>2, <1>0 DEF Restart, TypeOK, Holds, NoFile
    <2> QED
      BY <2>1, <2>2
  <1>7. CASE UNCHANGED vars
    BY <1>7, <1>b DEF vars, memory, history
  <1> QED
    BY <1>1, <1>2, <1>3, <1>4, <1>5, <1>6, <1>7 DEF Next, Step

LEMMA MemoryHolds == Spec => []MemoryInv
  BY InitMemory, NextMemory, PTL DEF Spec

\* Only Replace puts another file there, and it is the process's own.
LEMMA Replacing ==
  ASSUME MemoryInv, Next, NEW p \in Procs, file' # file, Replaces(p), UpToDate(p)
  PROVE  file' = saving[p].file /\ Extends(p) /\ Made(p)
  <1>1. ~Idle(p) /\ p \notin behind /\ ~saving[p].behind
    BY DEF UpToDate, Idle
  <1> QED
    BY <1>1 DEF MemoryInv, Replaces

\* The same for every vault, seen from the processes that are up to date.
THEOREM StaysSealed == Spec => SealedStaysSealed
  <1>1. MemoryInv /\ [Next]_vars =>
          [\A p \in Procs :
             file.kind = "sealed" /\ file' # file /\ Replaces(p) /\ UpToDate(p)
               => file'.kind = "sealed"]_vars
    BY Replacing DEF Extends
  <1> QED
    BY <1>1, MemoryHolds, PTL DEF Spec, SealedStaysSealed

\* No write loses a key of the file or its passphrase, and no rotation a key.
THEOREM NothingLost == Spec => KeysKept
  <1> DEFINE Kept == \A p \in Procs :
         file' # file /\ Replaces(p) /\ UpToDate(p) =>
           /\ \A n \in DOMAIN file.keys \ {saving[p].name} :
                 n \in DOMAIN file'.keys /\ file'.keys[n] = file.keys[n]
           /\ saving[p].call = "write" /\ file.kind = "sealed" => file'.under = file.under
  <1>1. MemoryInv /\ [Next]_vars => [Kept]_vars
    BY Replacing DEF Extends
  <1> QED
    BY <1>1, MemoryHolds, PTL DEF Spec, KeysKept
=============================================================================

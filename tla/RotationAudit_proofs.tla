------------------------ MODULE RotationAudit_proofs ------------------------
(***************************************************************************)
(* Proofs about KeyRotation, and about what RotationAudit has an auditor be *)
(* told of the receipts, for any number of keys and seconds.                *)
(***************************************************************************)
EXTENDS RotationAudit, FiniteSetTheorems, TLAPS

(***************************************************************************)
(* RotationInv: the local copy of the published document is current until   *)
(* the new one is published; by then it is in the archive.                  *)
(***************************************************************************)
BeforePublish == {"mint", "open_archive", "fill_archive", "publish"}

RotationInv ==
    /\ TypeOK
    /\ pc \in BeforePublish => oldDoc = IF published = Garbled THEN None ELSE published
    /\ pc \in {"open_archive", "fill_archive"} => oldDoc # None
    /\ pc \in {"open_archive", "fill_archive", "publish", "persist"} => newSeed \in Keys
    /\ pc = "publish" /\ oldDoc # None => archive[stamp] = oldDoc
    /\ pc = "persist" => published = newSeed

\* The sentinels are no keys.
LEMMA Sentinels ==
    /\ None \notin Keys /\ Garbled \notin Keys /\ Partial \notin Keys /\ None # Garbled
    /\ MaxKeys \in Nat /\ MaxSecond \in Nat /\ Keys \subseteq Nat
    /\ FirstSeed \in Keys \cup {None} /\ FirstDoc \in {FirstSeed, None, Garbled}
    /\ 0 \in Seconds
<1>1. Keys \subseteq Nat
  BY RotationAssumption DEF Keys
<1>2. 0 \in Seconds
  BY RotationAssumption DEF Seconds
<1> QED
  BY <1>1, <1>2, RotationAssumption

LEMMA InitRotation == Init => RotationInv
<1> SUFFICES ASSUME Init PROVE RotationInv
  OBVIOUS
<1>1. drawn \in 0 .. MaxKeys
  BY Sentinels DEF Init, Keys
<1> QED
  BY <1>1, Sentinels DEF Init, RotationInv, TypeOK, Steps, BeforePublish

LEMMA NextRotation == RotationInv /\ [Next]_vars => RotationInv'
<1> SUFFICES ASSUME RotationInv, [Next]_vars PROVE RotationInv'
  OBVIOUS
<1> USE Sentinels DEF RotationInv, TypeOK, Steps, BeforePublish, locals, Continues, Fails
<1>1. CASE ReadDoc
  BY <1>1 DEF ReadDoc
<1>2. CASE Mint
  <2>1. CASE drawn < MaxKeys /\ drawn' = drawn + 1
    <3>1. drawn + 1 \in Keys /\ drawn + 1 \in 0 .. MaxKeys
      BY <2>1 DEF Keys
    <3> QED
      BY <1>2, <2>1, <3>1 DEF Mint
  <2>2. CASE Fails /\ UNCHANGED <<drawn, newSeed, stamp>>
    BY <1>2, <2>2 DEF Mint
  <2> QED
    BY <1>2, <2>1, <2>2 DEF Mint
<1>3. CASE OpenArchive
  BY <1>3 DEF OpenArchive
<1>4. CASE FillArchive
  BY <1>4 DEF FillArchive
<1>5. CASE Publish
  BY <1>5 DEF Publish
<1>6. CASE Persist
  BY <1>6 DEF Persist
<1>7. CASE Sign
  <2>1. seed' \in Keys /\ drawn' \in 0 .. MaxKeys
    BY <1>7 DEF Sign, Keys
  <2> QED
    BY <1>7, <2>1 DEF Sign
<1>8. CASE Kill
  BY <1>8 DEF Kill
<1>9. CASE Tick
  <2>1. second' \in Seconds
    BY <1>9 DEF Tick, Seconds
  <2> QED
    BY <1>9, <2>1 DEF Tick
<1>10. CASE UNCHANGED vars
  BY <1>10 DEF vars
<1> QED
  BY <1>1, <1>2, <1>3, <1>4, <1>5, <1>6, <1>7, <1>8, <1>9, <1>10 DEF Next

LEMMA RotationInvariant == Spec => []RotationInv
  BY InitRotation, NextRotation, PTL DEF Spec

\* The types hold whatever the vault and the document are at the start.
THEOREM TypeCorrect == Spec => []TypeOK
<1>1. RotationInv => TypeOK
  BY DEF RotationInv
<1> QED
  BY <1>1, RotationInvariant, PTL

\* No rotation replaces a published key that it has not archived, faults or not.
THEOREM ArchivedFirst == Spec => ArchivedBeforeRetired
<1>1. RotationInv /\ [Next]_vars
        => [published' # published /\ published \in Keys => Archived(published)]_vars
  <2> SUFFICES ASSUME RotationInv, Next, published' # published, published \in Keys
               PROVE  Archived(published)
    OBVIOUS
  <2>1. Publish
    BY DEF Next, ReadDoc, Mint, OpenArchive, FillArchive, Persist, Sign, Kill, Tick, locals, Continues, Fails
  <2>2. archive[stamp] = published /\ stamp \in Seconds
    BY <2>1, Sentinels DEF Publish, Fails, RotationInv, TypeOK, BeforePublish
  <2> QED
    BY <2>2 DEF Archived
<1> QED
  BY <1>1, RotationInvariant, PTL DEF Spec, ArchivedBeforeRetired

----------------------------------------------------------------------------
(***************************************************************************)
(* CoverInv: with a key published from the start and no two rotations in    *)
(* one second, no archived document is ever overwritten.  The files of the  *)
(* seconds to come do not exist, and the one a rotation is about to write   *)
(* holds no document.                                                       *)
(***************************************************************************)
Covered(k) == k = published \/ Archived(k)

CoverInv ==
    /\ RotationInv
    /\ published \in Keys /\ seed \in Keys
    /\ Covered(seed)
    /\ \A k \in signed : Covered(k)
    /\ stamp <= second
    /\ \A s \in Seconds : s > second => archive[s] = None
    /\ pc = "mint" => archive[second] = None
    /\ pc \in {"open_archive", "fill_archive"} => archive[stamp] \notin Keys

LEMMA InitCover ==
  ASSUME FirstSeed \in Keys, FirstDoc = FirstSeed
  PROVE  Init => CoverInv
<1> SUFFICES ASSUME Init PROVE CoverInv
  OBVIOUS
<1>1. RotationInv
  BY InitRotation
<1> QED
  BY <1>1, Sentinels DEF Init, CoverInv, Covered, Seconds

\* What is covered stays covered while the published key stays and the archive
\* loses no document.
LEMMA CoverKept ==
  ASSUME CoverInv, published' = published,
         \A s \in Seconds : archive[s] \in Keys => archive'[s] = archive[s],
         NEW k \in Keys, Covered(k)
  PROVE  Covered(k)'
  BY DEF Covered, Archived

LEMMA NextCover ==
  ASSUME Spaced
  PROVE  CoverInv /\ [Next]_vars => CoverInv'
<1> SUFFICES ASSUME CoverInv, [Next]_vars PROVE CoverInv'
  OBVIOUS
<1>0. RotationInv'
  BY NextRotation DEF CoverInv
<1>t. TypeOK /\ TypeOK'
  BY <1>0 DEF CoverInv, RotationInv
<1>k. ASSUME published' = published,
             \A s \in Seconds : archive[s] \in Keys => archive'[s] = archive[s],
             seed' = seed, signed' = signed
      PROVE  Covered(seed)' /\ \A k \in signed' : Covered(k)'
  <2>1. Covered(seed)'
    <3>1. Covered(seed) /\ seed \in Keys
      BY DEF CoverInv
    <3> QED
      BY <1>k, <3>1 DEF Covered, Archived
  <2>2. ASSUME NEW k \in signed' PROVE Covered(k)'
    <3>1. k \in Keys /\ Covered(k)
      BY <1>k, <1>t, <2>2 DEF TypeOK, CoverInv
    <3> QED
      BY <1>k, <3>1, CoverKept
  <2> QED
    BY <2>1, <2>2
<1> USE Sentinels DEF locals, Continues, Fails
<1>1. CASE ReadDoc
  <2>1. archive[second] = None
    BY <1>1 DEF ReadDoc
  <2> QED
    BY <1>0, <1>1, <1>k, <2>1 DEF ReadDoc, CoverInv
<1>2. CASE Mint
  <2>1. second \in Nat /\ stamp' <= second
    BY <1>2, <1>t DEF Mint, TypeOK, Seconds, CoverInv
  <2>2. pc' \in {"open_archive", "fill_archive"} => archive[stamp'] \notin Keys
    BY <1>2 DEF Mint, CoverInv
  <2> QED
    BY <1>0, <1>2, <1>k, <2>1, <2>2 DEF Mint, CoverInv
<1>3. CASE OpenArchive
  <2>1. /\ archive \in [Seconds -> Keys \cup {None, Partial}]
        /\ stamp \in Seconds /\ second \in Seconds
        /\ archive[stamp] \notin Keys
        /\ \A s \in Seconds : s > second => s # stamp
    BY <1>3, <1>t DEF OpenArchive, TypeOK, CoverInv, Seconds
  <2>2. \A s \in Seconds : archive[s] \in Keys => archive'[s] = archive[s]
    BY <1>3, <2>1 DEF OpenArchive
  <2>3. \A s \in Seconds : s > second => archive'[s] = archive[s]
    BY <1>3, <2>1 DEF OpenArchive
  <2>4. pc' \in {"open_archive", "fill_archive"} => archive'[stamp] \notin Keys
    BY <1>3, <2>1 DEF OpenArchive
  <2> QED
    BY <1>0, <1>3, <1>k, <2>2, <2>3, <2>4 DEF OpenArchive, CoverInv
<1>4. CASE FillArchive
  <2>1. /\ archive \in [Seconds -> Keys \cup {None, Partial}]
        /\ stamp \in Seconds /\ second \in Seconds
        /\ archive[stamp] \notin Keys
        /\ \A s \in Seconds : s > second => s # stamp
    BY <1>4, <1>t DEF FillArchive, TypeOK, CoverInv, Seconds
  <2>2. \A s \in Seconds : archive[s] \in Keys => archive'[s] = archive[s]
    BY <1>4, <2>1 DEF FillArchive
  <2>3. \A s \in Seconds : s > second => archive'[s] = archive[s]
    BY <1>4, <2>1 DEF FillArchive
  <2> QED
    BY <1>0, <1>4, <1>k, <2>2, <2>3 DEF FillArchive, CoverInv
<1>5. CASE Publish
  <2>1. oldDoc = published /\ archive[stamp] = published /\ stamp \in Seconds
    BY <1>5, <1>t DEF Publish, TypeOK, CoverInv, RotationInv, BeforePublish
  <2>2. published' \in Keys
    BY <1>5 DEF Publish, CoverInv, RotationInv
  <2>3. ASSUME NEW k, Covered(k) PROVE Covered(k)'
    BY <1>5, <2>1, <2>3 DEF Publish, Covered, Archived
  <2> QED
    BY <1>0, <1>5, <2>2, <2>3 DEF Publish, CoverInv, Covered
<1>6. CASE Persist
  <2>1. published = newSeed
    BY <1>6 DEF Persist, CoverInv, RotationInv
  <2>2. Covered(seed)' /\ seed' \in Keys
    BY <1>6, <2>1 DEF Persist, CoverInv, Covered, Archived
  <2>3. ASSUME NEW k \in signed' PROVE Covered(k)'
    BY <1>6, <2>3 DEF Persist, CoverInv, Covered, Archived
  <2> QED
    BY <1>0, <1>6, <2>2, <2>3 DEF Persist, CoverInv
<1>7. CASE Sign
  <2>1. seed' = seed /\ signed' = signed \cup {seed}
    BY <1>7 DEF Sign, CoverInv
  <2>2. Covered(seed)'
    BY <1>7, <2>1 DEF Sign, CoverInv, Covered, Archived
  <2>3. ASSUME NEW k \in signed' PROVE Covered(k)'
    BY <1>7, <2>1, <2>3 DEF Sign, CoverInv, Covered, Archived
  <2> QED
    BY <1>0, <1>7, <2>1, <2>2, <2>3 DEF Sign, CoverInv
<1>8. CASE Kill
  BY <1>0, <1>8, <1>k DEF Kill, CoverInv
<1>9. CASE Tick
  <2>1. second \in Nat /\ second + 1 \in Seconds /\ stamp \in Nat
    BY <1>9, <1>t DEF Tick, TypeOK, Seconds
  <2>2. archive[second + 1] = None
    BY <2>1 DEF CoverInv
  <2>3. stamp <= second'
    BY <1>9, <2>1 DEF Tick, CoverInv
  <2>4. \A s \in Seconds : s > second' => archive[s] = None
    BY <1>9, <2>1 DEF Tick, CoverInv, Seconds
  <2> QED
    BY <1>0, <1>9, <1>k, <2>2, <2>3, <2>4 DEF Tick, CoverInv
<1>10. CASE UNCHANGED vars
  BY <1>0, <1>10, <1>k DEF vars, CoverInv
<1> QED
  BY <1>1, <1>2, <1>3, <1>4, <1>5, <1>6, <1>7, <1>8, <1>9, <1>10 DEF Next

\* Every receipt's key stays in a document of this install, through rotations
\* that fail or are killed anywhere, if the first key was published and the
\* user leaves a second between rotations.
THEOREM OldReceiptsVerify ==
  ASSUME Spaced, FirstSeed \in Keys, FirstDoc = FirstSeed
  PROVE  Spec => []OldReceiptsCovered
<1>1. Init => CoverInv
  BY InitCover
<1>2. CoverInv /\ [Next]_vars => CoverInv'
  BY NextCover
<1>3. CoverInv => OldReceiptsCovered
  BY DEF CoverInv, OldReceiptsCovered, Covered
<1> QED
  BY <1>1, <1>2, <1>3, PTL DEF Spec

----------------------------------------------------------------------------
(***************************************************************************)
(* The published key and the vault's agree, except between the two writes   *)
(* of a rotation and after one that stopped there.                          *)
(***************************************************************************)
AgreeInv ==
    /\ RotationInv
    /\ ~orphaned /\ pc # "persist" /\ published \in Keys => published = seed

LEMMA NextAgree == AgreeInv /\ [Next]_vars => AgreeInv'
<1> SUFFICES ASSUME AgreeInv, [Next]_vars PROVE AgreeInv'
  OBVIOUS
<1>1. RotationInv /\ RotationInv'
  BY NextRotation DEF AgreeInv
<1> USE DEF Continues, Fails
<1>2. CASE Publish
  BY <1>1, <1>2 DEF Publish, AgreeInv
<1>3. CASE Persist
  BY <1>1, <1>3 DEF Persist, AgreeInv, RotationInv
<1>4. CASE Sign
  BY <1>1, <1>4, Sentinels DEF Sign, AgreeInv, locals
<1>5. CASE Kill
  BY <1>1, <1>5 DEF Kill, AgreeInv
<1>6. CASE ReadDoc \/ Mint \/ OpenArchive \/ FillArchive \/ Tick \/ UNCHANGED vars
  BY <1>1, <1>6 DEF AgreeInv, ReadDoc, Mint, OpenArchive, FillArchive, Tick, vars
<1> QED
  BY <1>2, <1>3, <1>4, <1>5, <1>6 DEF Next

\* Whatever fails, the key published between rotations is the one that signs,
\* unless the last rotation that published one stopped before it stored the
\* seed.
THEOREM PublishedSigns == Spec => []PublishedKeySigns
<1>1. Init => AgreeInv
  BY InitRotation, Sentinels DEF Init, AgreeInv
<1>2. AgreeInv /\ [Next]_vars => AgreeInv'
  BY NextAgree
<1>3. AgreeInv => PublishedKeySigns
  BY DEF AgreeInv, PublishedKeySigns
<1> QED
  BY <1>1, <1>2, <1>3, PTL DEF Spec

----------------------------------------------------------------------------
(***************************************************************************)
(* The verdicts.  They are functions of a receipt and a key document, so    *)
(* what is said of them needs no invariant, but that the documents are keys *)
(* and that the one which signed a receipt is there.                        *)
(***************************************************************************)

\* A document an auditor may name, and what it reads as.
LEMMA Reads ==
  ASSUME NEW n \in Named PROVE n.given /\ n.doc \in Keys \cup {None}
  BY DEF Named, Read

\* The verdict on a receipt as it was signed.
LEMMA GenuineVerdict ==
  ASSUME NEW key \in Keys, NEW r \in Genuine[key], NEW n, n.given, n.doc \in Keys \cup {None}
  PROVE  /\ CmdVerify(r, n, Read(published)) = "valid" <=> n.doc = key
         /\ IsNested(r) => CmdVerify(r, n, Read(published)) # "invalid"
         /\ n.doc # None => Standalone(r, n.doc) = CmdVerify(r, n, Read(published))
         /\ ~IsNested(r) => CmdVerify(r, NoKey, Read(published)) = "valid"
<1> DEFINE body == Body(Disclosed)
<1>0. /\ None \notin Keys /\ None # body /\ None # Signature(key, body)
      /\ body.root = Merkle(body.leaves) /\ body.steps = Len(body.leaves)
  BY Sentinels, AuditAssumption DEF Body
<1>1. CASE r = Flat(body, key)
  <2>1. r.flat = Signature(key, body) /\ r.body = body /\ r.integrity = None
    BY <1>1 DEF Flat
  <2> HIDE DEF body
  <2>2. \A doc : Signs(r.flat, doc, r.body) <=> doc = key
    BY <2>1 DEF Signs, Signature
  <2>3. ~IsNested(r) /\ r.flat # None /\ r.flat.key = key
    BY <1>0, <2>1 DEF IsNested, Signature
  <2> QED
    BY <1>0, <2>2, <2>3 DEF CmdVerify, FlatVerdict, Standalone, NoKey
<1>2. ASSUME NEW schema \in {"studio", "dagrun", "agent"}, r = Nested(schema, body, key)
      PROVE  /\ CmdVerify(r, n, Read(published)) = "valid" <=> n.doc = key
             /\ CmdVerify(r, n, Read(published)) # "invalid"
             /\ n.doc # None => Standalone(r, n.doc) = CmdVerify(r, n, Read(published))
             /\ IsNested(r)
  <2>1. /\ r.block = Signature(key, body) /\ r.body = body /\ r.integrity = body
        /\ r.flat = None
    BY <1>2 DEF Nested
  <2>2. LeavesHold(r.body)
    BY <1>0, <2>1 DEF LeavesHold
  <2> HIDE DEF body
  <2>3. \A doc : Signs(r.block, doc, r.integrity) <=> doc = key
    BY <2>1 DEF Signs, Signature
  <2>4. IsNested(r) /\ r.block.key = key /\ r.integrity = r.body
    BY <1>0, <2>1 DEF IsNested, Signature
  <2> QED
    BY <1>0, <2>1, <2>2, <2>3, <2>4 DEF CmdVerify, StudioVerdict, Standalone
<1>3. r = Flat(body, key) \/ \E schema \in {"studio", "dagrun", "agent"} : r = Nested(schema, body, key)
  BY DEF Genuine
<1> QED
  BY <1>1, <1>2, <1>3

\* Some document of the install verifies each receipt it made, no other one does,
\* no receipt that names its key is called invalid, and the two verifiers say the
\* same, through rotations that fail or are killed anywhere (cmd_verify,
\* railcall_verify_standalone), under the conditions of OldReceiptsVerify.
THEOREM ReceiptsVerify ==
  ASSUME Spaced, FirstSeed \in Keys, FirstDoc = FirstSeed
  PROVE  Spec => []GenuineVerifies
<1>1. Init => CoverInv
  BY InitCover
<1>2. CoverInv /\ [Next]_vars => CoverInv'
  BY NextCover
<1>3. CoverInv => GenuineVerifies
  <2> SUFFICES ASSUME CoverInv, NEW key \in signed, NEW r \in Genuine[key]
               PROVE  /\ \E n \in Named : Verdict(r, n) = "valid"
                      /\ \A n \in Named :
                            /\ Verdict(r, n) = "valid" <=> n.doc = key
                            /\ IsNested(r) => Verdict(r, n) # "invalid"
                            /\ n.doc # None => Standalone(r, n.doc) = Verdict(r, n)
                      /\ ~IsNested(r) => Verdict(r, NoKey) = "valid"
    BY DEF GenuineVerifies
  <2>1. key \in Keys /\ Covered(key)
    BY DEF CoverInv, RotationInv, TypeOK
  <2>2. \E n \in Named : n.doc = key
    <3>1. key \in Documents
      BY <2>1 DEF Covered, Archived, Documents
    <3>2. [given |-> TRUE, doc |-> Read(key)] \in Named /\ Read(key) = key
      BY <2>1, <3>1 DEF Named, Read
    <3> QED
      BY <3>2
  <2>3. ASSUME NEW n \in Named
        PROVE  /\ Verdict(r, n) = "valid" <=> n.doc = key
               /\ IsNested(r) => Verdict(r, n) # "invalid"
               /\ n.doc # None => Standalone(r, n.doc) = Verdict(r, n)
               /\ ~IsNested(r) => Verdict(r, NoKey) = "valid"
    BY <2>1, Reads, GenuineVerdict DEF Verdict
  <2> QED
    BY <2>2, <2>3
<1> QED
  BY <1>1, <1>2, <1>3, PTL DEF Spec

\* A receipt that was changed after it was signed verifies under no document, but
\* for a Studio receipt with another body: nothing hashes that again.
LEMMA AlteredVerdict ==
  ASSUME NEW key \in Keys, NEW r \in Altered[key], NEW n, NEW installed,
         CmdVerify(r, n, installed) = "valid"
  PROVE  r.schema = "studio" /\ r.integrity # r.body
<1> DEFINE body == Body(Disclosed)
           edited == [body EXCEPT !.text = "edited"]
<1>1. body # edited
  BY DEF Body
<1>2. PICK g \in Genuine[key] : r \in {Edited(g), Resealed(g), Stripped(g)}
  BY DEF Altered
<1>3. ASSUME r.flat = None \/ ~Signs(r.flat, r.flat.key, r.body),
             ~IsNested(r) \/ ~Signs(r.block, r.block.key, r.integrity)
      PROVE  FALSE
  <2>1. ASSUME NEW doc, NEW k PROVE StudioVerdict(r, doc) = "valid" => Signs(r.block, r.block.key, r.integrity)
    BY DEF StudioVerdict
  <2>2. ASSUME NEW k PROVE FlatVerdict(r, k) = "valid" => r.flat # None /\ Signs(r.flat, r.flat.key, r.body)
    BY DEF FlatVerdict, Signs, Signature
  <2> QED
    BY <1>3, <2>1, <2>2 DEF CmdVerify
<1>4. CASE g = Flat(body, key)
  <2>1. /\ g.flat = Signature(key, body) /\ g.body = body
        /\ g = [schema |-> "cli", body |-> body, integrity |-> None,
                block |-> None, flat |-> Signature(key, body)]
    BY <1>4 DEF Flat
  <2> HIDE DEF body
  <2>2. Edited(g) = [schema |-> "cli", body |-> edited, integrity |-> None,
                     block |-> None, flat |-> Signature(key, body)]
    BY <2>1 DEF Edited
  <2>3. /\ ~IsNested(r)
        /\ r.flat = None \/ (r.flat = Signature(key, body) /\ r.body = edited)
    <3>1. CASE r = Edited(g)
      BY <2>2, <3>1 DEF IsNested
    <3>2. CASE r = Stripped(g)
      BY <2>1, <3>2 DEF Stripped, IsNested
    <3>3. CASE r = Resealed(g)
      <4>1. g.integrity = None
        BY <2>1
      <4>2. r = [Edited(g) EXCEPT !.integrity = None]
        BY <3>3, <4>1 DEF Resealed
      <4> QED
        BY <2>2, <4>2 DEF IsNested
    <3> QED
      BY <1>2, <3>1, <3>2, <3>3
  <2>4. r.flat = None \/ ~Signs(r.flat, r.flat.key, r.body)
    BY <1>1, <2>3 DEF Signs, Signature
  <2> QED
    BY <1>3, <2>3, <2>4
<1>5. ASSUME NEW schema \in {"studio", "dagrun", "agent"}, g = Nested(schema, body, key)
      PROVE  r.schema = "studio" /\ r.integrity # r.body
  <2>1. g = [schema |-> schema, body |-> body, integrity |-> body,
             block |-> Signature(key, body), flat |-> None]
    BY <1>5 DEF Nested
  <2> HIDE DEF body
  <2>2. r.flat = None /\ r.schema = schema
    BY <1>2, <2>1 DEF Edited, Resealed, Stripped
  <2>3. CASE r = Edited(g)
    <3>1. r.body = edited /\ r.integrity = body
      BY <2>1, <2>3 DEF Edited
    <3>2. schema \in Recomputed => CmdVerify(r, n, installed) # "valid"
      BY <1>1, <2>2, <3>1 DEF CmdVerify, StudioVerdict, FlatVerdict
    <3> QED
      BY <1>1, <2>2, <3>1, <3>2 DEF Recomputed
  <2>4. CASE r = Resealed(g)
    <3>1. r.block = Signature(key, body) /\ (r.integrity = edited \/ r.integrity = None)
      BY <2>1, <2>4 DEF Resealed, Edited
    <3>2. ~IsNested(r) \/ ~Signs(r.block, r.block.key, r.integrity)
      BY <1>1, <3>1 DEF IsNested, Signs, Signature
    <3> QED
      BY <1>3, <2>2, <3>2
  <2>5. CASE r = Stripped(g)
    <3>1. ~IsNested(r)
      BY <2>1, <2>5 DEF Stripped, IsNested
    <3> QED
      BY <1>3, <2>2, <3>1
  <2> QED
    BY <1>2, <2>3, <2>4, <2>5
<1>6. g = Flat(body, key) \/ \E schema \in {"studio", "dagrun", "agent"} : g = Nested(schema, body, key)
  BY DEF Genuine
<1> QED
  BY <1>4, <1>5, <1>6

\* The hashes over three leaves, as _merkle_v2 puts them together.
LEMMA RootOfThree ==
  ASSUME NEW x, NEW y, NEW z
  PROVE  Merkle(<<x, y, z>>) =
           <<2, 3, <<1, <<1, <<0, x>>, <<0, y>>>>, <<0, z>>>>>>
<1> DEFINE leaves == <<x, y, z>>
           ground == [i \in DOMAIN leaves |-> <<0, leaves[i]>>]
           joined == <<1, <<0, x>>, <<0, y>>>>
           Ups(f) == f = [l \in 0 .. 3 |-> IF l = 0 THEN ground ELSE Level(f[l - 1])]
           up == CHOOSE f : Ups(f)
<1>1. Levels(3) = 2
  <2>1. 2 ^ 0 = 1 /\ 2 ^ 1 = 2 /\ 2 ^ 2 = 4
    OBVIOUS
  <2>2. 2 \in 0 .. 3 /\ \A k \in 0 .. 3 : 2 ^ k >= 3 => 2 <= k
    BY <2>1
  <2>3. ASSUME NEW l \in 0 .. 3, 2 ^ l >= 3, \A k \in 0 .. 3 : 2 ^ k >= 3 => l <= k
        PROVE  l = 2
    <3>1. l <= 2
      BY <2>1, <2>3
    <3>2. l # 0 /\ l # 1
      <4>1. (l = 0 => 2 ^ l = 2 ^ 0) /\ (l = 1 => 2 ^ l = 2 ^ 1)
        BY Zenon
      <4> QED
        BY <2>1, <2>3, <4>1
    <3> QED
      BY <3>1, <3>2
  <2> QED
    BY <2>1, <2>2, <2>3 DEF Levels
<1>2. ground = <<<<0, x>>, <<0, y>>, <<0, z>>>>
  OBVIOUS
<1>3. Level(ground) = <<joined, <<0, z>>>>
  BY <1>2 DEF Level
<1>4. Level(<<joined, <<0, z>>>>) = <<<<1, joined, <<0, z>>>>>>
  BY DEF Level
<1>5. \E f : Ups(f)
  <2> DEFINE f == [l \in 0 .. 3 |->
                     IF l = 0 THEN ground
                     ELSE IF l = 1 THEN Level(ground)
                     ELSE IF l = 2 THEN Level(Level(ground))
                     ELSE Level(Level(Level(ground)))]
  <2> HIDE DEF ground
  <2>1. f[0] = ground /\ f[1] = Level(ground) /\ f[2] = Level(Level(ground))
    OBVIOUS
  <2>2. \A l \in 0 .. 3 : f[l] = IF l = 0 THEN ground ELSE Level(f[l - 1])
    BY <2>1
  <2>3. f = [l \in 0 .. 3 |-> f[l]]
    OBVIOUS
  <2> HIDE DEF f
  <2>4. [l \in 0 .. 3 |-> f[l]] =
           [l \in 0 .. 3 |-> IF l = 0 THEN ground ELSE Level(f[l - 1])]
    BY <2>2
  <2> QED
    BY <2>3, <2>4
<1>6. up[2] = Level(Level(ground))
  <2>1. Ups(up)
    BY <1>5
  <2> HIDE DEF ground, up
  <2>2. up[0] = ground /\ up[1] = Level(up[0]) /\ up[2] = Level(up[1])
    BY <2>1
  <2> QED
    BY <2>2
<1>7. Len(leaves) = 3 /\ leaves # <<>>
  OBVIOUS
<1>8. Merkle(leaves) = <<2, 3, up[2][1]>>
  BY <1>1, <1>7 DEF Merkle
<1> QED
  BY <1>3, <1>4, <1>6, <1>8

\* Other leaves than the disclosed ones give another root.
LEMMA RootIsOfLeaves ==
  ASSUME NEW leaves \in Leaves, leaves # Disclosed
  PROVE  Merkle(leaves) # Merkle(Disclosed)
<1>1. PICK m \in 0 .. 4 : leaves \in [1 .. m -> {"a", "b", "c"}]
  BY DEF Leaves, BoundedSeq, SeqOf
<1>2. Len(leaves) = m
  BY <1>1
<1>3. CASE m = 0
  <2>1. leaves = <<>>
    BY <1>1, <1>3
  <2> QED
    BY <2>1, AuditAssumption DEF Merkle
<1>4. CASE m = 3
  <2>1. leaves = <<leaves[1], leaves[2], leaves[3]>>
    BY <1>1, <1>4
  <2>2. leaves[1] # "a" \/ leaves[2] # "b" \/ leaves[3] # "c"
    BY <2>1 DEF Disclosed
  <2>3. /\ Merkle(leaves) = <<2, 3, <<1, <<1, <<0, leaves[1]>>, <<0, leaves[2]>>>>,
                                    <<0, leaves[3]>>>>>>
        /\ Merkle(Disclosed) = <<2, 3, <<1, <<1, <<0, "a">>, <<0, "b">>>>, <<0, "c">>>>>>
    BY <2>1, RootOfThree DEF Disclosed
  <2> QED
    BY <2>2, <2>3
<1>5. CASE m # 0 /\ m # 3
  <2>1. leaves # <<>>
    BY <1>1, <1>5
  <2>2. Merkle(leaves)[2] = m
    BY <1>2, <2>1 DEF Merkle
  <2>3. Merkle(Disclosed)[2] = 3
    BY RootOfThree DEF Disclosed
  <2> QED
    BY <1>5, <2>2, <2>3
<1> QED
  BY <1>3, <1>4, <1>5

\* A credential of one key attests no receipt of another, none of a stranger's
\* making does, and none outside its time (_verify_identity_credential).
LEMMA CredentialIsOfSigner ==
  ASSUME NEW station, NEW d, NEW signer, NEW created \in {1, 3, None},
         LET body == [station |-> station, window |-> 1 .. 2]
         IN  IdentityVerdict([body |-> body, signature |-> Signature(signer, body)],
                             created, d, Issuer) = "attested"
  PROVE  station = d /\ signer = Issuer /\ created # 3
<1> DEFINE body == [station |-> station, window |-> 1 .. 2]
<1>1. /\ Signs(Signature(signer, body), Issuer, body)
      /\ station = d
      /\ created # None => created \in 1 .. 2
  BY AuditAssumption DEF IdentityVerdict
<1>2. signer = Issuer
  BY <1>1 DEF Signs, Signature
<1>3. 3 # None
  BY RotationAssumption
<1> QED
  BY <1>1, <1>2, <1>3

\* Whatever document is trusted, no receipt that was changed verifies, nor one whose
\* leaves do not give its root, but for a Studio receipt with another body, and the
\* credential of one key attests no receipt of another (_verify_studio_receipt,
\* cmd_verify, _verify_identity_credential).
THEOREM ChangesAreCaught == Spec => []AlteredIsCaught
<1>1. RotationInv => AlteredIsCaught
  <2> SUFFICES ASSUME RotationInv PROVE AlteredIsCaught
    OBVIOUS
  <2>1. signed \subseteq Keys
    BY DEF RotationInv, TypeOK
  <2>2. ASSUME NEW key \in signed, NEW n \in Named \cup {NoKey}, NEW r \in Altered[key],
               Verdict(r, n) = "valid"
        PROVE  r.schema = "studio" /\ r.integrity # r.body
    BY <2>1, <2>2, AlteredVerdict DEF Verdict
  <2>3. ASSUME NEW key \in signed, NEW n \in Named \cup {NoKey}, NEW r \in Misderived[key]
        PROVE  Verdict(r, n) # "valid"
    <3>1. PICK leaves \in Leaves \ {Disclosed} : r = Nested("agent", Body(leaves), key)
      BY <2>1 DEF Misderived
    <3>2. /\ r.schema = "agent" /\ r.flat = None
          /\ r.body.root = Merkle(Disclosed) /\ r.body.leaves = leaves
      BY <3>1 DEF Nested, Body
    <3>3. ~LeavesHold(r.body)
      BY <3>2, RootIsOfLeaves DEF LeavesHold
    <3>4. \A doc : StudioVerdict(r, doc) = "altered"
      BY <3>2, <3>3 DEF StudioVerdict
    <3> QED
      BY <3>2, <3>4 DEF Verdict, CmdVerify, FlatVerdict
  <2>4. ASSUME NEW station \in Keys, NEW d \in Documents \cap Keys,
               NEW signer \in {Issuer, Stranger}, NEW created \in {1, 3, None},
               LET body == [station |-> station, window |-> 1 .. 2]
               IN  IdentityVerdict([body |-> body, signature |-> Signature(signer, body)],
                                   created, d, Issuer) = "attested"
        PROVE  station = d /\ signer = Issuer /\ created # 3
    BY <2>4, CredentialIsOfSigner
  <2> QED
    BY <2>2, <2>3, <2>4 DEF AlteredIsCaught
<1> QED
  BY <1>1, RotationInvariant, PTL

----------------------------------------------------------------------------
(* The team block.                                                          *)

AgreedOn(block, receipt) ==
    { a \in block.manifest.approvers :
        [by |-> a, signature |-> Signature(a, receipt)] \in ToSet(block.approvals) }

\* No two approvals that count are by one key, however often a key approved.
LEMMA FirstsAreDistinct ==
  ASSUME NEW T, NEW approvals \in Seq(T),
         NEW c \in Firsts(approvals), NEW d \in Firsts(approvals), c.by = d.by
  PROVE  c = d
<1>1. PICK i \in DOMAIN approvals :
        c = approvals[i] /\ \A k \in 1 .. i - 1 : approvals[k].by # approvals[i].by
  BY DEF Firsts
<1>2. PICK j \in DOMAIN approvals :
        d = approvals[j] /\ \A k \in 1 .. j - 1 : approvals[k].by # approvals[j].by
  BY DEF Firsts
<1>3. i \in Nat \ {0} /\ j \in Nat \ {0}
  OBVIOUS
<1>4. ~(i < j) /\ ~(j < i)
  BY <1>1, <1>2, <1>3
<1> QED
  BY <1>1, <1>2, <1>3, <1>4

\* Whoever the approvers are and whatever was sent: a confirmed approval has the
\* root's signature on the approvers, and as many of them as the quorum says, one at
\* the least, signed for this receipt (_verify_team_approval).
LEMMA ApprovedMeansAgreed ==
  ASSUME NEW Names, NEW Signatures, NEW block, NEW receipt,
         IsFiniteSet(block.manifest.approvers),
         block.approvals \in Seq([by : Names, signature : Signatures]),
         block.quorum \in Int \cup {None},
         TeamVerdict(block, receipt) = "approved"
  PROVE  LET quorum == IF block.quorum \in {None, 0} THEN 1 ELSE block.quorum
         IN  /\ Signs(block.manifest.signature, block.manifest.root, block.manifest.approvers)
             /\ block.action = receipt
             /\ quorum >= 1
             /\ IsFiniteSet(AgreedOn(block, receipt))
             /\ Cardinality(AgreedOn(block, receipt)) >= quorum
<1> DEFINE quorum == IF block.quorum \in {None, 0} THEN 1 ELSE block.quorum
           counted == Firsts(block.approvals)
           agreed == AgreedOn(block, receipt)
           signer == [c \in counted |-> c.by]
<1>1. /\ Signs(block.manifest.signature, block.manifest.root, block.manifest.approvers)
      /\ block.action = receipt
      /\ \A a \in counted :
            a.by \in block.manifest.approvers /\ Signs(a.signature, a.by, receipt)
      /\ quorum >= 1
      /\ Cardinality(counted) >= quorum
  BY DEF TeamVerdict
<1>2. IsFiniteSet(agreed)
  BY FS_Subset DEF AgreedOn
<1>3. ASSUME NEW c \in counted PROVE c.by \in agreed
  <2>1. PICK i \in DOMAIN block.approvals : c = block.approvals[i]
    BY DEF Firsts
  <2>2. c \in ToSet(block.approvals)
    BY <2>1 DEF ToSet
  <2>3. c = [by |-> c.by, signature |-> c.signature]
    <3> DEFINE T == [by : Names, signature : Signatures]
    <3>1. block.approvals \in Seq(T)
      OBVIOUS
    <3>2. \A t \in T : t = [by |-> t.by, signature |-> t.signature]
      OBVIOUS
    <3> HIDE DEF T
    <3> QED
      BY <2>1, <3>1, <3>2
  <2> QED
    BY <1>1, <2>2, <2>3 DEF AgreedOn, Signs
<1>4. signer \in Injection(counted, agreed)
  <2>1. signer \in [counted -> agreed]
    BY <1>3
  <2>2. ASSUME NEW c \in counted, NEW d \in counted, signer[c] = signer[d] PROVE c = d
    BY <2>2, FirstsAreDistinct
  <2> QED
    BY <2>1, <2>2 DEF Injection, IsInjective
<1>5. IsFiniteSet(counted) /\ Cardinality(counted) <= Cardinality(agreed)
  BY <1>2, <1>4, FS_Injection
<1>6. /\ Cardinality(counted) \in Nat /\ Cardinality(agreed) \in Nat
      /\ quorum \in Int
  BY <1>2, <1>5, FS_CardinalityType
<1>7. Cardinality(agreed) >= quorum
  BY <1>1, <1>5, <1>6
<1> QED
  BY <1>1, <1>2, <1>7

\* A team's approval is confirmed only when as many of its approvers as the quorum
\* says, and one at the least, signed the decision on this very receipt.
THEOREM TeamQuorum == Spec => []TeamNeedsQuorum
<1>1. ASSUME NEW block \in TeamBlocks, TeamVerdict(block, "this") = "approved"
      PROVE  /\ block.manifest.signature.key = Root
             /\ AgreedOn(block, "this") # {}
             /\ block.quorum # None => Cardinality(AgreedOn(block, "this")) >= block.quorum
  <2>1. PICK root \in {Root, Stranger}, action \in {"this", "other"},
             approvals \in BoundedSeq(Approvals, 2), quorum \in {None, -1, 0, 1, 2, 3} :
          block = [manifest |-> [root |-> Root, approvers |-> Approvers,
                                 signature |-> Signature(root, Approvers)],
                   action |-> action, approvals |-> approvals, quorum |-> quorum]
    BY DEF TeamBlocks
  <2> DEFINE T == [by : {Alice, Bob, Stranger},
                   signature : [key : {Alice, Bob}, over : {"this", "other"}]]
  <2>2. PICK m \in 0 .. 2 : approvals \in [1 .. m -> Approvals]
    BY DEF BoundedSeq, SeqOf
  <2>3. Approvals \subseteq T
    BY DEF Approvals, Signature
  <2>4. approvals \in Seq(T)
    <3> HIDE DEF T
    <3>1. approvals \in [1 .. m -> T] /\ m \in Nat
      BY <2>2, <2>3
    <3> QED
      BY <3>1
  <2>5. IsFiniteSet(Approvers)
    <3>1. IsFiniteSet({Alice}) /\ IsFiniteSet({Bob}) /\ Approvers = {Alice} \cup {Bob}
      BY FS_Singleton DEF Approvers
    <3> QED
      BY <3>1, FS_Union
  <2>6. /\ block.manifest.approvers = Approvers /\ block.approvals = approvals
        /\ block.quorum = quorum /\ block.manifest.root = Root
        /\ quorum \in Int \cup {None}
    BY <2>1
  <2> DEFINE least == IF quorum \in {None, 0} THEN 1 ELSE quorum
  <2>7. /\ Signs(block.manifest.signature, Root, Approvers)
        /\ least >= 1
        /\ IsFiniteSet(AgreedOn(block, "this"))
        /\ Cardinality(AgreedOn(block, "this")) >= least
    BY <1>1, <2>4, <2>5, <2>6, ApprovedMeansAgreed
  <2>8. block.manifest.signature.key = Root
    BY <2>7 DEF Signs, Signature
  <2>9. Cardinality(AgreedOn(block, "this")) \in Nat
    BY <2>7, FS_CardinalityType
  <2>10. AgreedOn(block, "this") # {}
    <3>1. least \in Int
      BY <2>6
    <3>2. Cardinality(AgreedOn(block, "this")) # 0
      BY <2>7, <2>9, <3>1
    <3> QED
      BY <3>2, FS_EmptySet
  <2>11. ASSUME quorum # None PROVE Cardinality(AgreedOn(block, "this")) >= quorum
    BY <2>6, <2>7, <2>9, <2>11
  <2> QED
    BY <2>6, <2>8, <2>10, <2>11
<1>2. \A block \in TeamBlocks : block.manifest.approvers = Approvers
  BY DEF TeamBlocks
<1>3. TeamNeedsQuorum
  BY <1>1, <1>2 DEF TeamNeedsQuorum, AgreedByQuorum, AgreedOn
<1> QED
  BY <1>3, PTL

=============================================================================

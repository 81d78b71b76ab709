------------------------- MODULE GovernedRun_proofs -------------------------
(***************************************************************************)
(* Proofs about GovernedRun, for any runs, any policy engine, any clock and *)
(* any faults.  What holds however the runs overlap rests on Inv: the types *)
(* of the shared state, and for each run what its place says of it.  What   *)
(* the code promises of runs that follow each other rests on Sequential as  *)
(* well, and is stated for ~Concurrent.                                     *)
(***************************************************************************)
EXTENDS GovernedRun, FiniteSetTheorems, WellFoundedInduction, TLAPS

USE RunAssumption

----------------------------------------------------------------------------
(* Types.                                                                   *)

Flows == {None} \cup UNION {Requests[k] : k \in Kinds}

Outcomes == {"ok", "blocked", "model_error", "unparsable"}

Chains ==
    {<<>>} \cup { <<[approver_pubkey |-> k, approver_authority_level |-> a]>> :
                    k \in Nat, a \in Authorities }

Receipts ==
    [run : Runs, try : Nat, result : Outcomes, approval_chain : Chains, signer : Seeds]

Names == [dir : {"archive", "history"}, schema : Schemas, second : Nat, n : Nat]

Jobs ==
    [ ctx : Flows, runs : Nat, minting : Seeds, approver : Seeds,
      result : Outcomes \cup {None}, tries : Nat, receipt : Receipts \cup {None},
      copy : Receipts \cup {None}, name : Names \cup {None},
      count : Nat, inode : Nat ]

Lines == [run : Runs, command : Kinds, receipt : Receipts, history : Names \cup {None}]

Typed ==
    /\ pc \in [Runs -> Places]
    /\ job \in [Runs -> Jobs]
    /\ vault \in Seeds /\ minted \in Nat
    /\ saved \subseteq Receipts
    /\ canonical \in [Schemas -> saved \cup {None}]
    /\ IsFiniteSet(DOMAIN shelf) /\ DOMAIN shelf \subseteq Names
    /\ \A n \in DOMAIN shelf : shelf[n] \in saved \cup {Partial}
    /\ auditLog \subseteq Lines
    /\ \A line \in auditLog : line.receipt \in saved
    /\ {token, tmp} \subseteq Nat \cup {None, Partial, Torn}
    /\ renames \in Nat /\ contested \subseteq Runs /\ overtaken \subseteq Runs
    /\ balance \in Nat
    /\ charges \in [Runs -> Nat]
    /\ second \in Nat

----------------------------------------------------------------------------
(* What the place of a run says.                                            *)

\* After SaveReceipt has stored the receipt.
Stored == { "archive", "open", "fill", "history", "probe", "keep", "log",
            "charge", "tally", "write_tally", "fill_charge", "replace_charge", "meter" }

\* From the receipt's body on.
Drafted == Stored \cup {"sign", "save"}

\* After the local count, of a build or an interpret.
Late == {"history", "probe", "keep", "log"}

\* Which kind of run gets where.
Fits(r) ==
    /\ pc[r] \in {"token", "balance", "stamp", "fill_stamp", "replace_stamp", "check",
                  "charge"} => Kind[r] \in {"build", "interpret"}
    /\ pc[r] \in {"archive", "open", "fill"} => Kind[r] # "audit"
    /\ pc[r] \in {"tally", "write_tally"} => Kind[r] = "audit"
    /\ pc[r] \in Late \cup {"fill_charge", "replace_charge", "meter"} => Cli(r)
    /\ pc[r] \in {"stamp", "fill_stamp", "replace_stamp", "meter"} => Metered

\* What a run holds.
Holds(r) ==
    /\ pc[r] = "idle" => job[r] = Blank
    /\ pc[r] \in Drafted =>
          /\ job[r].receipt \in Receipts
          /\ job[r].receipt.run = r
          /\ job[r].receipt.result = job[r].result
          /\ job[r].result \in Results(r)
    /\ pc[r] \in {"charge", "tally", "write_tally", "fill_charge", "replace_charge", "meter"}
          => job[r].result = "ok"
    /\ pc[r] \in Stored => job[r].receipt \in saved /\ canonical[Schema(r)] \in saved
    /\ pc[r] \in {"probe", "keep", "log"} => job[r].copy \in saved
    /\ pc[r] \in {"open", "fill", "keep"} => job[r].name \in Names

\* A trial that is depleted does not get to the work (CheckBalance), and what is
\* written after it is one run less.
Solvent(r) ==
    /\ Kind[r] \in {"build", "interpret"}
       /\ pc[r] \in {"input", "approve", "assemble", "sign", "save", "archive", "open",
                     "fill", "charge"}
       => job[r].runs > 0
    /\ pc[r] \in {"fill_charge", "replace_charge"} =>
          /\ job[r].count <= job[r].runs
          /\ Kind[r] # "audit" => job[r].count = job[r].runs - 1

\* The gate comes first.
Gated(r) == pc[r] \notin {"idle", "rejected"} => Decision(r).allow

Untraced(r) ==
    /\ \A rc \in saved : rc.run # r
    /\ \A line \in auditLog : line.run # r
    /\ charges[r] = 0

Booked(r) ==
    /\ pc[r] \in Ended \/ (pc[r] \in Late /\ Kind[r] # "audit")
    /\ charges[r] = 1
    /\ \E rc \in saved : rc.run = r /\ rc.result = "ok"

Local(r) ==
    /\ Fits(r) /\ Holds(r) /\ Solvent(r) /\ Gated(r)
    /\ pc[r] \in {"idle", "rejected"} => Untraced(r)
    /\ charges[r] > 0 => Booked(r)

Inv == Typed /\ \A r \in Runs : Local(r)

----------------------------------------------------------------------------
(* The token, until two runs are in write_token at the same time.           *)

InWrite(r) == pc[r] \in TokenWrites

Clean ==
    contested = {} =>
        /\ token \in Nat \cup {None}
        /\ \A q, r \in Runs : InWrite(q) /\ InWrite(r) => q = r
        /\ \A r \in Runs : pc[r] \in {"fill_stamp", "fill_charge"} =>
              job[r].inode = renames /\ tmp = Partial
        /\ \A r \in Runs : pc[r] \in {"replace_stamp", "replace_charge"} =>
              tmp = job[r].count

----------------------------------------------------------------------------
(* Whose receipt the fixed name holds, and the log tells of.                *)

\* A run that has its line in the log saves no receipt any more.
AfterLine(r) ==
    \/ pc[r] \in Ended
    \/ /\ Kind[r] = "audit"
       /\ pc[r] \in {"tally", "write_tally", "fill_charge", "replace_charge", "meter"}

Owner(r) ==
    /\ pc[r] \in Stored => canonical[Schema(r)].run = r \/ r \in overtaken
    /\ pc[r] \in {"probe", "keep", "log"} => job[r].copy.run = r \/ r \in overtaken
    /\ \A line \in auditLog :
          line.run = r => AfterLine(r) /\ (line.receipt.run = r \/ r \in overtaken)

----------------------------------------------------------------------------
(* Runs that follow each other.                                             *)

Active(r) == pc[r] \notin Ended \cup {"idle"}

\* Every seed in a receipt is the vault's.
OfVault(rc) ==
    /\ rc.signer \in {None, vault}
    /\ \A i \in DOMAIN rc.approval_chain :
          vault # None /\ rc.approval_chain[i].approver_pubkey = vault

\* What the run that is under way may count on.
Own(r) ==
    /\ job[r].minting # None => pc[r] \in {"approve", "sign"} /\ vault = None
    /\ job[r].approver \in {None, vault}
    /\ pc[r] \in Drafted => OfVault(job[r].receipt)
    /\ pc[r] \in Stored => canonical[Schema(r)] = job[r].receipt
    /\ pc[r] \in {"probe", "keep", "log"} => job[r].copy = job[r].receipt
    /\ pc[r] \in {"open", "keep"} => job[r].name \notin DOMAIN shelf
    /\ pc[r] = "fill" =>
          /\ job[r].name \in DOMAIN shelf /\ shelf[job[r].name] = Partial
          /\ \A line \in auditLog : line.history # None => line.history # job[r].name
    /\ pc[r] = "log" /\ job[r].name # None =>
          job[r].name \in DOMAIN shelf /\ shelf[job[r].name] = job[r].copy
    /\ ~Metered /\ Kind[r] \in {"build", "interpret"} /\ pc[r] \notin Late \cup {"token"} =>
          token = job[r].runs
    /\ pc[r] \in {"write_tally", "fill_charge", "replace_charge"} /\ ~Metered =>
          token = job[r].runs

Sequential ==
    /\ \A q, r \in Runs : Active(q) /\ Active(r) => q = r
    /\ \A r \in Runs : Active(r) => Own(r)
    /\ \A rc \in saved : OfVault(rc)
    /\ LoggedProofKept
----------------------------------------------------------------------------
(* Helpers.                                                                 *)

\* A set of natural numbers has a least element.
LEMMA Least ==
  ASSUME NEW S, S \subseteq Nat, S # {}
  PROVE  \E i \in S : \A j \in S : i <= j
<1> DEFINE R == OpToRel(<, Nat)
<1>1. IsWellFoundedOn(R, Nat)
  BY NatLessThanWellFounded
<1> HIDE DEF R
<1>2. PICK i \in S : \A j \in S : ~(<<j, i>> \in R)
  BY <1>1, WFMin
<1>3. \A j \in S : i <= j
  <2> SUFFICES ASSUME NEW j \in S PROVE i <= j
    OBVIOUS
  <2>1. i \in Nat /\ j \in Nat /\ ~(<<j, i>> \in R)
    BY <1>2
  <2>2. ~(j < i)
    BY <2>1 DEF R, OpToRel
  <2> QED
    BY <2>1, <2>2
<1> QED
  BY <1>2, <1>3

\* There are more numbers to try than files, so the probe for a free name ends
\* with one (_archive_receipt, _archive_and_log).
LEMMA FreeNameIsFree ==
  ASSUME IsFiniteSet(DOMAIN shelf), NEW dir, NEW r
  PROVE  /\ FreeName(dir, r) \notin DOMAIN shelf
         /\ \E n \in Nat : FreeName(dir, r) = Name(dir, r, n)
<1> DEFINE D == DOMAIN shelf
           N == Cardinality(D)
           free == {n \in 0 .. N : Name(dir, r, n) \notin D}
<1>1. N \in Nat /\ IsFiniteSet(D)
  BY FS_CardinalityType
<1>2. free # {}
  <2> SUFFICES ASSUME free = {} PROVE FALSE
    OBVIOUS
  <2> DEFINE I == 0 .. N
             f == [n \in I |-> Name(dir, r, n)]
  <2>1. f \in [I -> D]
    OBVIOUS
  <2>2. IsFiniteSet(I) /\ Cardinality(I) = N + 1
    BY <1>1, FS_Interval, SMT
  <2>3. Cardinality(D) < Cardinality(I)
    BY <1>1, <2>2
  <2>4. \A x, y \in I : x # y => f[x] # f[y]
    BY DEF Name
  <2> HIDE DEF f, I, D
  <2>5. \E x, y \in I : x # y /\ f[x] = f[y]
    BY <1>1, <2>1, <2>2, <2>3, FS_PigeonHole
  <2> QED
    BY <2>4, <2>5
<1>3. \E n \in free : \A m \in free : n <= m
  <2>1. free \subseteq Nat
    BY <1>1
  <2> HIDE DEF free
  <2> QED
    BY <1>2, <2>1, Least
<1>4. PICK n \in free : n = CHOOSE k \in free : \A m \in free : k <= m
  BY <1>3
<1>5. FreeName(dir, r) = Name(dir, r, n)
  BY <1>4 DEF FreeName
<1>6. n \in Nat /\ Name(dir, r, n) \notin D
  BY <1>1
<1> QED
  BY <1>5, <1>6

\* The entries of a receipt's approval chain carry the key it was made with.
LEMMA ChainIsOfKey ==
  ASSUME NEW decision, NEW dry_run, NEW key \in Seeds
  PROVE  /\ ApprovalChain(decision, dry_run, key) \in Chains
         /\ \A i \in DOMAIN ApprovalChain(decision, dry_run, key) :
               /\ key # None
               /\ ApprovalChain(decision, dry_run, key)[i].approver_pubkey = key
<1>1. CASE ApprovalChain(decision, dry_run, key) = <<>>
  BY <1>1 DEF Chains
<1>2. CASE ApprovalChain(decision, dry_run, key) # <<>>
  <2>1. /\ key # None /\ key \in Nat /\ decision.authority_level \in Authorities
        /\ ApprovalChain(decision, dry_run, key)
             = <<[approver_pubkey |-> key,
                  approver_authority_level |-> decision.authority_level]>>
    BY <1>2 DEF ApprovalChain, Seeds
  <2> QED
    BY <2>1 DEF Chains
<1> QED
  BY <1>1, <1>2
----------------------------------------------------------------------------
(* Types are kept.                                                          *)

LEMMA InitInv == Init => Inv
<1> SUFFICES ASSUME Init PROVE Inv
  OBVIOUS
<1>1. Blank \in Jobs
  BY DEF Blank, Jobs, Flows, Seeds
<1>2. Typed
  <2>1. IsFiniteSet(DOMAIN shelf) /\ DOMAIN shelf = {}
    BY FS_EmptySet DEF Init
  <2> QED
    BY <1>1, <2>1 DEF Init, Typed, Places, Seeds
<1>3. ASSUME NEW r \in Runs PROVE Local(r)
  BY DEF Init, Local, Fits, Holds, Solvent, Gated, Untraced, Ended, Late, Drafted, Stored
<1> QED
  BY <1>2, <1>3 DEF Inv

\* What the fields of a run's job take.
LEMMA SetTyped ==
  ASSUME NEW r \in Runs, job \in [Runs -> Jobs]
  PROVE  /\ \A v \in Flows : Set(r, "ctx", v) => job' \in [Runs -> Jobs]
         /\ \A v \in Nat : Set(r, "runs", v) => job' \in [Runs -> Jobs]
         /\ \A v \in Seeds : Set(r, "minting", v) => job' \in [Runs -> Jobs]
         /\ \A v \in Receipts : Set(r, "copy", v) => job' \in [Runs -> Jobs]
         /\ \A v \in Names \cup {None} : Set(r, "name", v) => job' \in [Runs -> Jobs]
  BY DEF Set, Jobs

LEMMA UseSeedTyped ==
  ASSUME NEW r \in Runs, job \in [Runs -> Jobs], pc \in [Runs -> Places], Holds(r),
         NEW seed \in Seeds, UseSeed(r, seed), pc[r] \in {"approve", "sign"}
  PROVE  pc' \in [Runs -> Places] /\ job' \in [Runs -> Jobs]
<1>1. CASE pc[r] = "approve"
  BY <1>1 DEF UseSeed, Goto, Places, Jobs, Seeds
<1>2. CASE pc[r] = "sign"
  <2>1. job[r].receipt \in Receipts
    BY <1>2 DEF Holds, Drafted
  <2>2. [job[r].receipt EXCEPT !.signer = seed] \in Receipts
    BY <2>1 DEF Receipts
  <2>3. [job[r] EXCEPT !.receipt.signer = seed, !.minting = None] \in Jobs
    BY <2>2 DEF Jobs, Seeds
  <2> QED
    BY <1>2, <2>3 DEF UseSeed, Goto, Places
<1> QED
  BY <1>1, <1>2

\* The steps that touch only where a run is and what it holds.
LEMMA TypedQuiet ==
  ASSUME Typed, NEW r \in Runs, UNCHANGED <<vault, files, money, second>>,
         pc' \in [Runs -> Places], job' \in [Runs -> Jobs], minted' \in Nat
  PROVE  Typed'
  BY DEF Typed, files, tokenFile, money

\* A file stored in an archive.
LEMMA StoreTyped ==
  ASSUME Typed, NEW name \in Names, NEW content \in saved \cup {Partial},
         Store(name, content)
  PROVE  /\ IsFiniteSet(DOMAIN shelf') /\ DOMAIN shelf' = DOMAIN shelf \cup {name}
         /\ DOMAIN shelf' \subseteq Names
         /\ \A n \in DOMAIN shelf' : shelf'[n] \in saved \cup {Partial}
         /\ shelf'[name] = content
         /\ \A n \in DOMAIN shelf : n # name => shelf'[n] = shelf[n]
<1>1. DOMAIN shelf' = DOMAIN shelf \cup {name}
  BY DEF Store
<1>2. IsFiniteSet(DOMAIN shelf \cup {name})
  BY FS_AddElement DEF Typed
<1> QED
  BY <1>1, <1>2 DEF Store, Typed

\* The token's temporary file is opened.
LEMMA OpenTyped ==
  ASSUME Typed, NEW r \in Runs, NEW count \in Nat, NEW next \in Places,
         OpenToken(r, count, next)
  PROVE  Typed'
<1>1. /\ pc \in [Runs -> Places] /\ job \in [Runs -> Jobs] /\ renames \in Nat
      /\ contested \subseteq Runs
  BY DEF Typed
<1>2. [job[r] EXCEPT !.count = count, !.inode = renames] \in Jobs
  BY <1>1 DEF Jobs
<1>3. job' \in [Runs -> Jobs] /\ pc' \in [Runs -> Places]
  <2>1. "aborted" \in Places
    BY DEF Places, Ended
  <2>2. pc' \in [Runs -> Places]
    BY <1>1, <2>1 DEF OpenToken, Goto
  <2>3. \/ job' = [job EXCEPT ![r] = [job[r] EXCEPT !.count = count, !.inode = renames]]
        \/ job' = job
    BY <1>1 DEF OpenToken
  <2> QED
    BY <1>1, <1>2, <2>2, <2>3
<1>4. contested' \subseteq Runs /\ tmp' \in {tmp, Partial}
  BY <1>1 DEF OpenToken
<1>5. UNCHANGED <<keys, files, token, renames, balance, charges, second>>
  BY DEF OpenToken
<1> QED
  BY <1>3, <1>4, <1>5 DEF Typed, keys, files

LEMMA TypedStep == ASSUME Inv, [Next]_vars PROVE Typed'
<1> USE DEF Goto, keys, tokenFile
<1>0. /\ Typed
      /\ pc \in [Runs -> Places] /\ job \in [Runs -> Jobs]
      /\ vault \in Seeds /\ minted \in Nat
      /\ {token, tmp} \subseteq Nat \cup {None, Partial, Torn}
      /\ renames \in Nat /\ contested \subseteq Runs /\ overtaken \subseteq Runs
      /\ balance \in Nat
      /\ \A r \in Runs : job[r] \in Jobs /\ Holds(r) /\ Fits(r) /\ Solvent(r)
      /\ saved \subseteq Receipts
  BY DEF Inv, Typed, Local
<1>1. CASE UNCHANGED vars
  BY <1>0, <1>1 DEF Typed, vars, files, money
<1>2. CASE Tick
  BY <1>0, <1>2 DEF Typed, Tick, files, money
<1>3. ASSUME NEW r \in Runs, Gate(r) PROVE Typed'
  <2>1. Requests[Kind[r]] \subseteq Flows
    BY DEF Flows
  <2>2. pc' \in [Runs -> Places]
    BY <1>0, <1>3 DEF Gate, Places, Ended
  <2>3. job' \in [Runs -> Jobs]
    BY <1>0, <1>3, <2>1, SetTyped DEF Gate
  <2> QED
    BY <1>0, <1>3, <2>2, <2>3, TypedQuiet DEF Gate
<1>4. ASSUME NEW r \in Runs, Kill(r) PROVE Typed'
  BY <1>0, <1>4, TypedQuiet DEF Kill, Places, Ended
<1>5. ASSUME NEW r \in Runs, ReadToken(r) PROVE Typed'
  <2>1. pc' \in [Runs -> Places] /\ job' \in [Runs -> Jobs]
    BY <1>0, <1>5, SetTyped DEF ReadToken, Places, Ended
  <2> QED
    BY <1>0, <1>5, <2>1, TypedQuiet DEF ReadToken
<1>6. ASSUME NEW r \in Runs, AskBalance(r) PROVE Typed'
  <2>1. pc' \in [Runs -> Places] /\ job' \in [Runs -> Jobs]
    BY <1>0, <1>6, SetTyped DEF AskBalance, Places
  <2> QED
    BY <1>0, <1>6, <2>1, TypedQuiet DEF AskBalance
<1>7. ASSUME NEW r \in Runs, StampToken(r) PROVE Typed'
  <2>1. job[r].runs \in Nat
    BY <1>0 DEF Jobs
  <2> QED
    BY <1>0, <1>7, <2>1, OpenTyped DEF StampToken, Places, TokenWrites
<1>8. ASSUME NEW r \in Runs, CheckBalance(r) PROVE Typed'
  BY <1>0, <1>8, TypedQuiet DEF CheckBalance, Places, Ended
<1>9. ASSUME NEW r \in Runs, BadInput(r) \/ BuildBlocks(r) \/ EmptyPrompt(r) PROVE Typed'
  <2>1. pc' \in [Runs -> Places] /\ UNCHANGED <<job, keys, files, money, second>>
    BY <1>0, <1>9 DEF BadInput, BuildBlocks, EmptyPrompt, Places, Ended
  <2> QED
    BY <1>0, <2>1, TypedQuiet
<1>10. ASSUME NEW r \in Runs, LookUpSeed(r) PROVE Typed'
  <2>1. minted + 1 \in Seeds /\ minted + 1 \in Nat /\ None \in Seeds
    BY <1>0 DEF Seeds
  <2>2. UNCHANGED <<vault, files, money, second>> /\ pc[r] \in {"approve", "sign"}
    BY <1>10 DEF LookUpSeed
  <2>3. pc' \in [Runs -> Places] /\ job' \in [Runs -> Jobs] /\ minted' \in Nat
    BY <1>0, <1>10, <2>1, SetTyped, UseSeedTyped DEF LookUpSeed
  <2> QED
    BY <1>0, <2>2, <2>3, TypedQuiet
<1>11. ASSUME NEW r \in Runs, SaveSeed(r) PROVE Typed'
  <2>1. job[r].minting \in Seeds /\ None \in Seeds
    BY <1>0 DEF Seeds, Jobs
  <2>2. vault' \in Seeds /\ UNCHANGED <<minted, files, money, second>>
    BY <1>0, <1>11, <2>1 DEF SaveSeed
  <2>3. pc' \in [Runs -> Places] /\ job' \in [Runs -> Jobs]
    BY <1>0, <1>11, <2>1, UseSeedTyped DEF SaveSeed
  <2> QED
    BY <1>0, <2>2, <2>3 DEF Typed, files, money
<1>12. ASSUME NEW r \in Runs, Assemble(r) PROVE Typed'
  <2>1. PICK result \in Results(r) :
           job' = [job EXCEPT
                    ![r].result = result,
                    ![r].tries = @ + 1,
                    ![r].receipt =
                      [ run |-> r, try |-> job[r].tries + 1, result |-> result,
                        approval_chain |-> ApprovalChain(Decision(r), job[r].ctx.dry_run,
                                                         job[r].approver),
                        signer |-> None ]]
    BY <1>12 DEF Assemble
  <2>2. result \in Outcomes
    BY DEF Results, Outcomes, Kinds
  <2>3. ApprovalChain(Decision(r), job[r].ctx.dry_run, job[r].approver) \in Chains
    BY <1>0, ChainIsOfKey DEF Jobs
  <2>4. job' \in [Runs -> Jobs]
    BY <1>0, <2>1, <2>2, <2>3 DEF Jobs, Receipts, Seeds
  <2>5. pc' \in [Runs -> Places]
    BY <1>0, <1>12 DEF Assemble, Places
  <2> QED
    BY <1>0, <1>12, <2>4, <2>5, TypedQuiet DEF Assemble
<1>13. ASSUME NEW r \in Runs, SaveReceipt(r) PROVE Typed'
  <2>1. job[r].receipt \in Receipts /\ Schema(r) \in Schemas
    BY <1>0, <1>13 DEF SaveReceipt, Holds, Drafted, Schema, Schemas, Kinds
  <2>2. pc' \in [Runs -> Places]
    BY <1>0, <1>13 DEF SaveReceipt, Places, Ended
  <2>3. /\ UNCHANGED <<job, vault, minted, shelf, auditLog, tokenFile, balance, charges, second>>
        /\ overtaken' \subseteq Runs
    <3>2. Owners(canonical[Schema(r)]) \subseteq Runs
      BY <1>0 DEF Owners, Receipts, Typed
    <3> QED
      BY <1>0, <1>13, <3>2 DEF SaveReceipt, money
  <2>4. \/ /\ canonical' = [canonical EXCEPT ![Schema(r)] = job[r].receipt]
           /\ saved' = saved \cup {job[r].receipt}
        \/ UNCHANGED <<canonical, saved>>
    BY <1>13 DEF SaveReceipt
  <2>5. saved' \subseteq Receipts /\ saved \subseteq saved'
        /\ canonical' \in [Schemas -> saved' \cup {None}]
    BY <1>0, <2>1, <2>4 DEF Typed
  <2> QED
    BY <1>0, <2>2, <2>3, <2>5 DEF Typed
<1>14. ASSUME NEW r \in Runs, ProbeArchive(r) \/ ProbeHistory(r) PROVE Typed'
  <2>1. PICK dir \in {"archive", "history"} : Set(r, "name", FreeName(dir, r))
    BY <1>14 DEF ProbeArchive, ProbeHistory, HistoryDir
  <2>2. PICK n \in Nat : FreeName(dir, r) = Name(dir, r, n)
    BY <1>0, FreeNameIsFree DEF Typed
  <2>3. FreeName(dir, r) \in Names
    BY <1>0, <2>2 DEF Name, Names, Schema, Schemas, Kinds, Typed
  <2>4. pc' \in [Runs -> Places] /\ job' \in [Runs -> Jobs]
    BY <1>0, <1>14, <2>1, <2>3, SetTyped DEF ProbeArchive, ProbeHistory, Places
  <2> QED
    BY <1>0, <1>14, <2>4, TypedQuiet DEF ProbeArchive, ProbeHistory
<1>15. ASSUME NEW r \in Runs, OpenArchive(r) \/ FillArchive(r) PROVE Typed'
  <2>1. AfterArchive(r) \in Places
    BY <1>0, <1>15 DEF OpenArchive, FillArchive, AfterArchive, Fits, Places, Ended, Kinds
  <2>2. pc' \in [Runs -> Places]
    BY <1>0, <1>15, <2>1 DEF OpenArchive, FillArchive, Places
  <2>3. /\ job[r].name \in Names
        /\ \/ \E content \in saved \cup {Partial} : Store(job[r].name, content)
           \/ UNCHANGED shelf
    BY <1>0, <1>15 DEF OpenArchive, FillArchive, Holds, Stored
  <2>4. UNCHANGED <<job, vault, minted, canonical, auditLog, saved, overtaken, money, second>>
    BY <1>15 DEF OpenArchive, FillArchive
  <2> QED
    BY <1>0, <2>2, <2>3, <2>4, StoreTyped DEF Typed, money
<1>16. ASSUME NEW r \in Runs, ReadBack(r) PROVE Typed'
  <2>1. canonical[Schema(r)] \in Receipts
    BY <1>0, <1>16 DEF ReadBack, Holds, Stored
  <2>2. pc' \in [Runs -> Places] /\ job' \in [Runs -> Jobs]
    BY <1>0, <1>16, <2>1, SetTyped DEF ReadBack, AfterLog, Places, Ended
  <2> QED
    BY <1>0, <1>16, <2>2, TypedQuiet DEF ReadBack
<1>17. ASSUME NEW r \in Runs, KeepHistory(r) PROVE Typed'
  <2>1. job[r].name \in Names /\ job[r].copy \in saved
    BY <1>0, <1>17 DEF KeepHistory, Holds
  <2>2. pc' \in [Runs -> Places] /\ job' \in [Runs -> Jobs]
    BY <1>0, <1>17, SetTyped DEF KeepHistory, Places
  <2>3. Store(job[r].name, job[r].copy) \/ UNCHANGED shelf
    BY <1>17 DEF KeepHistory
  <2>4. UNCHANGED <<vault, minted, canonical, auditLog, saved, overtaken, money, second>>
    BY <1>17 DEF KeepHistory
  <2> QED
    BY <1>0, <2>1, <2>2, <2>3, <2>4, StoreTyped DEF Typed, money
<1>18. ASSUME NEW r \in Runs, AppendLog(r) PROVE Typed'
  <2>1. job[r].copy \in saved /\ job[r].name \in Names \cup {None} /\ Kind[r] \in Kinds
    BY <1>0, <1>18 DEF AppendLog, Holds, Jobs
  <2>2. pc' \in [Runs -> Places]
    BY <1>0, <1>18 DEF AppendLog, AfterLog, Places, Ended
  <2>3. /\ auditLog' \subseteq Lines
        /\ \A line \in auditLog' : line.receipt \in saved
    BY <1>0, <1>18, <2>1 DEF AppendLog, Lines, Typed
  <2> QED
    BY <1>0, <1>18, <2>2, <2>3 DEF Typed, AppendLog, money
<1>19. ASSUME NEW r \in Runs, Charge(r) PROVE Typed'
  <2>1. job[r].runs > 0 /\ job[r].runs \in Nat
    BY <1>0, <1>19 DEF Charge, Inv, Local, Solvent, Fits, Jobs
  <2>2. job[r].runs - 1 \in Nat
    BY <2>1
  <2> QED
    BY <1>0, <1>19, <2>2, OpenTyped DEF Charge, Places, TokenWrites
<1>20. ASSUME NEW r \in Runs, ReadTally(r) PROVE Typed'
  <2>1. pc' \in [Runs -> Places] /\ job' \in [Runs -> Jobs]
    BY <1>0, <1>20, SetTyped DEF ReadTally, Places, Ended
  <2> QED
    BY <1>0, <1>20, <2>1, TypedQuiet DEF ReadTally
<1>21. ASSUME NEW r \in Runs, WriteTally(r) PROVE Typed'
  <2>1. job[r].runs \in Nat
    BY <1>0 DEF Jobs
  <2>2. (IF job[r].runs > 0 THEN job[r].runs - 1 ELSE 0) \in Nat
    BY <2>1
  <2> QED
    BY <1>0, <1>21, <2>2, OpenTyped DEF WriteTally, Places, TokenWrites
<1>22. ASSUME NEW r \in Runs, Meter(r) PROVE Typed'
  BY <1>0, <1>22 DEF Typed, Meter, files, Places, Ended
<1>23. ASSUME NEW r \in Runs, FillToken(r) PROVE Typed'
  <2>1. job[r].count \in Nat
    BY <1>0 DEF Jobs
  <2>2. {token', tmp'} \subseteq Nat \cup {None, Partial, Torn}
    BY <1>0, <1>23, <2>1 DEF FillToken, Over
  <2>3. pc' \in [Runs -> Places]
    BY <1>0, <1>23 DEF FillToken, Places, Ended, TokenWrites
  <2>4. UNCHANGED <<job, keys, files, renames, contested, balance, charges, second>>
    BY <1>23 DEF FillToken
  <2> QED
    BY <1>0, <2>2, <2>3, <2>4 DEF Typed, files
<1>24. ASSUME NEW r \in Runs, ReplaceToken(r) PROVE Typed'
  <2>1. /\ {token', tmp'} \subseteq Nat \cup {None, Partial, Torn}
        /\ renames' \in Nat
    BY <1>0, <1>24 DEF ReplaceToken
  <2>2. pc' \in [Runs -> Places]
    BY <1>0, <1>24 DEF ReplaceToken, AfterCharge, Places, Ended
  <2>3. UNCHANGED <<job, keys, files, contested, balance, charges, second>>
    BY <1>24 DEF ReplaceToken
  <2> QED
    BY <1>0, <2>1, <2>2, <2>3 DEF Typed, files
<1> QED
  BY <1>1, <1>2, <1>3, <1>4, <1>5, <1>6, <1>7, <1>8, <1>9, <1>10, <1>11, <1>12, <1>13,
     <1>14, <1>15, <1>16, <1>17, <1>18, <1>19, <1>20, <1>21, <1>22, <1>23, <1>24
  DEF Next, Proceed
----------------------------------------------------------------------------
(* What the places say is kept.                                             *)

\* A step of one run as the others see it.
Only(r) ==
    /\ \A q \in Runs \ {r} : pc'[q] = pc[q] /\ job'[q] = job[q] /\ charges'[q] = charges[q]
    /\ saved \subseteq saved' /\ \A rc \in saved' \ saved : rc.run = r
    /\ \A line \in auditLog' \ auditLog : line.run = r
    /\ \A s \in Schemas : canonical[s] \in saved => canonical'[s] \in saved'

LEMMA OthersLocal ==
  ASSUME Inv, NEW r \in Runs, Only(r), NEW q \in Runs, q # r
  PROVE  Local(q)'
<1>1. /\ pc'[q] = pc[q] /\ job'[q] = job[q] /\ charges'[q] = charges[q]
      /\ Local(q)
      /\ Schema(q) \in Schemas
  BY DEF Only, Inv, Schema, Schemas, Kinds
<1>2. Fits(q)' /\ Solvent(q)' /\ Gated(q)'
  BY <1>1 DEF Local, Fits, Solvent, Gated, Decision
<1>3. Holds(q)'
  BY <1>1 DEF Local, Holds, Only
<1>4. Untraced(q) => Untraced(q)'
  BY <1>1 DEF Untraced, Only
<1>5. Booked(q) => Booked(q)'
  BY <1>1 DEF Booked, Only
<1> QED
  BY <1>1, <1>2, <1>3, <1>4, <1>5 DEF Local

LEMMA FreeNameTyped ==
  ASSUME Typed, NEW r \in Runs, NEW dir \in {"archive", "history"}
  PROVE  FreeName(dir, r) \in Names
<1>1. PICK n \in Nat : FreeName(dir, r) = Name(dir, r, n)
  BY FreeNameIsFree DEF Typed
<1>2. Schema(r) \in {"assembly", "interpret", "audit"}
  BY DEF Schema, Kinds
<1> QED
  BY <1>1, <1>2 DEF Name, Names, Schemas, Typed

\* A seed found or made for an approval, or for the signature.
LEMMA UseSeedLocal ==
  ASSUME Inv, NEW r \in Runs, NEW seed \in Seeds, UseSeed(r, seed),
         pc[r] \in {"approve", "sign"}, UNCHANGED <<files, money>>
  PROVE  Local(r)'
<1>1. /\ Local(r) /\ job[r] \in Jobs /\ job \in [Runs -> Jobs] /\ pc \in [Runs -> Places]
      /\ UNCHANGED <<canonical, auditLog, saved, charges>>
  BY DEF Inv, Typed, files, tokenFile, money
<1>2. /\ pc'[r] \in {"assemble", "save"} /\ (pc'[r] = "save" => pc[r] = "sign")
      /\ job'[r].ctx = job[r].ctx /\ job'[r].runs = job[r].runs
      /\ job'[r].result = job[r].result
      /\ pc'[r] = "save" => job'[r].receipt = [job[r].receipt EXCEPT !.signer = seed]
  BY <1>1 DEF UseSeed, Goto, Jobs
<1>3. Holds(r)'
  <2>1. pc[r] = "sign" =>
           /\ [job[r].receipt EXCEPT !.signer = seed] \in Receipts
           /\ [job[r].receipt EXCEPT !.signer = seed].run = r
           /\ [job[r].receipt EXCEPT !.signer = seed].result = job[r].result
           /\ job[r].result \in Results(r)
    BY <1>1 DEF Local, Holds, Drafted, Receipts
  <2> QED
    BY <1>2, <2>1 DEF Holds, Drafted, Stored, Results
<1>4. Fits(r)' /\ Solvent(r)' /\ Gated(r)'
  BY <1>1, <1>2 DEF Local, Fits, Cli, Solvent, Gated, Decision, Ended, Late
<1>5. charges[r] = 0
  BY <1>1 DEF Local, Booked, Ended, Late, Inv, Typed
<1> QED
  BY <1>1, <1>2, <1>3, <1>4, <1>5 DEF Local

\* The daemon layer is done with the receipt, or has opened the file for it.
LEMMA Archived ==
  ASSUME Inv, NEW r \in Runs, pc[r] \in {"open", "fill"},
         pc'[r] \in {"fill", AfterArchive(r)},
         UNCHANGED <<job, saved, canonical, auditLog, charges>>
  PROVE  Local(r)'
<1>1. Local(r) /\ Kind[r] \in Kinds \ {"audit"} /\ charges[r] \in Nat
  BY DEF Inv, Typed, Local, Fits
<1>2. /\ pc'[r] \in {"fill", "done", "charge", "history", "assemble", "failed"}
      /\ pc'[r] \in {"charge", "history", "assemble"} => Kind[r] \in {"build", "interpret"}
      /\ pc'[r] = "charge" => job[r].result = "ok"
  BY <1>1 DEF AfterArchive, Kinds
<1>3. Fits(r)' /\ Solvent(r)' /\ Gated(r)'
  BY <1>1, <1>2 DEF Local, Fits, Cli, Solvent, Gated, Decision, Ended, Late
<1>4. Holds(r)'
  BY <1>1, <1>2 DEF Local, Holds, Drafted, Stored, Results
<1>5. charges[r] = 0
  BY <1>1 DEF Local, Booked, Ended, Late
<1> QED
  BY <1>1, <1>2, <1>3, <1>4, <1>5 DEF Local

\* The local count is written.
LEMMA LocallyCounted ==
  ASSUME Inv, NEW r \in Runs, pc[r] = "replace_charge", pc'[r] = AfterCharge(r),
         UNCHANGED <<job, saved, canonical, auditLog, charges>>
  PROVE  Local(r)'
<1>1. /\ Local(r) /\ charges[r] \in Nat
      /\ Kind[r] \in {"build", "interpret", "audit"}
  BY DEF Inv, Typed, Local, Fits, Cli
<1>2. /\ pc'[r] \in {"meter", "done", "history"}
      /\ pc'[r] = "meter" => Metered
      /\ pc'[r] = "history" => Kind[r] # "audit"
  BY DEF AfterCharge
<1>3. Fits(r)' /\ Solvent(r)' /\ Gated(r)'
  BY <1>1, <1>2 DEF Local, Fits, Cli, Solvent, Gated, Decision, Ended, Late
<1>4. Holds(r)'
  BY <1>1, <1>2 DEF Local, Holds, Drafted, Stored
<1>5. charges[r] = 0
  BY <1>1 DEF Local, Booked, Ended, Late
<1> QED
  BY <1>1, <1>2, <1>3, <1>4, <1>5 DEF Local

\* The token's temporary file is opened.
LEMMA OpenLocal ==
  ASSUME Inv, NEW r \in Runs, NEW count \in Nat, NEW next, OpenToken(r, count, next),
         \/ pc[r] = "stamp" /\ next = "fill_stamp"
         \/ /\ pc[r] \in {"charge", "write_tally"} /\ next = "fill_charge"
            /\ count <= job[r].runs
            /\ Kind[r] # "audit" => count = job[r].runs - 1
  PROVE  Local(r)'
<1>1. /\ Local(r) /\ charges[r] \in Nat /\ job \in [Runs -> Jobs]
      /\ pc \in [Runs -> Places] /\ Kind[r] \in Kinds
  BY DEF Inv, Typed
<1>2. /\ pc'[r] \in {next, "aborted"}
      /\ UNCHANGED <<saved, canonical, auditLog, charges>>
      /\ pc'[r] = next => job'[r].count = count
      /\ \A f \in {"ctx", "runs", "receipt", "result", "copy"} : job'[r][f] = job[r][f]
  BY <1>1 DEF OpenToken, Goto, files, Jobs
<1>3. /\ job'[r].ctx = job[r].ctx /\ job'[r].runs = job[r].runs
      /\ job'[r].receipt = job[r].receipt /\ job'[r].result = job[r].result
      /\ job'[r].copy = job[r].copy
  BY <1>2
<1>4. Fits(r)' /\ Solvent(r)' /\ Gated(r)'
  BY <1>1, <1>2, <1>3 DEF Local, Fits, Cli, Kinds, Solvent, Gated, Decision, Ended, Late
<1>5. Holds(r)'
  BY <1>1, <1>2, <1>3 DEF Local, Holds, Drafted, Stored, Ended
<1>6. charges[r] = 0
  BY <1>1 DEF Local, Booked, Ended, Late
<1> QED
  BY <1>1, <1>2, <1>4, <1>5, <1>6 DEF Local, Ended

\* The places of a run that is under way.
LEMMA LocalStep ==
  ASSUME Inv, [Next]_vars, NEW p \in Runs PROVE Local(p)'
<1> USE DEF Goto, keys, files, tokenFile, money
<1>0. /\ Typed
      /\ pc \in [Runs -> Places] /\ job \in [Runs -> Jobs]
      /\ charges \in [Runs -> Nat]
      /\ \A r \in Runs : job[r] \in Jobs /\ Local(r) /\ Kind[r] \in Kinds
  BY DEF Inv, Typed
<1>1. CASE UNCHANGED vars
  BY <1>0, <1>1 DEF vars, Local, Fits, Holds, Solvent, Gated, Decision, Untraced, Booked
<1>2. CASE Tick
  BY <1>0, <1>2 DEF Tick, Local, Fits, Holds, Solvent, Gated, Decision, Untraced, Booked
<1>3. ASSUME NEW r \in Runs, Gate(r) PROVE Local(p)'
  <2>1. Only(r)
    BY <1>0, <1>3 DEF Gate, Set, Only
  <2>2. Local(r)'
    BY <1>0, <1>3 DEF Gate, Set, Jobs, Local, Fits, Cli, Holds, Solvent, Gated, Decision,
       Untraced, Booked, Ended, Late, Drafted, Stored
  <2> QED
    BY <2>1, <2>2, OthersLocal
<1>4. ASSUME NEW r \in Runs, Kill(r) PROVE Local(p)'
  <2>1. Only(r)
    BY <1>0, <1>4 DEF Kill, Only
  <2>2. Local(r)'
    BY <1>0, <1>4 DEF Kill, Local, Fits, Cli, Holds, Solvent, Gated, Decision, Untraced,
       Booked, Ended, Late, Drafted, Stored
  <2> QED
    BY <2>1, <2>2, OthersLocal
<1>5. ASSUME NEW r \in Runs, ReadToken(r) PROVE Local(p)'
  <2>1. Only(r)
    BY <1>0, <1>5 DEF ReadToken, Set, Only
  <2>2. Local(r)'
    <3>1. /\ pc'[r] \in {"stopped", "balance"}
          /\ \A f \in {"ctx", "receipt", "result"} : job'[r][f] = job[r][f]
          /\ UNCHANGED <<saved, canonical, auditLog, charges>>
      BY <1>0, <1>5 DEF ReadToken, Set, Jobs
    <3>2. /\ job'[r].ctx = job[r].ctx /\ job'[r].receipt = job[r].receipt
          /\ job'[r].result = job[r].result
      BY <3>1
    <3>3. charges[r] = 0
      BY <1>0, <1>5 DEF ReadToken, Local, Booked, Ended, Late
    <3> QED
      BY <1>0, <1>5, <3>1, <3>2, <3>3 DEF ReadToken, Local, Fits, Cli, Holds, Solvent, Gated,
         Decision, Ended, Late, Drafted, Stored
  <2> QED
    BY <2>1, <2>2, OthersLocal
<1>6. ASSUME NEW r \in Runs, AskBalance(r) PROVE Local(p)'
  <2>1. Only(r)
    BY <1>0, <1>6 DEF AskBalance, Set, Only
  <2>2. Local(r)'
    <3>1. /\ pc'[r] \in {"stamp", "check"} /\ (pc'[r] = "stamp" => Metered)
          /\ \A f \in {"ctx", "receipt", "result"} : job'[r][f] = job[r][f]
          /\ UNCHANGED <<saved, canonical, auditLog, charges>>
      BY <1>0, <1>6 DEF AskBalance, Set, Jobs
    <3>2. /\ job'[r].ctx = job[r].ctx /\ job'[r].receipt = job[r].receipt
          /\ job'[r].result = job[r].result
      BY <3>1
    <3>3. charges[r] = 0
      BY <1>0, <1>6 DEF AskBalance, Local, Booked, Ended, Late
    <3> QED
      BY <1>0, <1>6, <3>1, <3>2, <3>3 DEF AskBalance, Local, Fits, Cli, Holds, Solvent, Gated,
         Decision, Ended, Late, Drafted, Stored
  <2> QED
    BY <2>1, <2>2, OthersLocal
<1>7. ASSUME NEW r \in Runs, StampToken(r) PROVE Local(p)'
  <2>1. Only(r)
    BY <1>0, <1>7 DEF StampToken, OpenToken, Only
  <2>2. /\ pc[r] = "stamp" /\ pc'[r] \in {"fill_stamp", "aborted"}
        /\ OpenToken(r, job[r].runs, "fill_stamp")
    BY <1>0, <1>7 DEF StampToken, OpenToken
  <2> QED
    BY <1>0, <2>1, <2>2, OpenLocal, OthersLocal DEF Jobs
<1>8. ASSUME NEW r \in Runs, CheckBalance(r) PROVE Local(p)'
  <2>1. Only(r)
    BY <1>0, <1>8 DEF CheckBalance, Only
  <2>2. Local(r)'
    BY <1>0, <1>8 DEF CheckBalance, Jobs, Local, Fits, Cli, Holds, Solvent, Gated,
       Decision, Untraced, Booked, Ended, Late, Drafted, Stored
  <2> QED
    BY <2>1, <2>2, OthersLocal
<1>9. ASSUME NEW r \in Runs, BadInput(r) PROVE Local(p)'
  <2>1. Only(r)
    BY <1>0, <1>9 DEF BadInput, Only
  <2>2. Local(r)'
    BY <1>0, <1>9 DEF BadInput, Local, Fits, Cli, Holds, Solvent, Gated, Decision,
       Untraced, Booked, Ended, Late, Drafted, Stored
  <2> QED
    BY <2>1, <2>2, OthersLocal
<1>10. ASSUME NEW r \in Runs, BuildBlocks(r) PROVE Local(p)'
  <2>1. Only(r)
    BY <1>0, <1>10 DEF BuildBlocks, Only
  <2>2. Local(r)'
    BY <1>0, <1>10 DEF BuildBlocks, Local, Fits, Cli, Holds, Solvent, Gated, Decision,
       Untraced, Booked, Ended, Late, Drafted, Stored
  <2> QED
    BY <2>1, <2>2, OthersLocal
<1>11. ASSUME NEW r \in Runs, EmptyPrompt(r) PROVE Local(p)'
  <2>1. Only(r)
    BY <1>0, <1>11 DEF EmptyPrompt, Only
  <2>2. Local(r)'
    BY <1>0, <1>11 DEF EmptyPrompt, Local, Fits, Cli, Holds, Solvent, Gated, Decision,
       Untraced, Booked, Ended, Late, Drafted, Stored
  <2> QED
    BY <2>1, <2>2, OthersLocal
<1>12. ASSUME NEW r \in Runs, LookUpSeed(r) PROVE Local(p)'
  <2>1. Only(r)
    BY <1>0, <1>12 DEF LookUpSeed, Set, UseSeed, Only
  <2>2. pc[r] \in {"approve", "sign"} /\ UNCHANGED <<files, money>>
    BY <1>12 DEF LookUpSeed
  <2>3. \/ \E seed \in Seeds : UseSeed(r, seed)
        \/ Set(r, "minting", minted + 1) /\ UNCHANGED pc
    <3>1. vault \in Seeds /\ None \in Seeds
      BY <1>0 DEF Typed, Seeds
    <3>2. \/ UseSeed(r, vault) \/ UseSeed(r, None)
          \/ Set(r, "minting", minted + 1) /\ UNCHANGED pc
      BY <1>12 DEF LookUpSeed
    <3>3. UseSeed(r, vault) => \E seed \in Seeds : UseSeed(r, seed)
      BY <3>1 DEF UseSeed
    <3> QED
      BY <3>1, <3>2, <3>3
  <2>4. CASE Set(r, "minting", minted + 1) /\ UNCHANGED pc
    BY <1>0, <2>2, <2>4 DEF Set, Jobs, Local, Fits, Cli, Holds, Solvent, Gated, Decision,
       Untraced, Booked, Late, Drafted, Stored
  <2>5. ASSUME NEW seed \in Seeds, UseSeed(r, seed) PROVE Local(r)'
    BY <2>2, <2>5, UseSeedLocal
  <2> QED
    BY <2>1, <2>3, <2>4, <2>5, OthersLocal
<1>13. ASSUME NEW r \in Runs, SaveSeed(r) PROVE Local(p)'
  <2>1. Only(r)
    BY <1>0, <1>13 DEF SaveSeed, UseSeed, Only
  <2>2. pc[r] \in {"approve", "sign"} /\ UNCHANGED <<files, money>>
    BY <1>13 DEF SaveSeed
  <2>3. \E seed \in Seeds : UseSeed(r, seed)
    BY <1>0, <1>13 DEF SaveSeed, Jobs, Seeds
  <2> QED
    BY <2>1, <2>2, <2>3, UseSeedLocal, OthersLocal
<1>14. ASSUME NEW r \in Runs, Assemble(r) PROVE Local(p)'
  <2>1. Only(r)
    BY <1>0, <1>14 DEF Assemble, Only
  <2>2. Local(r)'
    BY <1>0, <1>14 DEF Assemble, Jobs, Receipts, Results, Kinds, Local, Fits, Cli, Holds,
       Solvent, Gated, Decision, Untraced, Booked, Ended, Late, Drafted, Stored
  <2> QED
    BY <2>1, <2>2, OthersLocal
<1>15. ASSUME NEW r \in Runs, SaveReceipt(r) PROVE Local(p)'
  <2>0. job[r].receipt.run = r /\ canonical \in [Schemas -> saved \cup {None}]
    BY <1>0, <1>15 DEF SaveReceipt, Typed, Local, Holds, Drafted
  <2>1. Only(r)
    BY <1>0, <1>15, <2>0 DEF SaveReceipt, Only
  <2>2. /\ Local(r) /\ pc[r] = "save" /\ Schema(r) \in Schemas
        /\ UNCHANGED <<job, auditLog, charges>>
    BY <1>0, <1>15 DEF SaveReceipt, Schema, Schemas, Kinds
  <2>3. \/ /\ pc'[r] = IF Kind[r] = "audit" THEN "history" ELSE "archive"
           /\ job[r].receipt \in saved' /\ canonical'[Schema(r)] \in saved'
        \/ pc'[r] = "aborted"
    BY <1>0, <1>15, <2>2 DEF SaveReceipt, Typed
  <2>4. Fits(r)' /\ Solvent(r)' /\ Gated(r)'
    BY <1>0, <2>2, <2>3 DEF Local, Fits, Cli, Solvent, Gated, Decision, Ended, Late, Kinds
  <2>5. Holds(r)'
    BY <1>0, <2>2, <2>3 DEF Local, Holds, Drafted, Stored
  <2>6. charges'[r] = 0 /\ pc'[r] \notin {"idle", "rejected"}
    BY <1>0, <2>2, <2>3 DEF Local, Booked, Ended, Late
  <2> QED
    BY <2>1, <2>4, <2>5, <2>6, OthersLocal DEF Local
<1>16. ASSUME NEW r \in Runs, ProbeArchive(r) PROVE Local(p)'
  <2>1. Only(r)
    BY <1>0, <1>16 DEF ProbeArchive, Set, Only
  <2>2. FreeName("archive", r) \in Names
    BY <1>0, FreeNameTyped
  <2>3. Local(r)'
    BY <1>0, <1>16, <2>2 DEF ProbeArchive, Set, Jobs, Local, Fits, Cli, Holds, Solvent, Gated,
       Decision, Untraced, Booked, Ended, Late, Drafted, Stored
  <2> QED
    BY <2>1, <2>3, OthersLocal
<1>17. ASSUME NEW r \in Runs, OpenArchive(r) PROVE Local(p)'
  <2>1. Only(r)
    BY <1>0, <1>17 DEF OpenArchive, Only
  <2>2. Local(r) /\ pc[r] = "open" /\ UNCHANGED <<job, saved, canonical, auditLog, charges>>
    BY <1>0, <1>17 DEF OpenArchive
  <2>3. pc'[r] \in {"fill", AfterArchive(r)}
    BY <1>0, <1>17 DEF OpenArchive
  <2> QED
    BY <1>0, <2>1, <2>2, <2>3, Archived, OthersLocal
<1>18. ASSUME NEW r \in Runs, FillArchive(r) PROVE Local(p)'
  <2>1. Only(r)
    BY <1>0, <1>18 DEF FillArchive, Only
  <2>2. Local(r) /\ pc[r] = "fill" /\ UNCHANGED <<job, saved, canonical, auditLog, charges>>
    BY <1>0, <1>18 DEF FillArchive
  <2>3. pc'[r] = AfterArchive(r)
    BY <1>0, <1>18 DEF FillArchive
  <2> QED
    BY <1>0, <2>1, <2>2, <2>3, Archived, OthersLocal
<1>19. ASSUME NEW r \in Runs, ReadBack(r) PROVE Local(p)'
  <2>1. Only(r)
    BY <1>0, <1>19 DEF ReadBack, Set, Only
  <2>2. /\ Local(r) /\ pc[r] = "history"
        /\ UNCHANGED <<saved, canonical, auditLog, charges>>
    BY <1>0, <1>19 DEF ReadBack
  <2>3. /\ pc'[r] \in {"probe", "tally", "done"}
        /\ pc'[r] = "tally" => Kind[r] = "audit"
        /\ \A f \in {"ctx", "runs", "receipt", "result"} : job'[r][f] = job[r][f]
        /\ pc'[r] = "probe" => job'[r].copy = canonical[Schema(r)]
    BY <1>0, <1>19 DEF ReadBack, AfterLog, Set, Jobs
  <2>4. job'[r].ctx = job[r].ctx /\ job'[r].runs = job[r].runs
        /\ job'[r].receipt = job[r].receipt /\ job'[r].result = job[r].result
    BY <2>3
  <2>5. Fits(r)' /\ Solvent(r)' /\ Gated(r)'
    BY <1>0, <2>2, <2>3, <2>4 DEF Local, Fits, Cli, Solvent, Gated, Decision, Ended, Late
  <2>6. Holds(r)'
    <3>1. Kind[r] = "audit" => job[r].result = "ok"
      BY <2>2 DEF Local, Holds, Drafted, Stored, Results
    <3> QED
      BY <2>2, <2>3, <2>4, <3>1 DEF Local, Holds, Drafted, Stored
  <2>7. charges[r] > 0 => Booked(r)'
    BY <1>0, <2>2, <2>3 DEF Local, Booked, Ended, Late
  <2> QED
    BY <2>1, <2>2, <2>3, <2>5, <2>6, <2>7, OthersLocal DEF Local
<1>20. ASSUME NEW r \in Runs, ProbeHistory(r) PROVE Local(p)'
  <2>1. Only(r)
    BY <1>0, <1>20 DEF ProbeHistory, Set, Only
  <2>2. FreeName(HistoryDir, r) \in Names
    BY <1>0, FreeNameTyped DEF HistoryDir
  <2>3. Local(r)'
    BY <1>0, <1>20, <2>2 DEF ProbeHistory, Set, Jobs, Local, Fits, Cli, Holds, Solvent, Gated,
       Decision, Untraced, Booked, Ended, Late, Drafted, Stored
  <2> QED
    BY <2>1, <2>3, OthersLocal
<1>21. ASSUME NEW r \in Runs, KeepHistory(r) PROVE Local(p)'
  <2>1. Only(r)
    BY <1>0, <1>21 DEF KeepHistory, Set, Only
  <2>2. /\ Local(r) /\ pc[r] = "keep" /\ pc'[r] = "log"
        /\ UNCHANGED <<saved, canonical, auditLog, charges>>
        /\ job' = job \/ Set(r, "name", None)
    BY <1>0, <1>21 DEF KeepHistory
  <2>3. Local(r)'
    BY <1>0, <2>2 DEF Set, Jobs, Local, Fits, Cli, Holds, Solvent, Gated,
       Decision, Untraced, Booked, Ended, Late, Drafted, Stored
  <2> QED
    BY <2>1, <2>3, OthersLocal
<1>22. ASSUME NEW r \in Runs, AppendLog(r) PROVE Local(p)'
  <2>1. Only(r)
    BY <1>0, <1>22 DEF AppendLog, Only
  <2>2. /\ Local(r) /\ pc[r] = "log" /\ pc'[r] \in {"tally", "done"}
        /\ pc'[r] = "tally" => Kind[r] = "audit"
        /\ UNCHANGED <<job, saved, canonical, charges>>
    BY <1>0, <1>22 DEF AppendLog, AfterLog
  <2>3. Kind[r] = "audit" => job[r].result = "ok"
    BY <2>2 DEF Local, Holds, Drafted, Stored, Results
  <2>4. Fits(r)' /\ Solvent(r)' /\ Gated(r)'
    BY <1>0, <2>2 DEF Local, Fits, Cli, Solvent, Gated, Decision, Ended, Late
  <2>5. Holds(r)'
    BY <2>2, <2>3 DEF Local, Holds, Drafted, Stored
  <2>6. charges[r] > 0 => Booked(r)'
    BY <2>2 DEF Local, Booked, Ended, Late
  <2> QED
    BY <2>1, <2>2, <2>4, <2>5, <2>6, OthersLocal DEF Local
<1>23. ASSUME NEW r \in Runs, Charge(r) PROVE Local(p)'
  <2>1. Only(r)
    BY <1>0, <1>23 DEF Charge, OpenToken, Only
  <2>2. job[r].runs \in Nat /\ (Kind[r] # "audit" => job[r].runs > 0 \/ pc[r] # "charge")
    BY <1>0 DEF Jobs, Local, Solvent, Fits
  <2>3. PICK count \in Nat :
           /\ OpenToken(r, count, "fill_charge")
           /\ count <= job[r].runs
           /\ Kind[r] # "audit" => count = job[r].runs - 1
    BY <1>0, <1>23, <2>2 DEF Charge, Local, Fits
  <2>4. pc[r] = "charge"
    BY <1>23 DEF Charge
  <2> QED
    BY <1>0, <2>1, <2>3, <2>4, OpenLocal, OthersLocal
<1>24. ASSUME NEW r \in Runs, ReadTally(r) PROVE Local(p)'
  <2>1. Only(r)
    BY <1>0, <1>24 DEF ReadTally, Set, Only
  <2>2. Local(r)'
    <3>1. /\ pc'[r] \in {"done", "write_tally"}
          /\ \A f \in {"ctx", "receipt", "result"} : job'[r][f] = job[r][f]
          /\ UNCHANGED <<saved, canonical, auditLog, charges>>
      BY <1>0, <1>24 DEF ReadTally, Set, Jobs
    <3>2. /\ job'[r].ctx = job[r].ctx /\ job'[r].receipt = job[r].receipt
          /\ job'[r].result = job[r].result
      BY <3>1
    <3>3. charges[r] = 0
      BY <1>0, <1>24 DEF ReadTally, Local, Booked, Ended, Late
    <3> QED
      BY <1>0, <1>24, <3>1, <3>2, <3>3 DEF ReadTally, Local, Fits, Cli, Holds, Solvent, Gated,
         Decision, Ended, Late, Drafted, Stored
  <2> QED
    BY <2>1, <2>2, OthersLocal
<1>25. ASSUME NEW r \in Runs, WriteTally(r) PROVE Local(p)'
  <2>1. Only(r)
    BY <1>0, <1>25 DEF WriteTally, OpenToken, Only
  <2>2. job[r].runs \in Nat /\ (Kind[r] # "audit" => job[r].runs > 0 \/ pc[r] # "charge")
    BY <1>0 DEF Jobs, Local, Solvent, Fits
  <2>3. PICK count \in Nat :
           /\ OpenToken(r, count, "fill_charge")
           /\ count <= job[r].runs
           /\ Kind[r] # "audit" => count = job[r].runs - 1
    BY <1>0, <1>25, <2>2 DEF WriteTally, Local, Fits
  <2>4. pc[r] = "write_tally"
    BY <1>25 DEF WriteTally
  <2> QED
    BY <1>0, <2>1, <2>3, <2>4, OpenLocal, OthersLocal
<1>26. ASSUME NEW r \in Runs, Meter(r) PROVE Local(p)'
  <2>1. Only(r)
    BY <1>0, <1>26 DEF Meter, Only
  <2>2. Local(r)'
    BY <1>0, <1>26 DEF Meter, Local, Fits, Cli, Holds, Solvent, Gated, Decision, Untraced,
       Booked, Ended, Late, Drafted, Stored
  <2> QED
    BY <2>1, <2>2, OthersLocal
<1>27. ASSUME NEW r \in Runs, FillToken(r) PROVE Local(p)'
  <2>1. Only(r)
    BY <1>0, <1>27 DEF FillToken, Only
  <2>2. Local(r)'
    BY <1>0, <1>27 DEF FillToken, Local, Fits, Cli, Holds, Solvent, Gated, Decision,
       Untraced, Booked, Ended, Late, Drafted, Stored
  <2> QED
    BY <2>1, <2>2, OthersLocal
<1>28. ASSUME NEW r \in Runs, ReplaceToken(r) PROVE Local(p)'
  <2>1. Only(r)
    BY <1>0, <1>28 DEF ReplaceToken, Only
  <2>2. CASE pc[r] = "replace_charge" /\ pc'[r] = AfterCharge(r)
    BY <1>0, <1>28, <2>1, <2>2, LocallyCounted, OthersLocal DEF ReplaceToken
  <2>3. CASE pc'[r] = "aborted" \/ pc[r] = "replace_stamp"
    <3>1. /\ UNCHANGED <<job, saved, canonical, auditLog, charges>>
          /\ pc[r] \in {"replace_charge", "replace_stamp"}
          /\ pc'[r] = "aborted" \/ (pc[r] = "replace_stamp" /\ pc'[r] = "check")
      BY <1>0, <1>28, <2>3 DEF ReplaceToken
    <3>2. Local(r)'
      BY <1>0, <3>1 DEF Local, Fits, Cli, Holds, Solvent, Gated, Decision,
         Untraced, Booked, Ended, Late, Drafted, Stored
    <3> QED
      BY <2>1, <3>2, OthersLocal
  <2> QED
    BY <1>0, <1>28, <2>2, <2>3 DEF ReplaceToken
<1> QED
  BY <1>1, <1>2, <1>3, <1>4, <1>5, <1>6, <1>7, <1>8, <1>9, <1>10, <1>11, <1>12, <1>13,
     <1>14, <1>15, <1>16, <1>17, <1>18, <1>19, <1>20, <1>21, <1>22, <1>23, <1>24, <1>25,
     <1>26, <1>27, <1>28 DEF Next, Proceed
----------------------------------------------------------------------------
(* What holds however the runs overlap.                                     *)

LEMMA InvHolds == Spec => []Inv
<1>1. Inv /\ [Next]_vars => Inv'
  BY TypedStep, LocalStep DEF Inv
<1> QED
  BY InitInv, <1>1, PTL DEF Spec

\* Only complete receipts have a fixed name, only complete or half-written ones an
\* archive name, every log line is about a stored receipt, and neither the local
\* count nor the gateway's balance goes below zero (_save_receipt, _archive_receipt,
\* cmd_build, cmd_audit, _meter_run).
THEOREM TypeCorrect == Spec => []TypeOK
<1>1. Inv => TypeOK
  BY DEF Inv, Typed, TypeOK
<1> QED
  BY InvHolds, <1>1, PTL

\* A run whose flow the policy denies has no receipt, no archived copy, no line in
\* the audit log and no charge, whatever the others do (do_POST, cmd_build).
THEOREM DeniedNothing == Spec => []DeniedLeavesNothing
<1>1. Inv => DeniedLeavesNothing
  <2> SUFFICES ASSUME Inv, NEW r \in Runs, ~Decision(r).allow
               PROVE  Untraced(r)
    BY DEF DeniedLeavesNothing, Untraced
  <2> QED
    BY DEF Inv, Local, Gated
<1> QED
  BY InvHolds, <1>1, PTL

\* A run is booked on the gateway at most once, and only with a receipt that says
\* ok in place (_meter_run and its callers).
THEOREM Charged == Spec => []ChargedForReceipt
<1>1. Inv => ChargedForReceipt
  BY DEF Inv, Local, Booked, ChargedForReceipt
<1> QED
  BY InvHolds, <1>1, PTL
----------------------------------------------------------------------------
(* The token, until two runs are in write_token at the same time.           *)

LEMMA InitClean == Init => Clean
  BY DEF Init, Clean, InWrite, TokenWrites

\* The other steps leave the token, and where a run is in write_token, alone.
LEMMA CleanQuiet ==
  ASSUME Clean, UNCHANGED tokenFile,
         \A r \in Runs : InWrite(r)' =>
            /\ pc'[r] = pc[r]
            /\ job'[r].inode = job[r].inode /\ job'[r].count = job[r].count
  PROVE  Clean'
<1>1. \A r \in Runs : InWrite(r)' => InWrite(r)
  BY DEF InWrite
<1>2. \A r \in Runs : pc'[r] \in {"fill_stamp", "fill_charge", "replace_stamp",
                                   "replace_charge"} => InWrite(r)'
  BY DEF InWrite, TokenWrites
<1> QED
  BY <1>1, <1>2 DEF Clean, tokenFile

LEMMA CleanStep == ASSUME Inv, Clean, [Next]_vars PROVE Clean'
<1> USE DEF Goto, TokenWrites
<1>0. /\ pc \in [Runs -> Places] /\ job \in [Runs -> Jobs]
      /\ \A r \in Runs : job[r].count \in Nat /\ Fits(r) /\ Kind[r] \in Kinds
      /\ renames \in Nat
  BY DEF Inv, Typed, Jobs, Local
<1>1. CASE UNCHANGED vars
  BY <1>1, CleanQuiet DEF vars, money
<1>2. CASE Tick
  BY <1>2, CleanQuiet DEF Tick, money
<1>3. ASSUME NEW r \in Runs, NEW count \in Nat, NEW next \in {"fill_stamp", "fill_charge"},
             OpenToken(r, count, next), pc[r] \in {"stamp", "charge", "write_tally"}
      PROVE  Clean'
  <2> SUFFICES ASSUME contested' = {} PROVE Clean'
    BY DEF Clean
  <2>1. CASE pc'[r] = "aborted"
    <3>1. UNCHANGED tokenFile /\ UNCHANGED job
      BY <1>0, <1>3, <2>1 DEF OpenToken, tokenFile
    <3>2. \A q \in Runs : InWrite(q)' => pc'[q] = pc[q]
      BY <1>0, <1>3, <2>1 DEF OpenToken, InWrite
    <3> QED
      BY <3>1, <3>2, CleanQuiet
  <2>2. CASE pc'[r] # "aborted"
    <3>1. /\ tmp' = Partial /\ pc' = [pc EXCEPT ![r] = next]
          /\ job' = [job EXCEPT ![r].count = count, ![r].inode = renames]
          /\ UNCHANGED <<token, renames>>
          /\ contested' = contested \cup
               IF {q \in Runs \ {r} : pc[q] \in TokenWrites} = {} THEN {}
               ELSE {q \in Runs \ {r} : pc[q] \in TokenWrites} \cup {r}
      BY <1>0, <1>3, <2>2 DEF OpenToken
    <3>2. contested = {} /\ \A q \in Runs \ {r} : ~InWrite(q)
      BY <3>1 DEF InWrite
    <3>3. \A q \in Runs \ {r} : pc'[q] = pc[q] /\ ~InWrite(q)'
      BY <1>0, <3>1, <3>2 DEF InWrite
    <3>4. pc'[r] = next /\ job'[r].inode = renames
      BY <1>0, <3>1 DEF Jobs
    <3>5. token' \in Nat \cup {None}
      BY <3>1, <3>2 DEF Clean
    <3> QED
      BY <3>1, <3>3, <3>4, <3>5 DEF Clean, InWrite
  <2> QED
    BY <2>1, <2>2
<1>4. ASSUME NEW r \in Runs, FillToken(r) PROVE Clean'
  <2> SUFFICES ASSUME contested' = {} PROVE Clean'
    BY DEF Clean
  <2>1. /\ contested = {} /\ UNCHANGED <<job, renames>>
        /\ pc[r] \in {"fill_stamp", "fill_charge"}
    BY <1>4 DEF FillToken
  <2>2. /\ job[r].inode = renames /\ tmp = Partial
        /\ \A q \in Runs \ {r} : ~InWrite(q)
    BY <2>1 DEF Clean, InWrite
  <2>3. /\ UNCHANGED token
        /\ \/ tmp' = job[r].count /\ pc'[r] \in {"replace_stamp", "replace_charge"}
           \/ pc'[r] = "aborted"
    BY <1>0, <1>4, <2>2 DEF FillToken, Over
  <2>4. \A q \in Runs \ {r} : pc'[q] = pc[q] /\ ~InWrite(q)'
    BY <1>0, <1>4, <2>2 DEF FillToken, InWrite
  <2> QED
    BY <2>1, <2>3, <2>4 DEF Clean, InWrite
<1>5. ASSUME NEW r \in Runs, ReplaceToken(r) PROVE Clean'
  <2> SUFFICES ASSUME contested' = {} PROVE Clean'
    BY DEF Clean
  <2>1. /\ contested = {} /\ UNCHANGED job
        /\ pc[r] \in {"replace_stamp", "replace_charge"}
    BY <1>5 DEF ReplaceToken
  <2>2. /\ tmp = job[r].count /\ token \in Nat \cup {None}
        /\ \A q \in Runs \ {r} : ~InWrite(q)
    BY <2>1 DEF Clean, InWrite
  <2>3. token' \in {token, tmp} /\ pc'[r] \in {"check", "aborted", "meter", "done", "history"}
    BY <1>0, <1>5 DEF ReplaceToken, AfterCharge
  <2>4. \A q \in Runs \ {r} : pc'[q] = pc[q] /\ ~InWrite(q)'
    BY <1>0, <1>5, <2>2 DEF ReplaceToken, InWrite
  <2> QED
    BY <1>0, <2>1, <2>2, <2>3, <2>4 DEF Clean, InWrite
<1>6. ASSUME NEW r \in Runs, StampToken(r) \/ Charge(r) \/ WriteTally(r) PROVE Clean'
  <2>1. job[r].runs \in Nat /\ (pc[r] = "charge" => job[r].runs > 0)
    BY <1>0 DEF Jobs, Inv, Local, Solvent, Fits
  <2>2. /\ job[r].runs - 1 \in Nat \/ pc[r] # "charge"
        /\ (IF job[r].runs > 0 THEN job[r].runs - 1 ELSE 0) \in Nat
    BY <2>1
  <2> QED
    BY <1>3, <1>6, <2>1, <2>2 DEF StampToken, Charge, WriteTally
<1>7. ASSUME NEW r \in Runs,
             \/ Gate(r) \/ Kill(r) \/ ReadToken(r) \/ AskBalance(r) \/ CheckBalance(r)
             \/ BadInput(r) \/ BuildBlocks(r) \/ EmptyPrompt(r) \/ SaveReceipt(r)
             \/ ProbeArchive(r) \/ OpenArchive(r) \/ FillArchive(r)
      PROVE  Clean'
  <2>1. UNCHANGED tokenFile
    BY <1>7 DEF money, Gate, Kill, ReadToken, AskBalance, CheckBalance, BadInput, BuildBlocks,
       EmptyPrompt, SaveReceipt, ProbeArchive, OpenArchive, FillArchive
  <2>2. /\ \A q \in Runs \ {r} : pc'[q] = pc[q] /\ job'[q] = job[q]
        /\ pc'[r] \notin TokenWrites
    BY <1>0, <1>7 DEF Gate, Kill, ReadToken, AskBalance, CheckBalance, BadInput, BuildBlocks,
       EmptyPrompt, SaveReceipt, ProbeArchive, OpenArchive, FillArchive, AfterArchive, Fits,
       Set, Ended, Kinds
  <2> QED
    BY <2>1, <2>2, CleanQuiet DEF InWrite
<1>8. ASSUME NEW r \in Runs,
             \/ LookUpSeed(r) \/ SaveSeed(r) \/ Assemble(r) \/ ReadBack(r)
             \/ ProbeHistory(r) \/ KeepHistory(r) \/ AppendLog(r) \/ ReadTally(r) \/ Meter(r)
      PROVE  Clean'
  <2>1. UNCHANGED tokenFile
    BY <1>8 DEF money, LookUpSeed, SaveSeed, Assemble, ReadBack, ProbeHistory, KeepHistory,
       AppendLog, ReadTally, Meter
  <2>2. /\ \A q \in Runs \ {r} : pc'[q] = pc[q] /\ job'[q] = job[q]
        /\ pc'[r] \notin TokenWrites
    BY <1>0, <1>8 DEF LookUpSeed, SaveSeed, UseSeed, Assemble, ReadBack, ProbeHistory,
       KeepHistory, AppendLog, AfterLog, ReadTally, Meter, Set, Ended
  <2> QED
    BY <2>1, <2>2, CleanQuiet DEF InWrite
<1> QED
  BY <1>1, <1>2, <1>4, <1>5, <1>6, <1>7, <1>8 DEF Next, Proceed

\* Whoever fails or is killed where, token.json is a whole document until two runs are
\* in write_token at the same time, for any number of them (write_token).
THEOREM TokenWhole == Spec => []TokenStaysWhole
<1>1. Inv /\ Clean => TokenStaysWhole
  BY RunAssumption DEF Clean, TokenStaysWhole
<1>2. Init => Inv /\ Clean
  BY InitInv, InitClean
<1>3. Inv /\ Clean /\ [Next]_vars => (Inv /\ Clean)'
  BY TypedStep, LocalStep, CleanStep DEF Inv
<1> QED
  BY <1>1, <1>2, <1>3, PTL DEF Spec

----------------------------------------------------------------------------
(* Whose receipt the fixed name holds, and the log tells of.                *)

\* The steps that save no receipt and write no line.
LEMMA OwnerQuiet ==
  ASSUME NEW q \in Runs, Owner(q), UNCHANGED <<canonical, auditLog, overtaken>>,
         pc'[q] \in Stored => pc[q] \in Stored,
         pc'[q] \in {"probe", "keep", "log"} =>
            \/ pc[q] \in {"probe", "keep", "log"} /\ job'[q].copy = job[q].copy
            \/ pc[q] \in Stored /\ job'[q].copy = canonical[Schema(q)],
         AfterLine(q) => AfterLine(q)'
  PROVE  Owner(q)'
  BY DEF Owner

LEMMA OwnerStep ==
  ASSUME Inv, [Next]_vars, NEW q \in Runs, Owner(q) PROVE Owner(q)'
<1> USE DEF Goto, files
<1>0. /\ pc \in [Runs -> Places] /\ job \in [Runs -> Jobs]
      /\ \A r \in Runs : Fits(r) /\ Holds(r) /\ Kind[r] \in Kinds /\ job[r] \in Jobs
      /\ canonical \in [Schemas -> saved \cup {None}]
      /\ Schema(q) \in Schemas
  BY DEF Inv, Typed, Local, Schema, Schemas, Kinds
<1>1. CASE UNCHANGED vars
  BY <1>1, OwnerQuiet DEF vars, AfterLine
<1>2. CASE Tick
  BY <1>2, OwnerQuiet DEF Tick, AfterLine
<1>3. ASSUME NEW r \in Runs,
             \/ Gate(r) \/ Kill(r) \/ ReadToken(r) \/ AskBalance(r) \/ CheckBalance(r)
             \/ BadInput(r) \/ BuildBlocks(r) \/ EmptyPrompt(r) \/ Assemble(r)
             \/ LookUpSeed(r) \/ SaveSeed(r)
      PROVE  Owner(q)'
  <2>1. UNCHANGED <<canonical, auditLog, overtaken>>
    BY <1>3 DEF Gate, Kill, ReadToken, AskBalance, CheckBalance, BadInput, BuildBlocks,
       EmptyPrompt, Assemble, LookUpSeed, SaveSeed
  <2>2. /\ q # r => pc'[q] = pc[q] /\ job'[q] = job[q]
        /\ pc'[r] \notin Stored
        /\ pc[r] \in Ended \cup {"tally", "write_tally", "fill_charge", "replace_charge", "meter"}
              => pc'[r] \in Ended
    <3> USE <1>0 DEF Set, Stored, Ended
    <3>1. CASE Gate(r) \/ Kill(r)
      BY <3>1 DEF Gate, Kill
    <3>2. CASE ReadToken(r) \/ AskBalance(r) \/ CheckBalance(r) \/ BadInput(r)
      BY <3>2 DEF ReadToken, AskBalance, CheckBalance, BadInput
    <3>3. CASE BuildBlocks(r) \/ EmptyPrompt(r) \/ Assemble(r)
      BY <3>3 DEF BuildBlocks, EmptyPrompt, Assemble
    <3>4. CASE LookUpSeed(r)
      BY <3>4 DEF LookUpSeed, UseSeed
    <3>5. CASE SaveSeed(r)
      BY <3>5 DEF SaveSeed, UseSeed
    <3> QED
      BY <1>3, <3>1, <3>2, <3>3, <3>4, <3>5
  <2>3. CASE q = r
    BY <2>1, <2>2, <2>3, OwnerQuiet DEF AfterLine, Stored
  <2>4. CASE q # r
    BY <2>1, <2>2, <2>4, OwnerQuiet DEF AfterLine
  <2> QED
    BY <2>3, <2>4
<1>4. ASSUME NEW r \in Runs,
             \/ StampToken(r) \/ Charge(r) \/ WriteTally(r) \/ FillToken(r) \/ ReplaceToken(r)
             \/ ReadTally(r) \/ Meter(r) \/ ProbeArchive(r) \/ OpenArchive(r) \/ FillArchive(r)
      PROVE  Owner(q)'
  <2>1. UNCHANGED <<canonical, auditLog, overtaken>>
    BY <1>4 DEF StampToken, Charge, WriteTally, OpenToken, FillToken, ReplaceToken, ReadTally,
       Meter, ProbeArchive, OpenArchive, FillArchive
  <2>2. /\ q # r => pc'[q] = pc[q] /\ job'[q] = job[q]
        /\ pc'[r] \in Stored => pc[r] \in Stored
        /\ pc'[r] \notin {"probe", "keep", "log"}
    BY <1>0, <1>4 DEF StampToken, Charge, WriteTally, OpenToken, FillToken, ReplaceToken,
       AfterCharge, ReadTally, Meter, ProbeArchive, OpenArchive, FillArchive, AfterArchive,
       Fits, Kinds, Set, Stored, Ended
  <2>3. AfterLine(r) => AfterLine(r)'
    BY <1>0, <1>4 DEF StampToken, Charge, WriteTally, OpenToken, FillToken, ReplaceToken,
       AfterCharge, ReadTally, Meter, ProbeArchive, OpenArchive, FillArchive, AfterLine, Ended
  <2>4. CASE q = r
    BY <2>1, <2>2, <2>3, <2>4, OwnerQuiet
  <2>5. CASE q # r
    BY <2>1, <2>2, <2>5, OwnerQuiet DEF AfterLine
  <2> QED
    BY <2>4, <2>5
<1>5. ASSUME NEW r \in Runs, ReadBack(r) \/ ProbeHistory(r) \/ KeepHistory(r) PROVE Owner(q)'
  <2>1. UNCHANGED <<canonical, auditLog, overtaken>>
    BY <1>5 DEF ReadBack, ProbeHistory, KeepHistory
  <2>2. /\ q # r => pc'[q] = pc[q] /\ job'[q] = job[q]
        /\ pc'[r] \in Stored => pc[r] \in Stored
        /\ pc[r] \in Stored /\ ~AfterLine(r)
        /\ \/ pc[r] \in {"probe", "keep"} /\ job'[r].copy = job[r].copy
           \/ pc[r] = "history" /\ job'[r].copy = canonical[Schema(r)]
           \/ pc'[r] \notin {"probe", "keep", "log"}
    BY <1>0, <1>5 DEF ReadBack, ProbeHistory, KeepHistory, AfterLog, AfterLine, Set, Jobs,
       Stored, Ended
  <2>3. CASE q = r
    BY <2>1, <2>2, <2>3, OwnerQuiet
  <2>4. CASE q # r
    BY <2>1, <2>2, <2>4, OwnerQuiet DEF AfterLine
  <2> QED
    BY <2>3, <2>4
<1>6. ASSUME NEW r \in Runs, AppendLog(r) PROVE Owner(q)'
  <2>1. /\ UNCHANGED <<job, canonical, overtaken>>
        /\ pc[r] = "log" /\ \A p \in Runs \ {r} : pc'[p] = pc[p]
        /\ \A line \in auditLog' \ auditLog : line.run = r /\ line.receipt = job[r].copy
        /\ pc'[r] \in {"tally", "done"} /\ (pc'[r] = "tally" => Kind[r] = "audit")
    BY <1>0, <1>6 DEF AppendLog, AfterLog
  <2>2. CASE q = r
    BY <2>1, <2>2 DEF Owner, AfterLine, Stored, Ended
  <2>3. CASE q # r
    BY <2>1, <2>3 DEF Owner, AfterLine
  <2> QED
    BY <2>2, <2>3
<1>7. ASSUME NEW r \in Runs, SaveReceipt(r) PROVE Owner(q)'
  <2>1. /\ UNCHANGED <<job, auditLog>> /\ pc[r] = "save" /\ job[r].receipt.run = r
        /\ \A p \in Runs \ {r} : pc'[p] = pc[p]
        /\ pc'[r] \in {"history", "archive", "aborted"}
    BY <1>0, <1>7 DEF SaveReceipt, Holds, Drafted
  <2>2. \/ UNCHANGED <<canonical, overtaken>> /\ pc'[r] = "aborted"
        \/ /\ canonical' = [canonical EXCEPT ![Schema(r)] = job[r].receipt]
           /\ overtaken' = (overtaken \cup Owners(canonical[Schema(r)])) \ {r}
    BY <1>7, <1>0 DEF SaveReceipt
  <2>3. CASE q = r
    <3>1. \A line \in auditLog : line.run # r
      BY <2>1, <2>3 DEF Owner, AfterLine, Ended
    <3>2. pc'[r] \in Stored => canonical'[Schema(r)].run = r
      BY <1>0, <2>1, <2>2, <2>3 DEF Stored
    <3> QED
      BY <2>1, <2>3, <3>1, <3>2 DEF Owner
  <2>4. CASE q # r
    <3>1. q \in overtaken => q \in overtaken'
      BY <2>2, <2>4
    <3>2. pc[q] \in Stored => canonical'[Schema(q)].run = q \/ q \in overtaken'
      <4> SUFFICES ASSUME pc[q] \in Stored, canonical[Schema(q)].run = q
                   PROVE  canonical'[Schema(q)].run = q \/ q \in overtaken'
        BY <3>1 DEF Owner
      <4>1. CASE Schema(q) = Schema(r)
        <5>1. canonical[Schema(q)] \in saved
          BY <1>0 DEF Holds
        <5>2. q \in Owners(canonical[Schema(q)])
          BY <5>1 DEF Owners
        <5> QED
          BY <2>2, <2>4, <4>1, <5>2, <3>1
      <4>2. CASE Schema(q) # Schema(r)
        BY <1>0, <2>2, <4>2
      <4> QED
        BY <4>1, <4>2
    <3> QED
      BY <2>1, <2>4, <3>1, <3>2 DEF Owner, AfterLine
  <2> QED
    BY <2>3, <2>4
<1> QED
  BY <1>1, <1>2, <1>3, <1>4, <1>5, <1>6, <1>7 DEF Next, Proceed

\* A line of the audit log is about the receipt of the run that wrote it, unless another
\* run saved its own under the fixed name after that one had, however any number of runs
\* overlap and whatever fails (_archive_and_log).
THEOREM LineOfItsRun == Spec => []LineIsOfItsRun
<1> DEFINE Owned == \A r \in Runs : Owner(r)
<1>1. Init => Inv /\ Owned
  <2>1. Init => Owned
    BY DEF Init, Owner, Stored
  <2> QED
    BY <2>1, InitInv
<1>2. Inv /\ Owned /\ [Next]_vars => (Inv /\ Owned)'
  BY TypedStep, LocalStep, OwnerStep DEF Inv
<1>3. Inv /\ Owned => LineIsOfItsRun
  <2> SUFFICES ASSUME Inv, Owned, NEW line \in auditLog
               PROVE  line.receipt.run = line.run \/ line.run \in overtaken
    BY DEF LineIsOfItsRun
  <2>1. line.run \in Runs
    BY DEF Inv, Typed, Lines
  <2> QED
    BY <2>1 DEF Owner
<1> HIDE DEF Owned
<1> QED
  BY <1>1, <1>2, <1>3, PTL DEF Spec

----------------------------------------------------------------------------
(* Runs that follow each other.                                             *)

LEMMA InitSequential == Init => Sequential
  BY DEF Init, Sequential, Active, Ended, LoggedProofKept

\* What a step of the one run under way has to keep.
LEMMA Alone ==
  ASSUME Sequential, NEW r \in Runs,
         \A q \in Runs \ {r} : ~Active(q) /\ pc'[q] = pc[q],
         pc'[r] \notin Ended => Own(r)',
         \A rc \in saved' : OfVault(rc)',
         LoggedProofKept'
  PROVE  Sequential'
  BY DEF Sequential, Active

\* A step that leaves the vault, the files and the log alone.
LEMMA AloneQuiet ==
  ASSUME Sequential, NEW r \in Runs,
         \A q \in Runs \ {r} : ~Active(q) /\ pc'[q] = pc[q],
         pc'[r] \notin Ended => Own(r)',
         UNCHANGED <<vault, files>>
  PROVE  Sequential'
<1>1. \A rc \in saved' : OfVault(rc)'
  BY DEF Sequential, OfVault, files
<1>2. LoggedProofKept'
  BY DEF Sequential, LoggedProofKept, files
<1> QED
  BY <1>1, <1>2, Alone

\* A run makes a seed only while the vault has none; no receipt has a key before.
LEMMA UseSeedAlone ==
  ASSUME Inv, Sequential, NEW r \in Runs, Own(r),
         \A q \in Runs \ {r} : ~Active(q) /\ pc'[q] = pc[q],
         NEW seed \in {None, vault'}, UseSeed(r, seed),
         pc[r] \in {"approve", "sign"},
         vault' = vault \/ vault = None, UNCHANGED <<files, money>>
  PROVE  Sequential'
<1>1. /\ job[r] \in Jobs /\ job \in [Runs -> Jobs] /\ pc \in [Runs -> Places]
      /\ UNCHANGED <<canonical, shelf, auditLog, saved, token>>
      /\ pc[r] = "sign" => job[r].receipt \in Receipts
  BY DEF Inv, Typed, Local, Holds, Drafted, files, tokenFile, money
<1>2. \A rc : OfVault(rc) => OfVault(rc)'
  BY DEF OfVault
<1>3. Own(r)'
  <2>1. CASE pc[r] = "approve"
    <3>1. /\ job'[r].minting = None /\ job'[r].approver = seed /\ pc'[r] = "assemble"
          /\ job'[r].runs = job[r].runs
      BY <1>1, <2>1 DEF UseSeed, Goto, Jobs
    <3> QED
      BY <1>1, <2>1, <3>1 DEF Own, Drafted, Stored, Late
  <2>2. CASE pc[r] = "sign"
    <3>1. /\ job'[r].minting = None /\ job'[r].approver = job[r].approver /\ pc'[r] = "save"
          /\ job'[r].runs = job[r].runs
          /\ job'[r].receipt = [job[r].receipt EXCEPT !.signer = seed]
      BY <1>1, <2>2 DEF UseSeed, Goto, Jobs
    <3>2. \A i \in DOMAIN job[r].receipt.approval_chain :
             vault' # None /\ job[r].receipt.approval_chain[i].approver_pubkey = vault'
      BY <2>2 DEF Own, Drafted, OfVault
    <3> QED
      BY <1>1, <2>2, <3>1, <3>2 DEF Own, Drafted, Stored, Late, OfVault, Receipts
  <2> QED
    BY <2>1, <2>2
<1>4. \A rc \in saved' : OfVault(rc)'
  BY <1>1, <1>2 DEF Sequential
<1>5. LoggedProofKept'
  BY <1>1 DEF Sequential, LoggedProofKept
<1> QED
  BY <1>3, <1>4, <1>5, Alone

\* The token's temporary file is opened.
LEMMA OpenAlone ==
  ASSUME Inv, Sequential, NEW r \in Runs, Own(r),
         \A q \in Runs \ {r} : ~Active(q) /\ pc'[q] = pc[q],
         NEW count, NEW next, OpenToken(r, count, next),
         \/ pc[r] = "stamp" /\ next = "fill_stamp"
         \/ pc[r] \in {"charge", "write_tally"} /\ next = "fill_charge"
  PROVE  Sequential'
<1>1. /\ pc'[r] \in {next, "aborted"}
      /\ UNCHANGED <<vault, files, token>>
      /\ \A f \in {"minting", "approver", "receipt", "runs", "copy", "name"} :
            job'[r][f] = job[r][f]
  BY DEF OpenToken, Goto, keys, Inv, Typed, Jobs
<1>2. /\ job'[r].minting = job[r].minting /\ job'[r].approver = job[r].approver
      /\ job'[r].receipt = job[r].receipt /\ job'[r].runs = job[r].runs
      /\ job'[r].copy = job[r].copy /\ job'[r].name = job[r].name
  BY <1>1
<1>3. pc[r] = "charge" => Kind[r] \in {"build", "interpret"}
  BY DEF Inv, Local, Fits
<1>4. pc'[r] \notin Ended => Own(r)'
  BY <1>1, <1>2, <1>3 DEF Own, OfVault, Drafted, Stored, Late, Ended, files
<1> QED
  BY <1>1, <1>4, AloneQuiet

\* The one run under way keeps what it may count on, and the receipts, the archives
\* and the log agree with each other.
LEMMA SequentialStep ==
  ASSUME ~Concurrent, Inv, Sequential, Clean, contested = {}, [Next]_vars
  PROVE  Sequential'
<1> USE DEF Goto, keys, files, tokenFile, money
<1>0. /\ Typed /\ Sequential
      /\ pc \in [Runs -> Places] /\ job \in [Runs -> Jobs]
      /\ canonical \in [Schemas -> saved \cup {None}]
      /\ \A r \in Runs : /\ job[r] \in Jobs /\ Kind[r] \in Kinds
                         /\ Fits(r) /\ Holds(r)
                         /\ Schema(r) \in Schemas
  BY DEF Inv, Typed, Local, Schema, Schemas, Kinds
<1>1. CASE UNCHANGED vars
  BY <1>1 DEF vars, Sequential, Active, Own, OfVault, LoggedProofKept
<1>2. CASE Tick
  BY <1>2 DEF Tick, Sequential, Active, Own, OfVault, LoggedProofKept
<1>3. ASSUME NEW r \in Runs, Gate(r) PROVE Sequential'
  <2>1. /\ \A q \in Runs \ {r} : ~Active(q) /\ pc'[q] = pc[q]
        /\ job[r] = Blank /\ pc'[r] \in {"rejected", "token", "input"}
        /\ pc'[r] = "input" => Kind[r] \notin {"build", "interpret"}
    BY <1>0, <1>3 DEF Gate, Active, Holds
  <2>2. job'[r].minting = None /\ job'[r].approver = None
    BY <1>0, <1>3, <2>1 DEF Gate, Set, Blank, Jobs
  <2>3. pc'[r] \notin Ended => Own(r)'
    BY <2>1, <2>2 DEF Own, Drafted, Stored, Late, Ended
  <2> QED
    BY <1>3, <2>1, <2>3, AloneQuiet DEF Gate
<1>4. ASSUME NEW r \in Runs, Kill(r) PROVE Sequential'
  <2>1. \A q \in Runs \ {r} : ~Active(q) /\ pc'[q] = pc[q]
    BY <1>0, <1>4 DEF Kill, Sequential, Active
  <2>2. pc'[r] \in Ended
    BY <1>0, <1>4 DEF Kill, Ended
  <2> QED
    BY <1>4, <2>1, <2>2, AloneQuiet DEF Kill
<1>5. ASSUME NEW r \in Runs, ReadToken(r) PROVE Sequential'
  <2>1. Own(r) /\ \A q \in Runs \ {r} : ~Active(q) /\ pc'[q] = pc[q]
    BY <1>0, <1>5 DEF ReadToken, Sequential, Active, Ended
  <2>2. pc'[r] \notin Ended => Own(r)'
    BY <1>0, <1>5, <2>1 DEF ReadToken, Set, Jobs, Fits, Holds, Own, OfVault, Drafted,
       Stored, Late, Ended
  <2> QED
    BY <1>5, <2>1, <2>2, AloneQuiet DEF ReadToken
<1>6. ASSUME NEW r \in Runs, AskBalance(r) PROVE Sequential'
  <2>1. Own(r) /\ \A q \in Runs \ {r} : ~Active(q) /\ pc'[q] = pc[q]
    BY <1>0, <1>6 DEF AskBalance, Sequential, Active, Ended
  <2>2. pc'[r] \notin Ended => Own(r)'
    BY <1>0, <1>6, <2>1 DEF AskBalance, Set, Jobs, Fits, Holds, Own, OfVault, Drafted,
       Stored, Late, Ended
  <2> QED
    BY <1>6, <2>1, <2>2, AloneQuiet DEF AskBalance
<1>7. ASSUME NEW r \in Runs, StampToken(r) PROVE Sequential'
  <2>1. Own(r) /\ \A q \in Runs \ {r} : ~Active(q) /\ pc'[q] = pc[q]
    BY <1>0, <1>7 DEF StampToken, OpenToken, Sequential, Active, Ended
  <2>2. /\ pc[r] = "stamp"
        /\ OpenToken(r, job[r].runs, "fill_stamp")
    BY <1>7 DEF StampToken
  <2> QED
    BY <1>0, <2>1, <2>2, OpenAlone
<1>8. ASSUME NEW r \in Runs, CheckBalance(r) PROVE Sequential'
  <2>1. Own(r) /\ \A q \in Runs \ {r} : ~Active(q) /\ pc'[q] = pc[q]
    BY <1>0, <1>8 DEF CheckBalance, Sequential, Active, Ended
  <2>2. pc'[r] \notin Ended => Own(r)'
    BY <1>0, <1>8, <2>1 DEF CheckBalance, Fits, Holds, Own, OfVault, Drafted, Stored,
       Late, Ended
  <2> QED
    BY <1>8, <2>1, <2>2, AloneQuiet DEF CheckBalance
<1>9. ASSUME NEW r \in Runs, BadInput(r) PROVE Sequential'
  <2>1. Own(r) /\ \A q \in Runs \ {r} : ~Active(q) /\ pc'[q] = pc[q]
    BY <1>0, <1>9 DEF BadInput, Sequential, Active, Ended
  <2>2. pc'[r] \notin Ended => Own(r)'
    BY <1>0, <1>9, <2>1 DEF BadInput, Fits, Holds, Own, OfVault, Drafted, Stored, Late,
       Ended
  <2> QED
    BY <1>9, <2>1, <2>2, AloneQuiet DEF BadInput
<1>10. ASSUME NEW r \in Runs, BuildBlocks(r) PROVE Sequential'
  <2>1. Own(r) /\ \A q \in Runs \ {r} : ~Active(q) /\ pc'[q] = pc[q]
    BY <1>0, <1>10 DEF BuildBlocks, Sequential, Active, Ended
  <2>2. pc'[r] \notin Ended => Own(r)'
    BY <1>0, <1>10, <2>1 DEF BuildBlocks, Fits, Holds, Own, OfVault, Drafted, Stored,
       Late, Ended
  <2> QED
    BY <1>10, <2>1, <2>2, AloneQuiet DEF BuildBlocks
<1>11. ASSUME NEW r \in Runs, EmptyPrompt(r) PROVE Sequential'
  <2>1. Own(r) /\ \A q \in Runs \ {r} : ~Active(q) /\ pc'[q] = pc[q]
    BY <1>0, <1>11 DEF EmptyPrompt, Sequential, Active, Ended
  <2>2. pc'[r] \notin Ended => Own(r)'
    BY <1>0, <1>11, <2>1 DEF EmptyPrompt, Fits, Holds, Own, OfVault, Drafted, Stored,
       Late, Ended
  <2> QED
    BY <1>11, <2>1, <2>2, AloneQuiet DEF EmptyPrompt
<1>12. ASSUME NEW r \in Runs, ProbeArchive(r) PROVE Sequential'
  <2>1. Own(r) /\ \A q \in Runs \ {r} : ~Active(q) /\ pc'[q] = pc[q]
    BY <1>0, <1>12 DEF ProbeArchive, Sequential, Active, Ended
  <2>2. FreeName("archive", r) \notin DOMAIN shelf
    BY <1>0, FreeNameIsFree DEF Typed
  <2>3. pc'[r] \notin Ended => Own(r)'
    BY <1>0, <1>12, <2>1, <2>2 DEF ProbeArchive, Set, Jobs, Own, OfVault, Drafted, Stored, Late
  <2> QED
    BY <1>12, <2>1, <2>3, AloneQuiet DEF ProbeArchive
<1>13. ASSUME NEW r \in Runs, ReadBack(r) PROVE Sequential'
  <2>1. Own(r) /\ \A q \in Runs \ {r} : ~Active(q) /\ pc'[q] = pc[q]
    BY <1>0, <1>13 DEF ReadBack, Sequential, Active, Ended
  <2>2. pc'[r] \notin Ended => Own(r)'
    BY <1>0, <1>13, <2>1 DEF ReadBack, Set, Jobs, AfterLog, Fits, Holds, Own, OfVault,
       Drafted, Stored, Late, Ended
  <2> QED
    BY <1>13, <2>1, <2>2, AloneQuiet DEF ReadBack
<1>14. ASSUME NEW r \in Runs, ProbeHistory(r) PROVE Sequential'
  <2>1. Own(r) /\ \A q \in Runs \ {r} : ~Active(q) /\ pc'[q] = pc[q]
    BY <1>0, <1>14 DEF ProbeHistory, Sequential, Active, Ended
  <2>2. FreeName(HistoryDir, r) \notin DOMAIN shelf
    BY <1>0, FreeNameIsFree DEF Typed
  <2>3. pc'[r] \notin Ended => Own(r)'
    BY <1>0, <1>14, <2>1, <2>2 DEF ProbeHistory, Set, Jobs, Own, OfVault, Drafted, Stored, Late
  <2> QED
    BY <1>14, <2>1, <2>3, AloneQuiet DEF ProbeHistory
<1>15. ASSUME NEW r \in Runs, Charge(r) PROVE Sequential'
  <2>1. Own(r) /\ \A q \in Runs \ {r} : ~Active(q) /\ pc'[q] = pc[q]
    BY <1>0, <1>15 DEF Charge, OpenToken, Sequential, Active, Ended
  <2>2. /\ pc[r] = "charge"
        /\ OpenToken(r, job[r].runs - 1, "fill_charge")
    BY <1>15 DEF Charge
  <2> QED
    BY <1>0, <2>1, <2>2, OpenAlone
<1>16. ASSUME NEW r \in Runs, ReadTally(r) PROVE Sequential'
  <2>1. Own(r) /\ \A q \in Runs \ {r} : ~Active(q) /\ pc'[q] = pc[q]
    BY <1>0, <1>16 DEF ReadTally, Sequential, Active, Ended
  <2>2. pc'[r] \notin Ended => Own(r)'
    BY <1>0, <1>16, <2>1 DEF ReadTally, Set, Jobs, Fits, Holds, Own, OfVault, Drafted,
       Stored, Late, Ended
  <2> QED
    BY <1>16, <2>1, <2>2, AloneQuiet DEF ReadTally
<1>17. ASSUME NEW r \in Runs, WriteTally(r) PROVE Sequential'
  <2>1. Own(r) /\ \A q \in Runs \ {r} : ~Active(q) /\ pc'[q] = pc[q]
    BY <1>0, <1>17 DEF WriteTally, OpenToken, Sequential, Active, Ended
  <2>2. /\ pc[r] = "write_tally"
        /\ OpenToken(r, IF job[r].runs > 0 THEN job[r].runs - 1 ELSE 0, "fill_charge")
    BY <1>17 DEF WriteTally
  <2> QED
    BY <1>0, <2>1, <2>2, OpenAlone
<1>18. ASSUME NEW r \in Runs, Meter(r) PROVE Sequential'
  <2>1. Own(r) /\ \A q \in Runs \ {r} : ~Active(q) /\ pc'[q] = pc[q]
    BY <1>0, <1>18 DEF Meter, Sequential, Active, Ended
  <2>2. pc'[r] \notin Ended => Own(r)'
    BY <1>0, <1>18, <2>1 DEF Meter, Fits, Holds, Own, OfVault, Drafted, Stored, Late,
       Ended
  <2> QED
    BY <1>18, <2>1, <2>2, AloneQuiet DEF Meter
<1>19. ASSUME NEW r \in Runs, Assemble(r) PROVE Sequential'
  <2>1. Own(r) /\ \A q \in Runs \ {r} : ~Active(q) /\ pc'[q] = pc[q]
    BY <1>0, <1>19 DEF Assemble, Sequential, Active, Ended
  <2>2. job[r].approver \in {None, vault} /\ job[r].approver \in Seeds
    BY <1>0, <2>1 DEF Own, Jobs
  <2>3. LET chain == ApprovalChain(Decision(r), job[r].ctx.dry_run, job[r].approver)
        IN  \A i \in DOMAIN chain : vault # None /\ chain[i].approver_pubkey = vault
    BY <2>2, ChainIsOfKey
  <2>4. /\ pc'[r] = "sign" /\ pc[r] = "assemble" /\ UNCHANGED <<vault, files, token>>
        /\ \A f \in {"minting", "approver", "runs"} : job'[r][f] = job[r][f]
        /\ job'[r].receipt.signer = None
        /\ job'[r].receipt.approval_chain =
             ApprovalChain(Decision(r), job[r].ctx.dry_run, job[r].approver)
    BY <1>0, <1>19 DEF Assemble, Jobs
  <2>5. /\ job'[r].minting = job[r].minting /\ job'[r].approver = job[r].approver
        /\ job'[r].runs = job[r].runs
    BY <2>4
  <2>6. OfVault(job[r].receipt)'
    BY <2>3, <2>4 DEF OfVault
  <2>7. Own(r)'
    BY <2>1, <2>4, <2>5, <2>6 DEF Own, Drafted, Stored, Late
  <2> QED
    BY <2>1, <2>4, <2>7, AloneQuiet
<1>20. ASSUME NEW r \in Runs, LookUpSeed(r) PROVE Sequential'
  <2>1. Own(r) /\ \A q \in Runs \ {r} : ~Active(q) /\ pc'[q] = pc[q]
    BY <1>0, <1>20 DEF LookUpSeed, UseSeed, Sequential, Active, Ended
  <2>2. pc[r] \in {"approve", "sign"} /\ UNCHANGED <<vault, files, money>>
    BY <1>20 DEF LookUpSeed
  <2>3. ASSUME NEW seed \in {None, vault'}, UseSeed(r, seed) PROVE Sequential'
    BY <2>1, <2>2, <2>3, UseSeedAlone
  <2>4. CASE vault = None /\ Set(r, "minting", minted + 1) /\ UNCHANGED pc
    <3>1. Own(r)'
      BY <1>0, <2>1, <2>2, <2>4 DEF Set, Jobs, Own, OfVault, Drafted, Stored, Late
    <3> QED
      BY <2>1, <2>2, <3>1, AloneQuiet
  <2>5. \/ UseSeed(r, vault)
        \/ UseSeed(r, None)
        \/ vault = None /\ Set(r, "minting", minted + 1) /\ UNCHANGED pc
    BY <1>20 DEF LookUpSeed
  <2>6. UseSeed(r, vault) => \E seed \in {None, vault'} : UseSeed(r, seed)
    BY <2>2 DEF UseSeed
  <2> QED
    BY <2>3, <2>4, <2>5, <2>6
<1>21. ASSUME NEW r \in Runs, SaveSeed(r) PROVE Sequential'
  <2>1. Own(r) /\ \A q \in Runs \ {r} : ~Active(q) /\ pc'[q] = pc[q]
    BY <1>0, <1>21 DEF SaveSeed, UseSeed, Sequential, Active, Ended
  <2>2. /\ pc[r] \in {"approve", "sign"} /\ UNCHANGED <<files, money>>
        /\ vault = None
    BY <1>21, <2>1 DEF SaveSeed, Own
  <2>3. ASSUME NEW seed \in {None, vault'}, UseSeed(r, seed) PROVE Sequential'
    BY <2>1, <2>2, <2>3, UseSeedAlone
  <2>4. \/ UseSeed(r, None)
        \/ vault' = job[r].minting /\ UseSeed(r, job[r].minting)
    BY <1>21 DEF SaveSeed
  <2>5. vault' = job[r].minting /\ UseSeed(r, job[r].minting)
          => \E seed \in {None, vault'} : UseSeed(r, seed)
    BY DEF UseSeed
  <2> QED
    BY <2>3, <2>4, <2>5
<1>22. ASSUME NEW r \in Runs, SaveReceipt(r) PROVE Sequential'
  <2>1. Own(r) /\ \A q \in Runs \ {r} : ~Active(q) /\ pc'[q] = pc[q]
    BY <1>0, <1>22 DEF SaveReceipt, Sequential, Active, Ended
  <2>2. /\ pc[r] = "save" /\ OfVault(job[r].receipt)
        /\ UNCHANGED <<job, vault, shelf, auditLog, token>>
        /\ saved' \subseteq saved \cup {job[r].receipt}
    BY <1>22, <2>1 DEF SaveReceipt, Own, Drafted
  <2>3. pc'[r] \notin Ended =>
          pc'[r] \in {"history", "archive"} /\ canonical'[Schema(r)] = job[r].receipt
    BY <1>0, <1>22 DEF SaveReceipt, Ended
  <2>4. pc'[r] \notin Ended => Own(r)'
    BY <2>1, <2>2, <2>3 DEF Own, OfVault, Drafted, Stored, Late
  <2>5. \A rc \in saved' : OfVault(rc)'
    BY <1>0, <2>2 DEF Sequential, OfVault
  <2>6. LoggedProofKept'
    BY <1>0, <2>2 DEF Sequential, LoggedProofKept
  <2> QED
    BY <2>1, <2>4, <2>5, <2>6, Alone
<1>23. ASSUME NEW r \in Runs, OpenArchive(r) PROVE Sequential'
  <2>1. Own(r) /\ \A q \in Runs \ {r} : ~Active(q) /\ pc'[q] = pc[q]
    BY <1>0, <1>23 DEF OpenArchive, Sequential, Active, Ended
  <2>2. /\ pc[r] = "open" /\ job[r].name \notin DOMAIN shelf
        /\ UNCHANGED <<job, vault, canonical, auditLog, saved, token>>
        /\ \/ pc'[r] = "fill" /\ Store(job[r].name, Partial)
           \/ pc'[r] = AfterArchive(r) /\ UNCHANGED shelf
    BY <1>0, <1>23, <2>1 DEF OpenArchive, Own
  <2>3. AfterArchive(r) \in {"done", "charge", "history", "assemble", "failed"}
    BY <1>0, <2>2 DEF AfterArchive, Fits, Kinds
  <2>4. \A n \in DOMAIN shelf : n \in DOMAIN shelf' /\ shelf'[n] = shelf[n]
    BY <2>2 DEF Store
  <2>5. LoggedProofKept'
    BY <1>0, <2>2, <2>4 DEF Sequential, LoggedProofKept
  <2>6. \A line \in auditLog : line.history # None => line.history # job[r].name
    BY <1>0, <2>2 DEF Sequential, LoggedProofKept
  <2>7. pc'[r] = "fill" => job[r].name \in DOMAIN shelf' /\ shelf'[job[r].name] = Partial
    BY <2>2, <2>3 DEF Store
  <2>8. pc'[r] \notin Ended => Own(r)'
    BY <2>1, <2>2, <2>3, <2>6, <2>7 DEF Own, OfVault, Drafted, Stored, Late, Ended
  <2>9. \A rc \in saved' : OfVault(rc)'
    BY <1>0, <2>2 DEF Sequential, OfVault
  <2> QED
    BY <2>1, <2>5, <2>8, <2>9, Alone
<1>24. ASSUME NEW r \in Runs, FillArchive(r) PROVE Sequential'
  <2>1. Own(r) /\ \A q \in Runs \ {r} : ~Active(q) /\ pc'[q] = pc[q]
    BY <1>0, <1>24 DEF FillArchive, Sequential, Active, Ended
  <2>2. /\ pc[r] = "fill" /\ pc'[r] = AfterArchive(r)
        /\ UNCHANGED <<job, vault, canonical, auditLog, saved, token>>
        /\ Store(job[r].name, job[r].receipt) \/ UNCHANGED shelf
    BY <1>0, <1>24 DEF FillArchive
  <2>3. AfterArchive(r) \in {"done", "charge", "history", "assemble", "failed"}
    BY <1>0, <2>2 DEF AfterArchive, Fits, Kinds
  <2>4. \A n \in DOMAIN shelf : n # job[r].name => n \in DOMAIN shelf' /\ shelf'[n] = shelf[n]
    BY <2>2 DEF Store
  <2>5. \A line \in auditLog : line.history # None => line.history # job[r].name
    BY <2>1, <2>2 DEF Own
  <2>6. LoggedProofKept'
    BY <1>0, <2>2, <2>4, <2>5 DEF Sequential, LoggedProofKept
  <2>7. pc'[r] \notin Ended => Own(r)'
    BY <2>1, <2>2, <2>3 DEF Own, OfVault, Drafted, Stored, Late, Ended
  <2>8. \A rc \in saved' : OfVault(rc)'
    BY <1>0, <2>2 DEF Sequential, OfVault
  <2> QED
    BY <2>1, <2>6, <2>7, <2>8, Alone
<1>25. ASSUME NEW r \in Runs, KeepHistory(r) PROVE Sequential'
  <2>1. Own(r) /\ \A q \in Runs \ {r} : ~Active(q) /\ pc'[q] = pc[q]
    BY <1>0, <1>25 DEF KeepHistory, Sequential, Active, Ended
  <2>2. /\ pc[r] = "keep" /\ pc'[r] = "log" /\ job[r].name \notin DOMAIN shelf
        /\ UNCHANGED <<vault, canonical, auditLog, saved, token>>
    BY <1>0, <1>25, <2>1 DEF KeepHistory, Own
  <2>3. \/ Store(job[r].name, job[r].copy) /\ job' = job
        \/ /\ Store(job[r].name, job[r].copy) \/ UNCHANGED shelf
           /\ Set(r, "name", None)
    BY <1>25 DEF KeepHistory
  <2>4. \A n \in DOMAIN shelf : n \in DOMAIN shelf' /\ shelf'[n] = shelf[n]
    BY <2>2, <2>3 DEF Store
  <2>5. /\ \A f \in {"minting", "approver", "receipt", "runs", "copy"} : job'[r][f] = job[r][f]
        /\ job'[r].name # None =>
              job'[r].name \in DOMAIN shelf' /\ shelf'[job'[r].name] = job[r].copy
    BY <1>0, <2>3 DEF Store, Set, Jobs
  <2>6. /\ job'[r].minting = job[r].minting /\ job'[r].approver = job[r].approver
        /\ job'[r].receipt = job[r].receipt /\ job'[r].runs = job[r].runs
        /\ job'[r].copy = job[r].copy
    BY <2>5
  <2>7. Own(r)'
    BY <2>1, <2>2, <2>5, <2>6 DEF Own, OfVault, Drafted, Stored, Late
  <2>8. LoggedProofKept'
    BY <1>0, <2>2, <2>4 DEF Sequential, LoggedProofKept
  <2>9. \A rc \in saved' : OfVault(rc)'
    BY <1>0, <2>2 DEF Sequential, OfVault
  <2> QED
    BY <2>1, <2>7, <2>8, <2>9, Alone
<1>26. ASSUME NEW r \in Runs, AppendLog(r) PROVE Sequential'
  <2>1. Own(r) /\ \A q \in Runs \ {r} : ~Active(q) /\ pc'[q] = pc[q]
    BY <1>0, <1>26 DEF AppendLog, Sequential, Active, Ended
  <2>2. /\ pc[r] = "log" /\ pc'[r] \in {"tally", "done"}
        /\ UNCHANGED <<job, vault, canonical, shelf, saved, token>>
        /\ pc'[r] = "tally" => Kind[r] = "audit"
    BY <1>0, <1>26 DEF AppendLog, AfterLog
  <2>4. job[r].name # None =>
          job[r].name \in DOMAIN shelf /\ shelf[job[r].name] = job[r].copy
    BY <2>1, <2>2 DEF Own
  <2>5. LoggedProofKept'
    BY <1>0, <1>26, <2>2, <2>4 DEF AppendLog, Sequential, LoggedProofKept
  <2>6. pc'[r] \notin Ended => Own(r)'
    BY <2>1, <2>2 DEF Own, OfVault, Drafted, Stored, Late, Ended
  <2>7. \A rc \in saved' : OfVault(rc)'
    BY <1>0, <2>2 DEF Sequential, OfVault
  <2> QED
    BY <2>1, <2>5, <2>6, <2>7, Alone
<1>27. ASSUME NEW r \in Runs, FillToken(r) PROVE Sequential'
  <2>1. Own(r) /\ \A q \in Runs \ {r} : ~Active(q) /\ pc'[q] = pc[q]
    BY <1>0, <1>27 DEF FillToken, Sequential, Active, Ended
  <2>2. /\ UNCHANGED <<job, vault, files>>
        /\ \/ pc[r] = "fill_stamp" /\ pc'[r] = "replace_stamp"
           \/ pc[r] = "fill_charge" /\ pc'[r] = "replace_charge"
           \/ pc'[r] = "aborted"
    BY <1>0, <1>27 DEF FillToken
  <2>3. UNCHANGED token
    <3>1. /\ job[r].inode = renames /\ pc[r] \in {"fill_stamp", "fill_charge"}
          /\ renames \in Nat
      BY <1>0, <1>27 DEF Clean, FillToken, Typed
    <3> QED
      BY <1>27, <3>1 DEF FillToken
  <2>4. pc'[r] \notin Ended => Own(r)'
    BY <2>1, <2>2, <2>3 DEF Own, OfVault, Drafted, Stored, Late, Ended
  <2> QED
    BY <2>1, <2>2, <2>4, AloneQuiet
<1>28. ASSUME NEW r \in Runs, ReplaceToken(r) PROVE Sequential'
  <2>1. Own(r) /\ \A q \in Runs \ {r} : ~Active(q) /\ pc'[q] = pc[q]
    BY <1>0, <1>28 DEF ReplaceToken, Sequential, Active, Ended
  <2>2. /\ UNCHANGED <<job, vault, files>>
        /\ \/ pc[r] = "replace_stamp" /\ pc'[r] = "check"
           \/ pc[r] = "replace_charge" /\ pc'[r] \in {"meter", "history", "done"}
           \/ pc'[r] = "aborted"
        /\ pc'[r] \in {"check", "meter"} => Metered
    BY <1>0, <1>28 DEF ReplaceToken, AfterCharge, Fits
  <2>3. pc'[r] \notin Ended => Own(r)'
    BY <2>1, <2>2 DEF Own, OfVault, Drafted, Stored, Late, Ended
  <2> QED
    BY <2>1, <2>2, <2>3, AloneQuiet
<1> QED
  BY <1>1, <1>2, <1>3, <1>4, <1>5, <1>6, <1>7, <1>8, <1>9, <1>10, <1>11, <1>12, <1>13,
     <1>14, <1>15, <1>16, <1>17, <1>18, <1>19, <1>20, <1>21, <1>22, <1>23, <1>24, <1>25,
     <1>26, <1>27, <1>28 DEF Next, Proceed

\* No two of them are in write_token.
LEMMA UncontestedStep ==
  ASSUME ~Concurrent, Inv, Sequential, contested = {}, [Next]_vars
  PROVE  contested' = {}
<1>1. ASSUME NEW r \in Runs, NEW count, NEW next, OpenToken(r, count, next),
             pc[r] \in {"stamp", "charge", "write_tally"}
      PROVE  contested' = {}
  <2>1. {q \in Runs \ {r} : pc[q] \in TokenWrites} = {}
    BY <1>1 DEF Sequential, Active, Ended, TokenWrites
  <2> QED
    BY <1>1, <2>1 DEF OpenToken
<1>2. ASSUME NEW r \in Runs, StampToken(r) \/ Charge(r) \/ WriteTally(r)
      PROVE  contested' = {}
  BY <1>1, <1>2 DEF StampToken, Charge, WriteTally
<1>3. \/ UNCHANGED contested
      \/ \E r \in Runs : StampToken(r) \/ Charge(r) \/ WriteTally(r)
  BY DEF vars, money, tokenFile, Next, Proceed, Tick, Gate, Kill, ReadToken, AskBalance,
     CheckBalance, BadInput, BuildBlocks, LookUpSeed, SaveSeed, EmptyPrompt,
     Assemble, SaveReceipt, ProbeArchive, OpenArchive, FillArchive, ReadBack,
     ProbeHistory, KeepHistory, AppendLog, ReadTally, FillToken, ReplaceToken, Meter
<1> QED
  BY <1>2, <1>3

LEMMA SequentialHolds ==
  ASSUME ~Concurrent PROVE Spec => [](Inv /\ Clean /\ Sequential /\ contested = {})
<1>1. Init => Inv /\ Clean /\ Sequential /\ contested = {}
  BY InitInv, InitClean, InitSequential DEF Init
<1>2. Inv /\ Clean /\ Sequential /\ contested = {} /\ [Next]_vars
        => (Inv /\ Clean /\ Sequential /\ contested = {})'
  <2> SUFFICES ASSUME Inv, Clean, Sequential, contested = {}, [Next]_vars
               PROVE Inv' /\ Clean' /\ Sequential' /\ contested' = {}
    OBVIOUS
  <2>1. Inv' /\ Clean'
    BY TypedStep, LocalStep, CleanStep DEF Inv
  <2> QED
    BY <2>1, SequentialStep, UncontestedStep
<1> QED
  BY <1>1, <1>2, PTL DEF Spec

\* Every receipt an install signs, and every approval it records, is of the one key
\* the vault holds, as long as its runs follow each other (_ensure_signing_seed).
THEOREM OneKey == ASSUME ~Concurrent PROVE Spec => []OneIdentity
<1>1. Sequential => OneIdentity
  BY DEF Sequential, OfVault, OneIdentity
<1> QED
  BY SequentialHolds, <1>1, PTL

\* The file a line of the audit log names holds the receipt the line is about from
\* then on (_archive_and_log).
THEOREM LoggedProof == ASSUME ~Concurrent PROVE Spec => []LoggedProofKept
<1>1. Sequential => LoggedProofKept
  BY DEF Sequential
<1> QED
  BY SequentialHolds, <1>1, PTL

\* A receipt that is complete in an archive stays there, as it is (_archive_receipt,
\* _archive_and_log).
THEOREM ProofsStay == ASSUME ~Concurrent PROVE Spec => NoProofDestroyed
<1>1. ASSUME Inv, Sequential, [Next]_vars,
             NEW n \in DOMAIN shelf, shelf[n] # Partial
      PROVE  n \in DOMAIN shelf' /\ shelf'[n] = shelf[n]
  <2>1. \A r \in Runs : Active(r) => Own(r)
    BY <1>1 DEF Sequential
  <2>2. ASSUME NEW r \in Runs, OpenArchive(r)
        PROVE  n \in DOMAIN shelf' /\ shelf'[n] = shelf[n]
    BY <2>1, <2>2 DEF OpenArchive, Active, Ended, Own, Store
  <2>3. ASSUME NEW r \in Runs, FillArchive(r)
        PROVE  n \in DOMAIN shelf' /\ shelf'[n] = shelf[n]
    BY <1>1, <2>1, <2>3 DEF FillArchive, Active, Ended, Own, Store
  <2>4. ASSUME NEW r \in Runs, KeepHistory(r)
        PROVE  n \in DOMAIN shelf' /\ shelf'[n] = shelf[n]
    BY <2>1, <2>4 DEF KeepHistory, Active, Ended, Own, Store
  <2>5. \/ UNCHANGED shelf
        \/ \E r \in Runs : OpenArchive(r) \/ FillArchive(r) \/ KeepHistory(r)
    <3> USE DEF files
    <3>1. CASE UNCHANGED vars \/ Tick
      BY <3>1 DEF vars, Tick
    <3>2. ASSUME NEW r \in Runs,
                 \/ Gate(r) \/ Kill(r) \/ ReadToken(r) \/ AskBalance(r) \/ CheckBalance(r)
                 \/ BadInput(r) \/ BuildBlocks(r) \/ EmptyPrompt(r)
          PROVE  UNCHANGED shelf
      BY <3>2 DEF Gate, Kill, ReadToken, AskBalance, CheckBalance, BadInput, BuildBlocks,
         EmptyPrompt
    <3>3. ASSUME NEW r \in Runs,
                 \/ LookUpSeed(r) \/ SaveSeed(r) \/ Assemble(r) \/ SaveReceipt(r)
                 \/ ProbeArchive(r) \/ ReadBack(r) \/ ProbeHistory(r) \/ AppendLog(r)
          PROVE  UNCHANGED shelf
      BY <3>3 DEF LookUpSeed, SaveSeed, Assemble, SaveReceipt, ProbeArchive, ReadBack,
         ProbeHistory, AppendLog
    <3>4. ASSUME NEW r \in Runs,
                 \/ StampToken(r) \/ Charge(r) \/ ReadTally(r) \/ WriteTally(r)
                 \/ FillToken(r) \/ ReplaceToken(r) \/ Meter(r)
          PROVE  UNCHANGED shelf
      BY <3>4 DEF StampToken, Charge, ReadTally, WriteTally, OpenToken, FillToken,
         ReplaceToken, Meter
    <3> QED
      BY <1>1, <3>1, <3>2, <3>3, <3>4 DEF Next, Proceed
  <2> QED
    BY <2>2, <2>3, <2>4, <2>5
<1>2. Inv /\ Sequential /\ [Next]_vars
        => [\A n \in DOMAIN shelf :
               shelf[n] # Partial => n \in DOMAIN shelf' /\ shelf'[n] = shelf[n]]_vars
  BY <1>1
<1> QED
  BY SequentialHolds, <1>2, PTL DEF Spec, NoProofDestroyed

----------------------------------------------------------------------------
(* The count of a trial.                                                    *)

CountedRuns == {r \in Runs : Counted(r)}

Budget == ~Metered /\ token \in Nat => Cardinality(CountedRuns) + token <= StartRuns

\* A run comes to count in one step only, which brings its count to the token.
LEMMA CountedByReplace ==
  ASSUME Inv, [Next]_vars, ~Metered, NEW q \in Runs, Counted(q)', ~Counted(q)
  PROVE  ReplaceToken(q) /\ pc[q] = "replace_charge" /\ token' = tmp
<1> USE DEF Goto, Counted
<1>0. /\ pc \in [Runs -> Places] /\ job \in [Runs -> Jobs]
      /\ \A r \in Runs : Fits(r) /\ Holds(r)
  BY DEF Inv, Typed, Local
<1>1. PICK r \in Runs : Gate(r) \/ Proceed(r) \/ Kill(r)
  BY DEF Next, Tick, vars
<1>2. CASE Gate(r) \/ Kill(r)
  BY <1>0, <1>2 DEF Gate, Kill, Ended, Set, Jobs
<1>3. CASE ReadToken(r) \/ AskBalance(r) \/ CheckBalance(r)
             \/ BadInput(r) \/ BuildBlocks(r) \/ EmptyPrompt(r)
  BY <1>0, <1>3 DEF ReadToken, AskBalance, CheckBalance, BadInput, BuildBlocks,
     EmptyPrompt, Set, Jobs, Ended
<1>4. CASE LookUpSeed(r) \/ SaveSeed(r) \/ Assemble(r)
  BY <1>0, <1>4 DEF LookUpSeed, SaveSeed, UseSeed, Assemble, Set
<1>5. CASE SaveReceipt(r) \/ ProbeArchive(r)
  BY <1>0, <1>5 DEF SaveReceipt, ProbeArchive, Set, Jobs
<1>6. CASE OpenArchive(r) \/ FillArchive(r)
  <2>1. pc'[q] \in {"fill", AfterArchive(q)} /\ UNCHANGED job /\ q = r
    BY <1>0, <1>6 DEF OpenArchive, FillArchive
  <2> QED
    BY <2>1 DEF AfterArchive
<1>7. CASE ReadBack(r) \/ ProbeHistory(r) \/ KeepHistory(r) \/ AppendLog(r)
  BY <1>0, <1>7 DEF ReadBack, ProbeHistory, KeepHistory, AppendLog, AfterLog, Set, Jobs
<1>8. CASE ReadTally(r) \/ Meter(r) \/ FillToken(r)
  BY <1>0, <1>8 DEF ReadTally, Meter, FillToken, Fits, Set, Jobs
<1>9. CASE StampToken(r) \/ Charge(r) \/ WriteTally(r)
  <2>1. pc'[r] \in {"fill_stamp", "fill_charge", "aborted"}
        /\ \A p \in Runs \ {r} : pc'[p] = pc[p] /\ job'[p] = job[p]
    BY <1>0, <1>9 DEF StampToken, Charge, WriteTally, OpenToken
  <2> QED
    BY <2>1
<1>10. CASE ReplaceToken(r)
  <2>1. q = r
    BY <1>0, <1>10 DEF ReplaceToken
  <2>2. pc'[r] \notin {"check", "aborted"} /\ UNCHANGED job /\ pc[r] # pc'[r]
    BY <1>10, <2>1 DEF ReplaceToken
  <2> QED
    BY <1>0, <1>10, <2>1, <2>2 DEF ReplaceToken
<1> QED
  BY <1>1, <1>2, <1>3, <1>4, <1>5, <1>6, <1>7, <1>8, <1>9, <1>10 DEF Proceed

LEMMA BudgetStep ==
  ASSUME ~Concurrent, IsFiniteSet(Runs), Inv, Clean, Sequential, contested = {}, Budget,
         [Next]_vars
  PROVE  Budget'
<1> SUFFICES ASSUME ~Metered, token' \in Nat
             PROVE  Cardinality(CountedRuns') + token' <= StartRuns
  BY DEF Budget
<1>0. /\ token \in Nat \cup {None}
      /\ \A r \in Runs : job[r].runs \in Nat /\ job[r].count \in Nat /\ Fits(r) /\ Solvent(r)
      /\ \A r \in Runs : Active(r) => Own(r)
  BY DEF Clean, Inv, Typed, Jobs, Local, Sequential
<1>1. /\ IsFiniteSet(CountedRuns) /\ IsFiniteSet(CountedRuns')
      /\ Cardinality(CountedRuns) \in Nat /\ Cardinality(CountedRuns') \in Nat
  BY FS_Subset, FS_CardinalityType DEF CountedRuns
<1>2. ASSUME NEW r \in Runs, ReplaceToken(r), token' = tmp,
             pc[r] = "replace_charge", Kind[r] # "audit"
      PROVE  Cardinality(CountedRuns') + token' <= StartRuns
  <2>1. token = job[r].runs /\ token' = token - 1 /\ token \in Nat
    <3>1. tmp = job[r].count /\ job[r].count = job[r].runs - 1
      BY <1>0, <1>2 DEF Clean, Solvent
    <3>2. token = job[r].runs
      BY <1>0, <1>2 DEF Own, Active, Ended, Fits, Cli, Late
    <3> QED
      BY <1>0, <1>2, <3>1, <3>2
  <2>2. \A q \in Runs \ {r} : ~(ReplaceToken(q) /\ pc[q] = "replace_charge")
    BY <1>2 DEF Sequential, Active, Ended
  <2>3. CountedRuns' \subseteq CountedRuns \cup {r}
    BY <2>2, CountedByReplace DEF CountedRuns
  <2>4. /\ IsFiniteSet(CountedRuns \cup {r})
        /\ Cardinality(CountedRuns \cup {r}) \in Nat
        /\ Cardinality(CountedRuns \cup {r}) <= Cardinality(CountedRuns) + 1
    <3>1. /\ IsFiniteSet(CountedRuns \cup {r})
          /\ Cardinality(CountedRuns \cup {r}) =
               IF r \in CountedRuns THEN Cardinality(CountedRuns)
               ELSE Cardinality(CountedRuns) + 1
      BY <1>1, FS_AddElement
    <3> QED
      BY <1>1, <3>1
  <2>5. Cardinality(CountedRuns') <= Cardinality(CountedRuns \cup {r})
    BY <2>3, <2>4, FS_Subset
  <2> QED
    BY <1>1, <2>1, <2>4, <2>5 DEF Budget
<1>3. CASE CountedRuns' \subseteq CountedRuns
  <2>1. Cardinality(CountedRuns') <= Cardinality(CountedRuns)
    BY <1>1, <1>3, FS_Subset
  <2>2. \/ UNCHANGED token
        \/ \E r \in Runs : FillToken(r) \/ ReplaceToken(r)
    BY DEF vars, money, tokenFile, Next, Proceed, Tick, Gate, Kill, ReadToken, AskBalance,
       StampToken, Charge, WriteTally, OpenToken,
       CheckBalance, BadInput, BuildBlocks, LookUpSeed, SaveSeed, EmptyPrompt,
       Assemble, SaveReceipt, ProbeArchive, OpenArchive, FillArchive, ReadBack,
       ProbeHistory, KeepHistory, AppendLog, ReadTally, Meter
  <2>3. ASSUME NEW r \in Runs, FillToken(r) PROVE UNCHANGED token
    <3>1. job[r].inode = renames /\ renames \in Nat
      BY <2>3 DEF Clean, FillToken, Inv, Typed
    <3> QED
      BY <2>3, <3>1 DEF FillToken
  <2>4. ASSUME NEW r \in Runs, ReplaceToken(r) PROVE token \in Nat /\ token' <= token
    <3>1. CASE UNCHANGED token
      BY <3>1
    <3>2. CASE token' = tmp
      <4>1. tmp = job[r].count /\ pc[r] = "replace_charge"
        BY <1>0, <2>4 DEF Clean, ReplaceToken, Fits
      <4>2. job[r].count <= job[r].runs /\ token = job[r].runs
        BY <1>0, <2>4, <4>1 DEF Solvent, Own, Active, Ended, Fits, Cli, Late
      <4> QED
        BY <1>0, <3>2, <4>1, <4>2
    <3> QED
      BY <2>4, <3>1, <3>2 DEF ReplaceToken
  <2>5. token \in Nat /\ token' <= token
    BY <1>0, <2>2, <2>3, <2>4
  <2> QED
    BY <1>1, <2>1, <2>5 DEF Budget
<1>4. CASE ~(CountedRuns' \subseteq CountedRuns)
  <2>1. PICK r \in Runs : Counted(r)' /\ ~Counted(r)
    BY <1>4 DEF CountedRuns
  <2>2. ReplaceToken(r) /\ pc[r] = "replace_charge" /\ token' = tmp
    BY <2>1, CountedByReplace
  <2> QED
    BY <1>2, <2>1, <2>2 DEF Counted
<1> QED
  BY <1>3, <1>4

\* A trial install completes no more builds and interprets than it had runs, and no
\* count goes below zero, as long as its runs follow each other (cmd_build).
THEOREM TrialIsCounted ==
  ASSUME ~Concurrent, IsFiniteSet(Runs)
  PROVE  Spec => []RunsAreCounted
<1>1. Init => Budget
  <2> SUFFICES ASSUME Init PROVE Budget
    OBVIOUS
  <2>1. CountedRuns = {}
    BY DEF Init, CountedRuns, Counted
  <2> QED
    BY <2>1, FS_EmptySet DEF Init, Budget
<1>2. Inv /\ Clean /\ Sequential /\ contested = {} /\ Budget /\ [Next]_vars => Budget'
  BY BudgetStep
<1>3. Inv /\ Budget => RunsAreCounted
  <2>1. Inv => TypeOK
    BY DEF Inv, Typed, TypeOK
  <2> QED
    BY <2>1 DEF Budget, CountedRuns, RunsAreCounted
<1> QED
  BY SequentialHolds, <1>1, <1>2, <1>3, PTL DEF Spec
=============================================================================

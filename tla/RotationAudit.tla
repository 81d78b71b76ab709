---------------------------- MODULE RotationAudit ----------------------------
(***************************************************************************)
(* What an auditor is told about an install's receipts while its key is     *)
(* rotated: KeyRotation supplies the keys that signed something and the key *)
(* documents there are, ReceiptVerify the verdicts.                         *)
(***************************************************************************)
EXTENDS KeyRotation

INSTANCE ReceiptVerify

\* The issuer of identity credentials, and the keys of a team.
CONSTANTS Issuer, Root, Alice, Bob, Stranger

----------------------------------------------------------------------------
(* Receipts.                                                                *)

Disclosed == <<"a", "b", "c">>

Body(leaves) ==
    [text |-> "as signed", leaves |-> leaves, root |-> Merkle(Disclosed), steps |-> Len(leaves)]

Nested(schema, body, key) ==
    [schema |-> schema, body |-> body, integrity |-> body,
     block |-> Signature(key, body), flat |-> None]

Flat(body, key) ==
    [schema |-> "cli", body |-> body, integrity |-> None,
     block |-> None, flat |-> Signature(key, body)]

\* What a station with this key makes.
Genuine == [ key \in Keys |->
    {Flat(Body(Disclosed), key)}
    \cup {Nested(schema, Body(Disclosed), key) : schema \in {"studio", "dagrun", "agent"}} ]

Leaves == BoundedSeq({"a", "b", "c"}, 4)

\* An agent's receipt that discloses other leaves than its root is made of.
Misderived == [ key \in Keys |->
    {Nested("agent", Body(leaves), key) : leaves \in Leaves \ {Disclosed}} ]

\* The body, or the body and its hash, changed after signing; a signature gone.
Edited(r) == [r EXCEPT !.body.text = "edited"]
Resealed(r) == [Edited(r) EXCEPT !.integrity = IF r.integrity = None THEN None ELSE Edited(r).body]
Stripped(r) == [r EXCEPT !.flat = None, !.block = None]

Altered == [ key \in Keys |->
    UNION { {Edited(r), Resealed(r), Stripped(r)} : r \in Genuine[key] } ]

----------------------------------------------------------------------------
(* Key documents.                                                           *)

Read(document) == IF document \in Keys THEN document ELSE None

\* With --key, any document of this install; without, the published one.
Documents == {published} \cup {archive[s] : s \in Seconds}

NoKey == [given |-> FALSE, doc |-> None]

Named == {[given |-> TRUE, doc |-> Read(d)] : d \in Documents}

Verdict(r, named) == CmdVerify(r, named, Read(published))

\* None is no part of a receipt.
ASSUME AuditAssumption ==
    /\ None # Merkle(Disclosed) /\ None # 1 .. 2
    /\ \A key \in Keys : None \notin {Body(Disclosed), Signature(key, Body(Disclosed))}

----------------------------------------------------------------------------
(* Properties.                                                              *)

\* "Receipts signed BEFORE now were signed by the old key - they still verify"
\* (cmd_rotate_key), and "a signature that verifies under a DIFFERENT key_id is
\* a distinct, honest verdict" (railcall_verify_standalone): some document of
\* the install verifies each receipt; no other one does, nor is a receipt that
\* names its key called invalid under it; and the two verifiers say the same.
GenuineVerifies ==
    \A key \in signed : \A r \in Genuine[key] :
        /\ \E n \in Named : Verdict(r, n) = "valid"
        /\ \A n \in Named :
              /\ Verdict(r, n) = "valid" <=> n.doc = key
              /\ IsNested(r) => Verdict(r, n) # "invalid"
              /\ n.doc # None => Standalone(r, n.doc) = Verdict(r, n)
        /\ ~IsNested(r) => Verdict(r, NoKey) = "valid"

\* "Verifying only the signature would pass a receipt whose BODY was edited but
\* whose hash field left stale" (_verify_studio_receipt): whatever document is
\* trusted, no altered receipt verifies, nor one whose leaves do not give its
\* root, but for a Studio receipt whose body, which nothing hashes again, was
\* changed; and the credential of one key attests no receipt of another.
AlteredIsCaught ==
    /\ \A key \in signed, n \in Named \cup {NoKey} :
          /\ \A r \in Altered[key] :
                Verdict(r, n) = "valid" => r.schema = "studio" /\ r.integrity # r.body
          /\ \A r \in Misderived[key] : Verdict(r, n) # "valid"
    /\ \A station \in Keys, d \in Documents \cap Keys :
          LET body == [station |-> station, window |-> 1 .. 2]
          IN  \A signer \in {Issuer, Stranger}, created \in {1, 3, None} :
                 IdentityVerdict([body |-> body, signature |-> Signature(signer, body)],
                                 created, d, Issuer) = "attested"
                 => station = d /\ signer = Issuer /\ created # 3

----------------------------------------------------------------------------

Approvers == {Alice, Bob}

Approvals ==
    { [by |-> a, signature |-> Signature(s, m)] :
        a \in {Alice, Bob, Stranger}, s \in {Alice, Bob}, m \in {"this", "other"} }

TeamBlocks ==
    { [manifest |-> [root |-> Root, approvers |-> Approvers,
                     signature |-> Signature(root, Approvers)],
       action |-> action, approvals |-> approvals, quorum |-> quorum] :
        root \in {Root, Stranger}, action \in {"this", "other"},
        approvals \in BoundedSeq(Approvals, 2), quorum \in {None, -1, 0, 1, 2, 3} }

AgreedByQuorum ==
    \A block \in TeamBlocks :
        TeamVerdict(block, "this") = "approved" =>
            LET agreed == { a \in Approvers :
                              [by |-> a, signature |-> Signature(a, "this")]
                                \in ToSet(block.approvals) }
            IN  /\ block.manifest.signature.key = Root
                /\ agreed # {}
                /\ block.quorum # None => Cardinality(agreed) >= block.quorum

\* "Distinct approvers >= quorum" (_verify_team_approval): a team's approval is
\* confirmed only when as many of its approvers as the quorum says, and one at
\* the least, signed the decision on this very receipt.
TeamNeedsQuorum == signed # {} => AgreedByQuorum

\* "A quorum below 1 must never verify" (_verify_team_approval).
QuorumIsPositive ==
    \A block \in TeamBlocks :
        TeamVerdict(block, "this") = "approved" /\ block.quorum # None => block.quorum >= 1

\* "Receipt is authentic and unmodified" (railcall_verify_standalone).
StandaloneCatches ==
    \A key \in signed, d \in Documents \cap Keys : \A r \in Altered[key] \cup Misderived[key] :
        Standalone(r, d) # "valid"
=============================================================================

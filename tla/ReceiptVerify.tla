---------------------------- MODULE ReceiptVerify ----------------------------
(***************************************************************************)
(* The two offline verifiers of a receipt, `railcall verify' (cmd_verify)   *)
(* and railcall_verify_standalone.py, as functions of a receipt and a key   *)
(* document, with the two further signatures a receipt may carry: the       *)
(* issuer's on an identity credential and the approvers' on a team block.   *)
(*                                                                          *)
(* A key, its id and its public half are one value.  A hash is the thing    *)
(* hashed, and a signature the key and the thing signed: no two things have *)
(* the same hash, and a signature is checked, never made.                   *)
(***************************************************************************)
EXTENDS Integers, FiniteSets, SequencesExt

CONSTANT None

\* Schemas whose body cmd_verify hashes again; the Studio's builds, runs and
\* workflow receipts come under "studio", the CLI's own under "cli".
Recomputed == {"dagrun", "agent"}

Signature(key, message) == [key |-> key, over |-> message]

Signs(signature, key, message) == signature = Signature(key, message)

----------------------------------------------------------------------------
(* The Merkle root over an agent's leaves.                                  *)

\* Neighbours are joined, an odd last node is carried up as it is.
Level(nodes) ==
    [ i \in 1 .. (Len(nodes) + 1) \div 2 |->
        IF 2 * i <= Len(nodes) THEN <<1, nodes[2 * i - 1], nodes[2 * i]>>
        ELSE nodes[2 * i - 1] ]

\* As often as it takes to come down to one node.
Levels(n) == CHOOSE l \in 0 .. n : 2 ^ l >= n /\ \A k \in 0 .. n : 2 ^ k >= n => l <= k

Merkle(leaves) ==
    LET ground == [i \in DOMAIN leaves |-> <<0, leaves[i]>>]
        up[l \in 0 .. Len(leaves)] == IF l = 0 THEN ground ELSE Level(up[l - 1])
    IN  IF leaves = <<>> THEN None
        ELSE <<2, Len(leaves), up[Levels(Len(leaves))][1]>>

\* An agent's disclosed leaves give the root and the number of steps it claims.
LeavesHold(body) ==
    /\ Merkle(body.leaves) = body.root
    /\ Len(body.leaves) = body.steps

----------------------------------------------------------------------------
(* cmd_verify.                                                              *)

\* A nested block signs the integrity field, a flat one the whole body.
IsNested(r) == r.block # None /\ r.integrity # None

StudioVerdict_TrustsTheHash(r, doc) ==
    IF r.schema = "agent" /\ ~LeavesHold(r.body) THEN "altered"
    ELSE IF doc = None THEN "no_key"
    ELSE IF r.block.key # doc THEN "other_key"
    ELSE IF Signs(r.block, doc, r.integrity) THEN "valid"
    ELSE "invalid"

\* _verify_studio_receipt.  The key id a receipt names is its block's.
StudioVerdict(r, doc) ==
    IF r.schema \in Recomputed /\ r.integrity # r.body THEN "altered"
    ELSE IF r.schema = "agent" /\ ~LeavesHold(r.body) THEN "altered"
    ELSE IF doc = None THEN "no_key"
    ELSE IF r.block.key # doc THEN "other_key"
    ELSE IF Signs(r.block, doc, r.integrity) THEN "valid"
    ELSE "invalid"

\* A receipt without signature fields is one that lost them if it has a schema.
FlatVerdict(r, key) ==
    IF r.flat = None THEN IF r.schema = "none" THEN "unsigned" ELSE "invalid"
    ELSE IF Signs(r.flat, key, r.body) THEN "valid"
    ELSE "invalid"

CmdVerify_EmbeddedKeyFirst(r, named, installed) ==
    IF named.given /\ named.doc = None THEN "no_key"
    ELSE IF IsNested(r) THEN StudioVerdict(r, IF named.given THEN named.doc ELSE installed)
    ELSE FlatVerdict(r, IF r.flat # None THEN r.flat.key ELSE named.doc)

\* A key document the user names is trusted before this install's and before
\* the one a flat receipt embeds; one that does not load ends the command.
CmdVerify(r, named, installed) ==
    IF named.given /\ named.doc = None THEN "no_key"
    ELSE IF IsNested(r) THEN StudioVerdict(r, IF named.given THEN named.doc ELSE installed)
    ELSE FlatVerdict(r, IF named.given \/ r.flat = None THEN named.doc ELSE r.flat.key)

----------------------------------------------------------------------------
(* railcall_verify_standalone.py: the flat signature first, no body is      *)
(* hashed, and a flat receipt names no key id.                              *)

Standalone(r, doc) ==
    IF doc = None THEN "error"
    ELSE IF r.flat # None THEN
        IF Signs(r.flat, doc, r.body) THEN "valid" ELSE "invalid"
    ELSE IF ~IsNested(r) THEN "error"
    ELSE IF r.block.key # doc THEN "other_key"
    ELSE IF Signs(r.block, doc, r.integrity) THEN "valid"
    ELSE "invalid"

----------------------------------------------------------------------------
(* The identity credential and the team block.                              *)

\* _verify_identity_credential: a receipt or a credential without times is
\* not held to any.
IdentityVerdict(credential, created, signer, issuer) ==
    IF credential = None THEN "anonymous"
    ELSE IF /\ Signs(credential.signature, issuer, credential.body)
            /\ credential.body.station = signer
            /\ created # None /\ credential.body.window # None =>
                  created \in credential.body.window
         THEN "attested"
    ELSE "not_verified"

\* Of approvals by one key the first counts, and the first that does not hold
\* ends the check.
Firsts(approvals) ==
    { approvals[i] : i \in { j \in DOMAIN approvals :
                               \A k \in 1 .. j - 1 : approvals[k].by # approvals[j].by } }

\* _verify_team_approval: a missing quorum and a quorum of 0 count as 1.
TeamVerdict_CountsSignatures(block, receipt) ==
    IF block = None THEN "absent"
    ELSE LET manifest == block.manifest
             quorum == IF block.quorum \in {None, 0} THEN 1 ELSE block.quorum
         IN  IF /\ Signs(manifest.signature, manifest.root, manifest.approvers)
                /\ block.action = receipt
                /\ \A a \in ToSet(block.approvals) :
                      a.by \in manifest.approvers /\ Signs(a.signature, a.by, receipt)
                /\ quorum >= 1
                /\ Len(block.approvals) >= quorum
             THEN "approved" ELSE "not_verified"

TeamVerdict(block, receipt) ==
    IF block = None THEN "absent"
    ELSE LET manifest == block.manifest
             quorum == IF block.quorum \in {None, 0} THEN 1 ELSE block.quorum
             counted == Firsts(block.approvals)
         IN  IF /\ Signs(manifest.signature, manifest.root, manifest.approvers)
                /\ block.action = receipt
                /\ \A a \in counted :
                      a.by \in manifest.approvers /\ Signs(a.signature, a.by, receipt)
                /\ quorum >= 1
                /\ Cardinality(counted) >= quorum
             THEN "approved" ELSE "not_verified"
=============================================================================

---------------------------- MODULE ModuleInstall ----------------------------
(***************************************************************************)
(* A module from the publisher's directory through the marketplace to the   *)
(* station's modules directory: `market module sign', `market publish',     *)
(* `market accept-transfer', `market install', `install --from-path' and    *)
(* `module setup', with an editor at work in the publisher's directory and  *)
(* commands that stop half way, by an error or a kill.                      *)
(*                                                                          *)
(* One signing, one publishing and one installer command run at a time, any *)
(* of them beside the others.  The trust sidecars are not part of the       *)
(* signed tree and are left out; the requests of publish and                *)
(* accept-transfer are those of MarketSession.  The publisher's directory   *)
(* has no .venv of its own.                                                 *)
(***************************************************************************)
EXTENDS ModuleBundle

CONSTANTS
    Absent,
    MaxEdits,      \* bound on the edits of the publisher's directory
    MaxStops,      \* bound on commands that stop half way
    MaxCommands    \* bound on the commands

ASSUME InstallAssumption ==
    MaxEdits \in Nat /\ MaxStops \in Nat /\ MaxCommands \in Nat

VARIABLES
    disk,      \* the directories: the publisher's, accept-transfer's temporary
               \* one, and the module's in the station
    listed,    \* the listing's payload, or Absent
    signer,    \* `market module sign': where it is, what it has read and made
    pub,       \* `market publish' or accept-transfer: the same, and whether its
               \* directory verified and has not changed since (history)
    inst,      \* the installer command: the same, and whether its source is still
               \* what it was and the old directory is all gone (history)
    budget,    \* edits, stops and commands left
    whole,     \* the listing was posted from a directory that verified, and that
               \* nobody wrote to before the last read (history)
    venv       \* whether `module setup' has succeeded, and what has happened to
               \* its result (history)

ivars == <<disk, listed, signer, pub, inst, budget, whole, venv>>

Idle == "idle"

NoSigner == [at |-> Idle, manifest |-> Absent, handler |-> Absent, sig |-> Absent]

NoPub ==
    [ at |-> Idle, place |-> "work", manifest |-> Absent, handler |-> Absent,
      sig |-> Absent, tree |-> Absent, whole |-> FALSE ]

NoInst ==
    [at |-> Idle, bundle |-> Absent, todo |-> {}, nth |-> 1, stash |-> FALSE,
     source |-> Absent, sound |-> TRUE]

Signed(key, manifest, d) ==
    LET e == Put(d, ModuleJson, manifest)
    IN  Put(e, Sig, SignWith(key, manifest, e[Handler], Tree(e)))

\* A directory as its author leaves it: in the old format under the local key,
\* perhaps with further files and CRLF line ends, or in the new one under another
\* key; signed or not.
Draft(manifest, crlf, rest) ==
    Put(Put(rest, Handler, [text |-> 1, crlf |-> crlf]), ModuleJson, manifest)

Plain == Put(NoFiles, Sibling, 1)
Ignoring == Put(NoFiles, Ignore, TRUE)

Drafts ==
    LET old == [version |-> 1, key |-> "mine"]
        new == [version |-> 2, key |-> "theirs"]
        unsigned ==
            { Draft(old, FALSE, NoFiles), Draft(old, TRUE, Put(Plain, Ignore, TRUE)),
              Draft(new, FALSE, Plain) }
    IN  unsigned \cup { Signed(d[ModuleJson].key, d[ModuleJson], d) : d \in unsigned }

\* What another publisher has listed.
Foreign(rest) ==
    LET m == [version |-> 2, key |-> "theirs"]
        d == Signed("theirs", m, Draft(m, FALSE, rest))
    IN  Bundle(m, AsText(d[Handler]), d[Sig], Tree(d))

\* A module of theirs, installed and its .venv built.
Installed(rest) == Put(Unpacked(Foreign(rest)), Venv, TRUE)

InstallInit ==
    /\ disk \in [ work : Drafts, temp : {NoFiles},
                  station : {NoFiles, Installed(Ignoring)} ]
    /\ listed \in {Absent, Foreign(Put(NoFiles, Sibling, 2))}
    /\ listed = Absent => disk["station"] = NoFiles
    /\ signer = NoSigner
    /\ pub = NoPub
    /\ inst = NoInst
    /\ budget = [edits |-> MaxEdits, stops |-> MaxStops, commands |-> MaxCommands]
    /\ whole = (listed # Absent)
    /\ venv = [built |-> Has(disk["station"], Venv), lost |-> FALSE]

Spend(what) ==
    /\ budget[what] > 0
    /\ budget' = [budget EXCEPT ![what] = @ - 1]

\* The publisher's directory becomes d.
Changes(d) ==
    /\ disk' = [disk EXCEPT !["work"] = d]
    /\ inst' = [inst EXCEPT !.sound = @ /\ inst.at = Idle]
    /\ pub' = [pub EXCEPT !.whole = @ /\ (pub.place # "work" \/ pub.at = "publish_post")]

Write(p, content) == Changes(Put(disk["work"], p, content))

\* The author changes the handler, or writes or removes the sibling.
Edit ==
    /\ Spend("edits")
    /\ \/ Write(Handler, [disk["work"][Handler] EXCEPT !.text = 3 - @])
       \/ Write(Sibling, IF Has(disk["work"], Sibling) THEN 3 - disk["work"][Sibling] ELSE 1)
       \/ /\ Has(disk["work"], Sibling)
          /\ Changes(Without(disk["work"], {Sibling}))
    /\ UNCHANGED <<listed, signer, whole, venv>>

----------------------------------------------------------------------------
(* market module sign.                                                      *)

\* Reads the bundle, promotes it to the tree format when there is more than
\* the three files, and insists on the local key unless forced.
SignReads(forced) ==
    LET d == disk["work"]
        promoted == [d[ModuleJson] EXCEPT !.version = IF IsMultifile(d) THEN 2 ELSE @,
                                          !.key = "mine"]
    IN  /\ Reads(d)
        /\ d[ModuleJson].key = "mine" \/ forced
        /\ signer' = [at |-> "sign_manifest", manifest |-> promoted,
                      handler |-> d[Handler], sig |-> Absent]

Sign ==
    /\ signer.at = Idle
    /\ Spend("commands")
    /\ \E forced \in BOOLEAN : SignReads(forced)
    /\ UNCHANGED <<disk, listed, pub, inst, whole, venv>>

SignGoesOn(from, to) == signer.at = from /\ signer' = [signer EXCEPT !.at = to]

\* open(path, "w") empties the file.
SignOpensManifest ==
    /\ SignGoesOn("sign_manifest", "sign_write")
    /\ Write(ModuleJson, Empty[ModuleJson])
    /\ UNCHANGED <<listed, budget, whole, venv>>

SignWritesManifest ==
    /\ SignGoesOn("sign_write", "sign_walk")
    /\ Write(ModuleJson, signer.manifest)
    /\ UNCHANGED <<listed, budget, whole, venv>>

SignWalks ==
    /\ signer.at = "sign_walk"
    /\ signer' = [signer EXCEPT
                    !.at = "sign_open",
                    !.sig = SignWith("mine", signer.manifest, signer.handler, Tree(disk["work"]))]
    /\ UNCHANGED <<disk, listed, pub, inst, budget, whole, venv>>

SignOpensSig ==
    /\ SignGoesOn("sign_open", "sign_sig")
    /\ Write(Sig, Empty[Sig])
    /\ UNCHANGED <<listed, budget, whole, venv>>

SignWritesSig ==
    /\ signer.at = "sign_sig"
    /\ Write(Sig, signer.sig)
    /\ signer' = NoSigner
    /\ UNCHANGED <<listed, budget, whole, venv>>

----------------------------------------------------------------------------
(* market publish, and accept-transfer.                                     *)

\* The three files must be there, and the manifest is read.
PublishReads(place) ==
    LET d == disk[place]
    IN  /\ Reads(d) /\ Has(d, Sig)
        /\ pub' = [NoPub EXCEPT !.at = "publish_handler", !.place = place,
                                !.manifest = d[ModuleJson], !.whole = Verify(d)]

Publish ==
    /\ pub.at = Idle
    /\ Spend("commands")
    /\ PublishReads("work")
    /\ UNCHANGED <<disk, listed, signer, inst, whole, venv>>

\* In accept-transfer's own directory.
PublishAccepted ==
    /\ pub.at = "publish"
    /\ PublishReads("temp")
    /\ UNCHANGED <<disk, listed, signer, inst, budget, whole, venv>>

PublishReadsHandler ==
    /\ pub.at = "publish_handler"
    /\ pub' = [pub EXCEPT !.at = "publish_sig", !.handler = disk[pub.place][Handler]]
    /\ UNCHANGED <<disk, listed, signer, inst, budget, whole, venv>>

\* Then the manifest must name the local key.
PublishReadsSig ==
    /\ pub.at = "publish_sig"
    /\ pub' = IF pub.manifest.key = "mine"
              THEN [pub EXCEPT
                      !.at = IF pub.manifest.version >= 2 THEN "publish_walk" ELSE "publish_post",
                      !.sig = disk[pub.place][Sig]]
              ELSE NoPub
    /\ UNCHANGED <<disk, listed, signer, inst, budget, whole, venv>>

PublishWalks_Unchecked ==
    /\ pub.at = "publish_walk"
    /\ pub' = [pub EXCEPT !.at = "publish_post", !.tree = Tree(disk[pub.place])]
    /\ UNCHANGED <<disk, listed, signer, inst, budget, whole, venv>>

\* A tree is walked again and must be the signed one.
PublishWalks ==
    /\ pub.at = "publish_walk"
    /\ LET tree == Tree(disk[pub.place])
       IN  pub' = IF pub.sig = SignWith("mine", pub.manifest, pub.handler, tree)
                  THEN [pub EXCEPT !.at = "publish_post", !.tree = tree]
                  ELSE NoPub
    /\ UNCHANGED <<disk, listed, signer, inst, budget, whole, venv>>

\* The quality gate, a dry run, the marketplace or the network may end it here.
PublishPosts ==
    /\ pub.at = "publish_post"
    /\ \/ /\ listed' = Bundle(pub.manifest, AsText(pub.handler), pub.sig, pub.tree)
          /\ whole' = pub.whole
       \/ UNCHANGED <<listed, whole>>
    /\ pub' = NoPub
    /\ UNCHANGED <<disk, signer, inst, budget, venv>>

\* The new owner's archive, signed under the new owner's key in a temporary
\* directory that no other command knows of.
AcceptUnpacks ==
    /\ pub.at = Idle
    /\ listed # Absent
    /\ listed.files # NoFiles
    /\ Spend("commands")
    /\ LET m == [listed.files[ModuleJson] EXCEPT !.key = "mine"]
       IN  disk' = [disk EXCEPT !["temp"] = Signed("mine", m, listed.files)]
    /\ pub' = [NoPub EXCEPT !.at = "publish", !.place = "temp"]
    /\ UNCHANGED <<listed, signer, inst, whole, venv>>

----------------------------------------------------------------------------
(* market install and install --from-path, into the station's directory.    *)

Station == disk["station"]

StationIs(d) == disk' = [disk EXCEPT !["station"] = d]

\* Where an install goes when the old directory is out of the way.
Ready(i) ==
    [ i EXCEPT !.at = IF i.bundle = Absent THEN "copy"
                      ELSE IF i.todo # {} THEN "extract" ELSE "open" ]

\* The directory is made way for: .venv is moved out, the rest goes.
Replaces(i) ==
    IF Has(Station, Venv)
    THEN /\ StationIs(Without(Station, {Venv}))
         /\ inst' = [i EXCEPT !.at = "wipe", !.stash = TRUE]
    ELSE /\ UNCHANGED disk
         /\ inst' = [i EXCEPT !.at = "wipe"]

Fetched == [NoInst EXCEPT !.bundle = listed, !.todo = DOMAIN listed.files]

\* A complete directory stands, unless forced; an incomplete one is repaired.
Install_OverPartial ==
    /\ inst.at = Idle
    /\ listed # Absent
    /\ Spend("commands")
    /\ IF DOMAIN Station = {} \/ ~IsComplete(Station)
       THEN UNCHANGED disk /\ inst' = Ready(Fetched)
       ELSE Replaces(Fetched)
    /\ UNCHANGED <<listed, signer, pub, whole, venv>>

Install ==
    /\ inst.at = Idle
    /\ listed # Absent
    /\ Spend("commands")
    /\ IF DOMAIN Station = {}
       THEN UNCHANGED disk /\ inst' = Ready(Fetched)
       ELSE \E forced \in BOOLEAN :
               /\ forced \/ ~IsComplete(Station)
               /\ Replaces(Fetched)
    /\ UNCHANGED <<listed, signer, pub, whole, venv>>

\* "offline verify FIRST".
InstallFromPath ==
    /\ inst.at = Idle
    /\ Verify(disk["work"])
    /\ Spend("commands")
    /\ LET i == [NoInst EXCEPT !.todo = DOMAIN disk["work"], !.source = disk["work"]]
       IN  IF DOMAIN Station = {}
           THEN UNCHANGED disk /\ inst' = Ready(i)
           ELSE Replaces(i)
    /\ UNCHANGED <<listed, signer, pub, whole, venv>>

\* rmtree, one file at a time in any order.
Wipe ==
    /\ inst.at = "wipe"
    /\ IF DOMAIN Station = {}
       THEN /\ UNCHANGED disk
            /\ inst' = IF inst.stash THEN [inst EXCEPT !.at = "restore"] ELSE Ready(inst)
       ELSE /\ \E p \in DOMAIN Station : StationIs(Without(Station, {p}))
            /\ UNCHANGED inst
    /\ UNCHANGED <<listed, signer, pub, budget, whole, venv>>

\* A file that cannot be removed: an install takes no notice; --from-path puts
\* .venv back and ends.
WipeFails ==
    /\ inst.at = "wipe"
    /\ DOMAIN Station # {}
    /\ Spend("stops")
    /\ IF inst.bundle # Absent
       THEN /\ UNCHANGED disk
            /\ LET i == [inst EXCEPT !.sound = FALSE]
               IN  inst' = IF i.stash THEN [i EXCEPT !.at = "restore"] ELSE Ready(i)
       ELSE /\ StationIs(IF inst.stash THEN Put(Station, Venv, TRUE) ELSE Station)
            /\ inst' = NoInst
    /\ UNCHANGED <<listed, signer, pub, whole, venv>>

Restore_DropsStash ==
    /\ inst.at = "restore"
    /\ inst' = Ready([inst EXCEPT !.stash = FALSE])
    /\ UNCHANGED <<disk, listed, signer, pub, budget, whole, venv>>

\* .venv comes back before the new files land.
Restore ==
    /\ inst.at = "restore"
    /\ StationIs(Put(Station, Venv, TRUE))
    /\ inst' = Ready([inst EXCEPT !.stash = FALSE])
    /\ UNCHANGED <<listed, signer, pub, budget, whole, venv>>

\* The archive, in its order.
Extract ==
    /\ inst.at = "extract"
    /\ LET nth == CHOOSE n \in DOMAIN Paths :
                    Paths[n] \in inst.todo /\ \A k \in 1 .. n - 1 : Paths[k] \notin inst.todo
           left == inst.todo \ {Paths[nth]}
       IN  /\ StationIs(Put(Station, Paths[nth], inst.bundle.files[Paths[nth]]))
           /\ inst' = [inst EXCEPT !.todo = left, !.at = IF left = {} THEN "open" ELSE @]
    /\ UNCHANGED <<listed, signer, pub, budget, whole, venv>>

\* An archive that cannot be read to its end: the whole directory goes.
ExtractFails ==
    /\ inst.at = "extract"
    /\ Spend("stops")
    /\ StationIs(NoFiles)
    /\ venv' = [venv EXCEPT !.lost = @ \/ Has(Station, Venv)]
    /\ inst' = NoInst
    /\ UNCHANGED <<listed, signer, pub, whole>>

\* The three strings, each file opened and then written.
Open ==
    /\ inst.at = "open"
    /\ StationIs(Put(Station, Canonical[inst.nth], Empty[Canonical[inst.nth]]))
    /\ inst' = [inst EXCEPT !.at = "write"]
    /\ UNCHANGED <<listed, signer, pub, budget, whole, venv>>

WriteString ==
    /\ inst.at = "write"
    /\ LET p == Canonical[inst.nth]
       IN  StationIs(Put(Station, p, Unpacked(inst.bundle)[p]))
    /\ inst' = IF inst.nth = Len(Canonical) THEN NoInst
               ELSE [inst EXCEPT !.at = "open", !.nth = @ + 1]
    /\ UNCHANGED <<listed, signer, pub, budget, whole, venv>>

\* shutil.copy2 of what is there by now; a file that is gone by then raises.
Copy ==
    /\ inst.at = "copy"
    /\ \E p \in inst.todo :
          IF Has(disk["work"], p)
          THEN /\ StationIs(Put(Station, p, disk["work"][p]))
               /\ inst' = IF inst.todo = {p} THEN NoInst
                          ELSE [inst EXCEPT !.todo = @ \ {p}]
          ELSE UNCHANGED disk /\ inst' = NoInst
    /\ UNCHANGED <<listed, signer, pub, budget, whole, venv>>

\* module setup: builds the .venv of an installed module that declares one.  A
\* step of it that fails leaves the .venv unfinished.
Setup ==
    /\ inst.at = Idle
    /\ Has(Station, ModuleJson)
    /\ Station[ModuleJson].version > 0
    /\ ~(Has(Station, Venv) /\ venv.built)
    /\ Spend("commands")
    /\ StationIs(Put(Station, Venv, TRUE))
    /\ \E ok \in BOOLEAN : venv' = [built |-> ok, lost |-> FALSE]
    /\ UNCHANGED <<listed, signer, pub, inst, whole>>

----------------------------------------------------------------------------
(* An exception or a kill, at any step.  A stash that is out at that time   *)
(* stays out: the finally block deletes it when the move back fails.        *)

InstallerStops ==
    /\ inst.at # Idle
    /\ Spend("stops")
    /\ venv' = [venv EXCEPT !.lost = @ \/ inst.stash]
    /\ inst' = NoInst
    /\ UNCHANGED <<disk, listed, signer, pub, whole>>

PublisherStops ==
    /\ pub.at # Idle
    /\ Spend("stops")
    /\ pub' = NoPub
    /\ UNCHANGED <<disk, listed, signer, inst, whole, venv>>

SignerStops ==
    /\ signer.at # Idle
    /\ Spend("stops")
    /\ signer' = NoSigner
    /\ UNCHANGED <<disk, listed, pub, inst, whole, venv>>

InstallNext ==
    \/ Edit
    \/ Sign \/ SignOpensManifest \/ SignWritesManifest \/ SignWalks
    \/ SignOpensSig \/ SignWritesSig
    \/ Publish \/ AcceptUnpacks \/ PublishAccepted
    \/ PublishReadsHandler \/ PublishReadsSig \/ PublishWalks \/ PublishPosts
    \/ Install \/ InstallFromPath \/ Wipe \/ WipeFails \/ Restore \/ Extract \/ ExtractFails
    \/ Open \/ WriteString \/ Copy \/ Setup
    \/ InstallerStops \/ PublisherStops \/ SignerStops

InstallSpec == InstallInit /\ [][InstallNext]_ivars

----------------------------------------------------------------------------
(* Properties.                                                              *)

InstallTypeOK ==
    /\ DOMAIN disk = {"work", "temp", "station"}
    /\ \A place \in DOMAIN disk :
          LET d == disk[place]
          IN  /\ DOMAIN d \subseteq Range(Paths)
              /\ Has(d, ModuleJson) => d[ModuleJson] \in Manifests \cup {Empty[ModuleJson]}
              /\ Has(d, Handler) => d[Handler] \in Handlers \cup {Empty[Handler]}
              /\ Has(d, Sibling) => d[Sibling] \in 1 .. 2
              /\ Has(d, Venv) => place = "station"
    /\ listed # Absent => listed.manifest \in Manifests
    /\ listed # Absent => DOMAIN listed.files \subseteq Range(Paths) \ {Sig, Venv}
    /\ pub.at = "publish_post" => pub.manifest.key = "mine"
    /\ inst.stash => inst.at \in {"wipe", "restore"} /\ ~Has(Station, Venv)
    /\ \A what \in DOMAIN budget : budget[what] \in Nat

\* "what a buyer's station will decide when they load your module"
\* (market module verify): a listing posted from a directory that verified is
\* one the buyer's station accepts.
ForetoldVerdict == listed # Absent /\ whole => Verify(Unpacked(listed))

\* The same but for a handler whose lines end in CRLF, which the signature
\* covers and the listing does not keep.  And whatever is edited, signed again
\* or left half written between the reads of a publish, a tree is never listed
\* without the signature over it; the handler that is listed beside it was read
\* on its own, and the buyer's station accepts the listing if and only if it is
\* the signed one.  (And the types.)
PublishedIsSigned ==
    /\ InstallTypeOK
    /\ listed # Absent =>
        /\ whole => Verify(Unpacked(listed)) \/ listed.sig.over[2][Handler].crlf
        /\ listed.manifest.version >= 2 =>
              /\ listed.sig = SignWith(listed.manifest.key, listed.manifest,
                                       listed.handler_py, listed.files)
              /\ Verify(Unpacked(listed)) <=> listed.handler_py = listed.files[Handler]

\* "Walk once more with the same rules so a hand-edit after signing is caught"
\* (market publish): not one of the handler between its two reads.  A claim the
\* code does not keep.
ListedHandlerIsSigned ==
    listed # Absent /\ listed.manifest.version >= 2 =>
        listed.handler_py = AsText(listed.files[Handler])

Finishes(at) == inst.at = at /\ inst'.at = Idle /\ budget' = budget

\* A finished install holds what was listed, over a directory of any state,
\* stale and half-written ones included; a finished --from-path holds what it
\* verified, and the loader accepts that ("a bundle the loader would refuse must
\* not land in the modules dir at all") unless the .venv it kept is taken for a
\* part of the tree.
LandsWhatWasMeant ==
    [][ inst.sound =>
          /\ Finishes("write") => Without(Station', {Venv}) = Unpacked(inst.bundle)
          /\ Finishes("copy") =>
                /\ Without(Station', {Venv}) = inst.source
                /\ Verify(Station') \/ Has(Tree(Station'), Venv) ]_ivars

\* "The venv is operator state - like credentials, it must survive a reinstall"
\* (_preserve_venv): it does, but for a command that stops while .venv is
\* moved out, and an archive that turns out to be damaged.
VenvKept == venv.built => Has(Station, Venv) \/ inst.stash \/ venv.lost

\* "A partial/corrupt install would auto-repair on install; this one is intact"
\* (market install): what an install calls complete has the files it wrote.
CompleteIsIntact ==
    inst.at = Idle /\ IsComplete(Station) =>
        /\ Has(Station, Sig)
        /\ \A p \in Range(Canonical) : Station[p] # Empty[p]
=============================================================================

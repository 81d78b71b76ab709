------------------------------ MODULE OrgVault ------------------------------
(***************************************************************************)
(* The mirror of a governed run's receipt and log line to the vault of the  *)
(* seat's organisation (_archive_and_log, railcall_vault_drivers): where    *)
(* the vault is comes from the marketplace, over a cache the runs of a seat *)
(* share; a share is written through a temporary name (FixedTmpFile), a     *)
(* bucket object by object.  Whatever fails is swallowed: the local copies  *)
(* are there before the mirror starts (GovernedRun).                        *)
(*                                                                          *)
(* A run is a writer with one receipt, named for it.  The names are those   *)
(* of one schema and second on the share, in the order they are probed.     *)
(***************************************************************************)
EXTENDS FixedTmpFile

CONSTANTS
    Offers,        \* the configurations an organisation may have
    NoConfig,      \* none, or the answer that there is none
    Unreadable,    \* a cache that is empty, torn or missing
    OptedIn,       \* RAILCALL_ORG_VAULT_ALLOW_CUSTOM
    SecretsThere,  \* whether the secret references resolve
    TTL,           \* of the cache
    MaxTime,       \* bound on the clock
    MaxChanges     \* bound on what the admin and the mount go through

ASSUME OrgVaultAssumption ==
    /\ NoConfig \notin Offers /\ Unreadable \notin Offers \cup {NoConfig}
    /\ TTL \in Nat /\ MaxTime \in Nat /\ MaxChanges \in Nat

VARIABLES
    server,        \* the organisation's configuration
    cache,         \* vault_config_cache.json: configuration and time of writing
    now,
    mount,         \* of the share: "mounted", a "bare" directory, or "gone"
    changes,
    objects,       \* receipts in the bucket
    lines,         \* log lines in the organisation's stream
    config,        \* the configuration each run has read, to mirror with
    answer,        \* and the one it was told
    returned,      \* runs whose write_receipt returned (history)
    adrift,        \* runs that were in it when the share was not mounted, or was
                   \* mounted or unmounted (history)
    contested,     \* runs that took a name another one was writing or, off the
                   \* share, one that is taken on it, and those others (history)
    known          \* what the cache named as each run began (history)

places == <<server, cache, now, mount, changes>>
history == <<returned, adrift, contested, known>>
mvars == <<vars, places, objects, lines, config, answer, history>>

NothingCached == [config |-> Unreadable, at |-> 0]

----------------------------------------------------------------------------
(* The driver of a configuration.                                           *)

\* _validate_secret_ref_from_org_config, with the default prefix.
AcceptsRef(ref) == ref \in {"empty", "vault_env", "keyring"}

\* _validate_org_vault_config
Validates(c) ==
    /\ c.driver \in {"local", "s3", "network_share", "custom", "railcall_hosted"}
    /\ c.driver = "s3" => c.endpoint \in {"absent", "https"} /\ AcceptsRef(c.ref)
    /\ c.driver = "custom" => OptedIn

\* The constructors: fields present, secrets resolved, the class loaded.
Constructs(c) ==
    /\ c.complete
    /\ c.driver = "s3" => SecretsThere /\ c.ref # "empty"

\* load_driver
LoadDriver(c) ==
    IF c # NoConfig /\ Validates(c) /\ Constructs(c) /\ c.driver # "railcall_hosted"
    THEN c.driver ELSE "null"

----------------------------------------------------------------------------

MirrorInit ==
    /\ Init
    /\ path = [n \in Names |-> None]
    /\ server \in Offers \cup {NoConfig}
    /\ cache \in {NothingCached, [config |-> server, at |-> 0]}
    /\ now = 0
    /\ mount \in {"mounted", "bare", "gone"}
    /\ changes = 0
    /\ objects = {}
    /\ lines = {}
    /\ config = [w \in Writers |-> NoConfig]
    /\ answer = [w \in Writers |-> Unreadable]
    /\ returned = {}
    /\ adrift = {}
    /\ contested = {}
    /\ known = [w \in Writers |-> Unreadable]

files == <<content, path, tmp, fd, target>>

ReadCache_NothingWhenStale(w) ==
    /\ At(w, "idle")
    /\ known' = [known EXCEPT ![w] = cache.config]
    /\ answer' = [answer EXCEPT ![w] = Unreadable]
    /\ IF cache.config # Unreadable /\ now - cache.at < TTL
       THEN Goto(w, "driver") /\ config' = [config EXCEPT ![w] = cache.config]
       ELSE Goto(w, "ask") /\ config' = [config EXCEPT ![w] = NoConfig]
    /\ UNCHANGED <<files, places, objects, lines, returned, adrift, contested>>

\* _load_cached_vault_config: a stale entry is kept for when the refresh fails.
ReadCache(w) ==
    /\ At(w, "idle")
    /\ known' = [known EXCEPT ![w] = cache.config]
    /\ answer' = [answer EXCEPT ![w] = Unreadable]
    /\ config' = [config EXCEPT ![w] = IF cache.config = Unreadable THEN NoConfig ELSE cache.config]
    /\ Goto(w, IF cache.config # Unreadable /\ now - cache.at < TTL THEN "driver" ELSE "ask")
    /\ UNCHANGED <<files, places, objects, lines, returned, adrift, contested>>

\* GET /org/vault-config, answered or not.
Ask(w) ==
    /\ At(w, "ask")
    /\ \/ answer' = [answer EXCEPT ![w] = server] /\ Goto(w, "cache")
       \/ Goto(w, "driver") /\ UNCHANGED answer
    /\ UNCHANGED <<files, places, objects, lines, config, history>>

\* open(cache, "w"); the answer is lost with the exception when it fails.
OpenCache(w) ==
    /\ At(w, "cache")
    /\ \/ cache' = [config |-> Unreadable, at |-> now] /\ Goto(w, "fill")
       \/ Goto(w, "driver") /\ UNCHANGED cache
    /\ UNCHANGED <<files, server, now, mount, changes, objects, lines, config, answer, history>>

\* f.write, and so when that fails.
FillCache(w) ==
    /\ At(w, "fill")
    /\ \/ /\ cache' = [config |-> answer[w], at |-> now]
          /\ config' = [config EXCEPT ![w] = answer[w]]
       \/ UNCHANGED <<cache, config>>
    /\ Goto(w, "driver")
    /\ UNCHANGED <<files, server, now, mount, changes, objects, lines, answer, history>>

----------------------------------------------------------------------------
(* write_receipt.                                                           *)

Driver(w) == LoadDriver(config[w])

OnShare(w) == Driver(w) \in {"local", "network_share"}

NoVault(w) ==
    /\ At(w, "driver")
    /\ Driver(w) = "null"
    /\ Goto(w, "end")
    /\ UNCHANGED <<files, places, objects, lines, config, answer, history>>

\* S3VaultDriver and a custom class: stored and acknowledged, not stored, or
\* stored and the answer lost.
Put(w) ==
    /\ At(w, "driver")
    /\ Driver(w) \in {"s3", "custom"}
    /\ \/ objects' = objects \cup {w} /\ returned' = returned \cup {w}
       \/ objects' \in {objects, objects \cup {w}} /\ UNCHANGED returned
    /\ Goto(w, "line")
    /\ UNCHANGED <<files, places, lines, config, answer, adrift, contested, known>>

Writing(w) == pc[w] \in {"open", "write", "chmod", "replace"}

\* Those that write the name, and the one that has it on the share.
Rivals(n) ==
    {u \in Writers : (Writing(u) /\ target[u] = n) \/ (path[n] # None /\ content[path[n]] = u)}

Contest(w, n) ==
    contested' = contested \cup
        IF path[n] = None /\ Rivals(n) = {} THEN {} ELSE {w} \cup Rivals(n)

Probe_TakesTheFirst(w) ==
    /\ At(w, "driver")
    /\ OnShare(w)
    /\ mount = "mounted"
    /\ LET n == CHOOSE n \in Names : \A m \in Names : n <= m
       IN  /\ target' = [target EXCEPT ![w] = n]
           /\ contested' = contested \cup
                 LET rivals == {u \in Writers : Writing(u) /\ target[u] = n}
                 IN  IF rivals = {} THEN {} ELSE {w} \cup rivals
    /\ Goto(w, "open")
    /\ UNCHANGED <<content, path, tmp, fd, places, objects, lines, config, answer,
                   returned, adrift, known>>

\* LocalVaultDriver: the first name that is free.
Probe(w) ==
    /\ At(w, "driver")
    /\ OnShare(w)
    /\ mount = "mounted"
    /\ \E n \in Names :
          /\ path[n] = None
          /\ \A m \in Names : m < n => path[m] # None
          /\ target' = [target EXCEPT ![w] = n]
          /\ Contest(w, n)
    /\ Goto(w, "open")
    /\ UNCHANGED <<content, path, tmp, fd, places, objects, lines, config, answer,
                   returned, adrift, known>>

\* A directory at the mount point is taken for the share; LocalVaultDriver makes
\* one where there is none.  What names are free below it, it has to itself.
ProbeBelow(w) ==
    /\ At(w, "driver")
    /\ OnShare(w)
    /\ mount = "bare" \/ (mount = "gone" /\ Driver(w) = "local")
    /\ mount' = "bare"
    /\ adrift' = adrift \cup {w}
    /\ \E n \in Names : target' = [target EXCEPT ![w] = n] /\ Contest(w, n)
    /\ Goto(w, "open")
    /\ UNCHANGED <<content, path, tmp, fd, server, cache, now, changes, objects, lines,
                   config, answer, returned, known>>

\* "Check the mount is actually mounted": there is no directory.
NotMounted(w) ==
    /\ At(w, "driver")
    /\ OnShare(w)
    /\ mount = "gone"
    /\ Goto(w, "line")
    /\ UNCHANGED <<files, places, objects, lines, config, answer, history>>

\* A path is looked up at every call; an open file stays the share's.
MirrorWrite(w) ==
    /\ \/ mount = "mounted" /\ (Open(w) \/ Chmod(w))
       \/ fd[w] # None /\ Write(w)
    /\ UNCHANGED <<places, objects, lines, config, answer, history>>

MirrorReplace(w) ==
    /\ mount = "mounted"
    /\ Replace(w)
    /\ returned' = IF tmp[target[w]] = None THEN returned ELSE returned \cup {w}
    /\ UNCHANGED <<places, objects, lines, config, answer, adrift, contested, known>>

\* The same calls in the directory below, where they succeed if an earlier run
\* has left what they need there; if not, it is Raises.
WriteBelow(w) ==
    /\ UNCHANGED <<files, places, objects, lines, config, answer, adrift, contested, known>>
    /\ \/ At(w, "open") /\ mount = "bare" /\ Goto(w, "write") /\ UNCHANGED returned
       \/ At(w, "write") /\ fd[w] = None /\ Goto(w, "chmod") /\ UNCHANGED returned
       \/ At(w, "chmod") /\ mount = "bare" /\ Goto(w, "replace") /\ UNCHANGED returned
       \/ At(w, "replace") /\ mount = "bare" /\ Goto(w, "done") /\ returned' = returned \cup {w}

\* The share fails under a write, or the run is killed; the one goes on to its
\* line, the other does not.
Breaks(w) ==
    /\ Kill(w)
    /\ UNCHANGED <<places, objects, lines, config, answer, history>>

Raises(w) ==
    /\ Writing(w)
    /\ content' \in {content} \cup {[content EXCEPT ![i] = "torn"] : i \in {fd[w]} \ {None}}
    /\ fd' = [fd EXCEPT ![w] = None]
    /\ Goto(w, "raised")
    /\ UNCHANGED <<path, tmp, target, places, objects, lines, config, answer, history>>

\* append_audit_line, tried whatever write_receipt did.
AppendLine(w) ==
    /\ pc[w] \in {"line", "done", "raised"}
    /\ Goto(w, "end")
    /\ lines' \in {lines, lines \cup {w}}
    /\ UNCHANGED <<files, places, objects, config, answer, history>>

Killed(w) ==
    /\ pc[w] \in {"ask", "cache", "fill", "driver", "line"}
    /\ Goto(w, "end")
    /\ UNCHANGED <<files, places, objects, lines, config, answer, history>>

----------------------------------------------------------------------------

\* The admin stores another configuration; the share is mounted or goes away,
\* whoever is at a file on it: "a mount can vanish mid-write" (_ensure_dirs).
Change ==
    /\ changes < MaxChanges
    /\ changes' = changes + 1
    /\ \/ server' \in (Offers \cup {NoConfig}) \ {server} /\ UNCHANGED <<mount, adrift>>
       \/ /\ mount' \in {"mounted", "bare", "gone"} \ {mount}
          /\ adrift' = adrift \cup {w \in Writers : Writing(w)}
          /\ UNCHANGED server
    /\ UNCHANGED <<vars, cache, now, objects, lines, config, answer, returned, contested, known>>

Tick ==
    /\ now < MaxTime
    /\ now' = now + 1
    /\ UNCHANGED <<vars, server, cache, mount, changes, objects, lines, config, answer, history>>

RunStep(w) ==
    \/ ReadCache(w) \/ Ask(w) \/ OpenCache(w) \/ FillCache(w)
    \/ NoVault(w) \/ Put(w) \/ Probe(w) \/ ProbeBelow(w) \/ NotMounted(w)
    \/ MirrorWrite(w) \/ MirrorReplace(w) \/ WriteBelow(w) \/ Raises(w) \/ AppendLine(w)
    \/ Breaks(w) \/ Killed(w)

MirrorNext == Change \/ Tick \/ \E w \in Writers : RunStep(w)

MirrorSpec == MirrorInit /\ [][MirrorNext]_mvars

----------------------------------------------------------------------------
(* Properties.                                                              *)

MirrorPlaces ==
    Places \cup {"ask", "cache", "fill", "driver", "line", "end"}

MirrorTypeOK ==
    /\ content \in [Inodes -> Documents \cup {"empty", "torn"}]
    /\ path \in [Names -> Inodes \cup {None}]
    /\ tmp \in [Names -> Inodes \cup {None}]
    /\ fd \in [Writers -> Inodes \cup {None}]
    /\ pc \in [Writers -> MirrorPlaces]
    /\ target \in [Writers -> Names \cup {None}]
    /\ \A w \in Writers : Writing(w) => target[w] \in Names
    /\ server \in Offers \cup {NoConfig}
    /\ cache \in [config : Offers \cup {NoConfig, Unreadable}, at : Nat]
    /\ now \in Nat /\ changes \in Nat
    /\ mount \in {"mounted", "bare", "gone"}
    /\ config \in [Writers -> Offers \cup {NoConfig}]
    /\ answer \in [Writers -> Offers \cup {NoConfig, Unreadable}]
    /\ known \in [Writers -> Offers \cup {NoConfig, Unreadable}]
    /\ objects \subseteq Writers /\ lines \subseteq Writers
    /\ returned \subseteq Writers /\ adrift \subseteq Writers /\ contested \subseteq Writers

InPlace(w) ==
    w \in objects \/ \E n \in Names : path[n] # None /\ content[path[n]] = w

\* "Every seat's receipts converge into one place" (railcall_vault_drivers):
\* a receipt whose write_receipt returned stays in the organisation's place,
\* whole and under a name of its own, unless the mount was not there, went or came
\* while its own run wrote it, or another run took the same name.  And "a crash
\* between write and rename" leaves no "half-file with a real name" until such a
\* run or such a race.
MirroredStays ==
    /\ \A w \in returned \ (adrift \cup contested) : InPlace(w)
    /\ adrift \cup contested = {} => FilesIntact

\* "A network blip doesn't stop the org vault from being written to"
\* (_load_cached_vault_config): a run goes without a vault only when its cache
\* named none as it began, or the marketplace told it that there is none.
KnownIsMirrored ==
    \A w \in Writers :
        At(w, "driver") /\ config[w] = NoConfig =>
            known[w] \in {NoConfig, Unreadable} \/ answer[w] = NoConfig

(* Claims the code does not keep, each with the step that breaks it.        *)

\* Two runs that probe one name before either renames: the later rename
\* replaces the receipt of the other, which returned.
MirroredAlwaysStays == \A w \in returned \ adrift : InPlace(w)

\* "The only added value is checking the mount is present"
\* (NetworkShareVaultDriver), but a directory that nothing is mounted on passes
\* the check (ProbeBelow), and a share that goes away after it leaves one
\* (WriteBelow): the write returns and the receipt is below the mount point.
OnlyOnTheShare ==
    \A w \in returned \ contested : config[w] # NoConfig /\ Driver(w) = "network_share" => InPlace(w)

\* OpenCache or FillCache failing on a seat with nothing cached: the answer,
\* in hand, is not used.
ToldIsMirrored ==
    \A w \in Writers :
        At(w, "driver") /\ answer[w] \notin {Unreadable, NoConfig} => config[w] # NoConfig
=============================================================================

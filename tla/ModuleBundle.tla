---------------------------- MODULE ModuleBundle ----------------------------
(***************************************************************************)
(* What a module directory is, what a signature over it covers, and what    *)
(* becomes of it in a marketplace listing.                                  *)
(*                                                                          *)
(* A directory is a function from the paths in it to their contents.  A     *)
(* signature is the key that made it with the bytes it covers; those bytes  *)
(* are the manifest and, from manifest version 2 on, the whole tree.        *)
(***************************************************************************)
EXTENDS Functions, Sequences, Naturals

ModuleJson == "module.json"
Handler == "handlers/handler.py"
Sig == "module.sig"
Ignore == ".moduleignore"
Venv == ".venv"
Sibling == "validators/rules.py"

\* In the order of their names, which is that of the archive.
Paths == <<Ignore, Venv, Handler, ModuleJson, Sig, Sibling>>

Canonical == <<ModuleJson, Handler, Sig>>

Keys == {"mine", "theirs"}

Manifests == [version : 1 .. 2, key : Keys]

\* The text of a file, and whether its lines end in CRLF.
Handlers == [text : 1 .. 2, crlf : BOOLEAN]

\* What opening a file for writing leaves until it is written.
Empty ==
    [ p \in {ModuleJson, Handler, Sig} |->
        CASE p = ModuleJson -> [version |-> 0, key |-> "none"]
          [] p = Handler -> [text |-> 0, crlf |-> FALSE]
          [] p = Sig -> [key |-> "none", over |-> <<>>] ]

NoFiles == <<>>
Has(d, p) == p \in DOMAIN d
Put(d, p, content) == [q \in DOMAIN d \cup {p} |-> IF q = p THEN content ELSE d[q]]
Without(d, ps) == Restrict(d, DOMAIN d \ ps)

\* _module_path_matches, with the defaults and the one pattern that matters of
\* a .moduleignore (its content here: whether it names .venv/).
Ignored(d, p) ==
    \/ p = Sig
    \/ p = Venv /\ Has(d, Ignore) /\ d[Ignore]

\* _module_tree_walk, _module_tree_manifest_bytes.
Tree(d) == Without(d, {p \in DOMAIN d : Ignored(d, p)})

\* _module_is_multifile.
IsMultifile(d) ==
    \/ d[ModuleJson].version >= 2
    \/ DOMAIN d \ {ModuleJson, Sig, Handler} # {}

\* _module_bundle_read finds no errors.
Reads(d) == Has(d, ModuleJson) /\ Has(d, Handler) /\ d[ModuleJson].version > 0

\* _module_bundle_signed_bytes.
SignedBytes(manifest, handler, tree) ==
    <<manifest, IF manifest.version >= 2 THEN tree ELSE Put(NoFiles, Handler, handler)>>

SignWith(key, manifest, handler, tree) ==
    [key |-> key, over |-> SignedBytes(manifest, handler, tree)]

\* market module verify, and the loader's decision ("same recipe the station
\* loader uses at install time").
Verify(d) ==
    /\ Reads(d)
    /\ Has(d, Sig)
    /\ d[Sig] = SignWith(d[ModuleJson].key, d[ModuleJson], d[Handler], Tree(d))

\* open(handler_path, "r"): universal newlines.
AsText(h) == [text |-> h.text, crlf |-> FALSE]

\* A listing payload: three strings and, for a tree, the archive.
Bundle(manifest, handler_py, sig, tree) ==
    [ manifest |-> manifest, handler_py |-> handler_py, sig |-> sig,
      files |-> IF manifest.version >= 2 THEN tree ELSE NoFiles ]

\* What an install lays down, the three strings on top of the archive.
Unpacked(b) ==
    Put(Put(Put(b.files, ModuleJson, b.manifest), Handler, b.handler_py), Sig, b.sig)

\* An install takes such a directory for a whole one.
IsComplete(d) == Has(d, ModuleJson) /\ Has(d, Handler)
=============================================================================

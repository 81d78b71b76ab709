------------------------- MODULE Marketplace_proofs -------------------------
(***************************************************************************)
(* Proofs about what a publisher and a buyer do with the marketplace.       *)
(*                                                                          *)
(* MarketSession, for any commands, purchases and number of token pairs.    *)
(* The safety properties about the session speak of what a command does to  *)
(* a file it has read before, so the invariant says, for each place of a    *)
(* command between its read and its write, what the session still is.  All  *)
(* of that holds while the history is calm, and there the file is used by   *)
(* one command at a time.                                                   *)
(*                                                                          *)
(* ModuleInstall, for any number of edits, stops and commands.  The         *)
(* invariant says what is in each of the three directories, what the        *)
(* publisher's command still has to check before it posts what it holds,    *)
(* and, for each place of the installer's command, which of the new files   *)
(* have landed by then and what is still to come.                           *)
(***************************************************************************)
EXTENDS MarketSession, ModuleInstall, TLAPS

USE SessionAssumption

----------------------------------------------------------------------------
(* The invariant.                                                           *)

\* Only an answer that has come may stand for something done.
DoneIsAnswered == \A p \in Procs : effects[p] <= 1 /\ (pc[p] # "answered" => effects[p] = 0)

\* Nothing holds a pair that was not issued.
Issued ==
    /\ session # None => session <= issued
    /\ \A p \in Procs : loaded[p] # None => loaded[p] <= issued

\* Who is about to save has something to save.
Holding == \A p \in Procs : pc[p] \in {"save", "login_save"} => loaded[p] # None

\* What the session is to a command that has read it.
Current(p) ==
    /\ pc[p] = "trade" => session # None /\ loaded[p] = session
    /\ pc[p] = "save" => session # None /\ loaded[p] > session /\ loaded[p] \in fresh
    /\ pc[p] = "resend" => session # None /\ loaded[p] = session /\ session \in fresh
    /\ pc[p] = "clear" => session = None \/ session \notin live

Exclusive == \A p, q \in Procs : AtTheFile(p) /\ AtTheFile(q) => p = q

CalmInv == calm => Exclusive /\ \A p \in Procs : Current(p)

Facts == TypeOK /\ DoneIsAnswered /\ Issued /\ Holding

SessionInv == Facts /\ CalmInv

----------------------------------------------------------------------------
(* Types and what does not depend on the history.                           *)

LEMMA FactsInit == Init => Facts
  BY SMTT(30) DEF Init, Facts, TypeOK, DoneIsAnswered, Issued, Holding, Pairs, Bearers,
                  Credentials, Places, EnvToken, ApiKey

LEMMA IssueFacts ==
  ASSUME issued \in Pairs, live \subseteq Pairs, fresh \subseteq Bearers, NEW old, Issue(old)
  PROVE  /\ issued' = issued + 1 /\ issued' \in Pairs /\ issued' > issued
         /\ live' \subseteq Pairs /\ fresh' \subseteq Bearers
         /\ \A x \in live' : x \in live \/ x = issued'
         /\ fresh' = fresh \cup {issued'}
<1>1. issued' = issued + 1 /\ issued' \in Pairs /\ issued' > issued
  BY DEF Issue, Pairs
<1>2. issued' \in Bearers
  BY <1>1 DEF Pairs, Bearers
<1> QED
  BY <1>1, <1>2 DEF Issue

LEMMA FactsStep == Facts /\ [Next]_vars => Facts'
<1> SUFFICES ASSUME Facts, [Next]_vars PROVE Facts'
  OBVIOUS
<1>0. /\ session \in Pairs \cup {None}
      /\ live \subseteq Pairs /\ fresh \subseteq Bearers /\ issued \in Pairs
      /\ pc \in [Procs -> Places]
      /\ cred \in [Procs -> Credentials]
      /\ left \in [Procs -> 0 .. 2 + MaxPurchases]
      /\ mode \in [Procs -> {"chain", "list", "claims"}]
      /\ loaded \in [Procs -> Pairs \cup {None}]
      /\ answer \in [Procs -> {"none", "ok", "failed", "401"}]
      /\ effects \in [Procs -> 0 .. 2]
      /\ calm \in BOOLEAN
  BY DEF Facts, TypeOK
<1>1. DoneIsAnswered /\ Issued /\ Holding
  BY DEF Facts
<1> USE <1>0, <1>1 DEF Facts, TypeOK, DoneIsAnswered, Issued, Holding, Pairs, Bearers,
        Credentials, Places, server, local
<1>2. CASE UNCHANGED vars
  BY <1>2 DEF vars
<1>3. CASE Expire
  BY <1>3 DEF Expire
<1>4. ASSUME NEW p \in Procs, Step(p) PROVE Facts'
  <2>1. CASE Start(p)
    <3>1. PICK c \in Credentials, command \in Commands :
            /\ cred' = [cred EXCEPT ![p] = c]
            /\ mode' = [mode EXCEPT ![p] = command.mode]
            /\ \E n \in command.requests : left' = [left EXCEPT ![p] = n]
      BY <2>1 DEF Start
    <3>2. /\ command.mode \in {"chain", "list"}
          /\ command.requests \subseteq 0 .. 2 + MaxPurchases
      BY DEF Commands, Chain, PublisherRegister, PublishSpec, PublishModule, Transfer,
             SignTransfer, AcceptTransfer, LinkInstall, ApiKeys, AutoClaim
    <3> QED
      BY <2>1, <3>1, <3>2 DEF Start
  <2>2. CASE Send(p)
    BY <2>2, SMTT(30) DEF Send, Exchange
  <2>3. CASE RefreshLoad(p)
    BY <2>3 DEF RefreshLoad
  <2>4. CASE Trade(p)
    <3>1. /\ UNCHANGED <<session, cred, left, mode, answer, effects>>
          /\ pc[p] = "trade" /\ calm' \in BOOLEAN
          /\ \/ /\ Issue(loaded[p])
                /\ loaded' = [loaded EXCEPT ![p] = issued + 1]
                /\ pc' = [pc EXCEPT ![p] = "save"]
             \/ /\ Issue(loaded[p]) \/ UNCHANGED server
                /\ loaded' = loaded
                /\ pc' = [pc EXCEPT ![p] = "clear"]
      BY <2>4 DEF Trade
    <3>2. CASE /\ Issue(loaded[p])
               /\ loaded' = [loaded EXCEPT ![p] = issued + 1]
               /\ pc' = [pc EXCEPT ![p] = "save"]
      <4>1. /\ issued' = issued + 1 /\ issued' \in Pairs /\ issued' > issued
            /\ live' \subseteq Pairs /\ fresh' \subseteq Bearers
        BY <3>2, IssueFacts
      <4> QED
        BY <3>1, <3>2, <4>1
    <3>3. CASE /\ Issue(loaded[p]) \/ UNCHANGED server
               /\ loaded' = loaded
               /\ pc' = [pc EXCEPT ![p] = "clear"]
      <4>1. /\ issued' \in Pairs /\ issued' >= issued
            /\ live' \subseteq Pairs /\ fresh' \subseteq Bearers
        <5>1. CASE Issue(loaded[p])
          <6>1. issued' \in Pairs /\ issued' > issued /\ live' \subseteq Pairs /\ fresh' \subseteq Bearers
            BY <5>1, IssueFacts
          <6> QED
            BY <6>1
        <5>2. CASE UNCHANGED server
          BY <5>2
        <5> QED
          BY <3>3, <5>1, <5>2
      <4> QED
        BY <3>1, <3>3, <4>1
    <3> QED
      BY <3>1, <3>2, <3>3
  <2>5. CASE Save(p)
    BY <2>5 DEF Save
  <2>6. CASE Resend(p)
    BY <2>6, SMTT(30) DEF Resend, Exchange
  <2>7. CASE Clear(p)
    BY <2>7 DEF Clear
  <2>8. CASE Conclude(p)
    BY <2>8, SMTT(30) DEF Conclude
  <2>9. CASE Login(p)
    <3>1. /\ issued' = issued + 1 /\ issued' \in Pairs /\ issued' > issued
          /\ live' \subseteq Pairs /\ fresh' \subseteq Bearers
      BY <2>9, IssueFacts DEF Login
    <3> QED
      BY <2>9, <3>1 DEF Login
  <2>10. CASE LoginSave(p)
    BY <2>10, SMTT(30) DEF LoginSave
  <2>11. CASE LogoutLoad(p)
    BY <2>11 DEF LogoutLoad
  <2>12. CASE LogoutPost(p)
    BY <2>12 DEF LogoutPost
  <2>13. CASE LogoutClear(p)
    BY <2>13 DEF LogoutClear
  <2>14. CASE ClaimByCode(p)
    BY <2>14, SMTT(30) DEF ClaimByCode
  <2>15. CASE SaveRaises(p)
    BY <2>15, SMTT(30) DEF SaveRaises
  <2> QED
    BY <1>4, <2>1, <2>2, <2>3, <2>4, <2>5, <2>6, <2>7, <2>8, <2>9, <2>10, <2>11,
       <2>12, <2>13, <2>14, <2>15 DEF Step
<1> QED
  BY <1>2, <1>3, <1>4 DEF Next

----------------------------------------------------------------------------
(* The session while the history is calm.                                   *)

LEMMA CalmInit == Init => CalmInv
  BY DEF Init, CalmInv, Exclusive, AtTheFile, Current

LEMMA CalmStep == Facts /\ CalmInv /\ [Next]_vars => CalmInv'
<1> SUFFICES ASSUME Facts, CalmInv, [Next]_vars, calm'
             PROVE Exclusive' /\ \A q \in Procs : Current(q)'
  BY DEF CalmInv
<1>0. /\ session \in Pairs \cup {None}
      /\ live \subseteq Pairs /\ fresh \subseteq Bearers /\ issued \in Pairs
      /\ pc \in [Procs -> Places]
      /\ loaded \in [Procs -> Pairs \cup {None}]
      /\ calm \in BOOLEAN
  BY DEF Facts, TypeOK
<1>1. Issued /\ Holding
  BY DEF Facts
<1>2. calm
  BY <1>0 DEF Next, Step, vars, Expire, Start, Send, RefreshLoad, Trade, Save, SaveRaises, Resend, Clear,
         Conclude, Login, LoginSave, LogoutLoad, LogoutPost, LogoutClear, ClaimByCode
<1>3. Exclusive /\ \A q \in Procs : Current(q)
  BY <1>2 DEF CalmInv
<1> USE <1>0, <1>1, <1>2, <1>3 DEF Issued, Holding, Exclusive, AtTheFile, Current, Alone,
        Pairs, Places, server, local
<1>4. CASE UNCHANGED vars
  BY <1>4 DEF vars
<1>5. CASE Expire
  BY <1>5 DEF Expire
<1>6. ASSUME NEW p \in Procs, Step(p) PROVE Exclusive' /\ \A q \in Procs : Current(q)'
  <2>1. CASE Start(p)
    BY <2>1 DEF Start
  <2>2. CASE Send(p)
    BY <2>2 DEF Send
  <2>3. CASE RefreshLoad(p)
    BY <2>3 DEF RefreshLoad
  <2>4. CASE Trade(p)
    <3>1. /\ session' = session /\ pc[p] = "trade" /\ loaded[p] = session
          /\ \A q \in Procs : AtTheFile(q) => q = p
      BY <2>4 DEF Trade
    <3>2. CASE /\ Issue(loaded[p])
               /\ loaded' = [loaded EXCEPT ![p] = issued + 1]
               /\ pc' = [pc EXCEPT ![p] = "save"]
      <4>1. issued' = issued + 1 /\ issued' > issued /\ issued' \in fresh'
        BY <3>2, IssueFacts
      <4>2. loaded'[p] > session' /\ loaded'[p] \in fresh'
        BY <3>1, <3>2, <4>1
      <4> QED
        BY <3>1, <3>2, <4>2
    <3>3. CASE /\ loaded[p] \notin live /\ UNCHANGED <<server, loaded>>
               /\ pc' = [pc EXCEPT ![p] = "clear"]
      BY <3>1, <3>3
    <3> QED
      BY <2>4, <3>2, <3>3 DEF Trade
  <2>5. CASE Save(p)
    BY <2>5 DEF Save
  <2>6. CASE Resend(p)
    BY <2>6, SMTT(30) DEF Resend, Token, EnvToken
  <2>7. CASE Clear(p)
    BY <2>7 DEF Clear
  <2>8. CASE Conclude(p)
    BY <2>8, SMTT(30) DEF Conclude
  <2>9. CASE Login(p)
    <3>1. /\ issued' > issued /\ fresh' = fresh \cup {issued'}
          /\ \A x \in live' : x \in live \/ x = issued'
          /\ issued' \in Pairs
      BY <2>9, IssueFacts DEF Login
    <3>2. session' = session /\ (session # None => session # issued')
      BY <2>9, <3>1 DEF Login
    <3>3. /\ pc' = [pc EXCEPT ![p] = "login_save"]
          /\ \A q \in Procs \ {p} : loaded'[q] = loaded[q]
          /\ pc[p] = "idle"
      BY <2>9 DEF Login
    <3> QED
      BY <3>1, <3>2, <3>3
  <2>10. CASE LoginSave(p)
    <3>1. /\ \A q \in Procs \ {p} : ~AtTheFile(q) /\ pc'[q] = pc[q]
          /\ pc'[p] \in {"send", "idle"}
      BY <2>10 DEF LoginSave
    <3>2. \A q \in Procs : ~AtTheFile(q)'
      BY <3>1
    <3> QED
      BY <3>2
  <2>11. CASE LogoutLoad(p)
    BY <2>11 DEF LogoutLoad
  <2>12. CASE LogoutPost(p)
    BY <2>12 DEF LogoutPost
  <2>13. CASE LogoutClear(p)
    BY <2>13 DEF LogoutClear
  <2>14. CASE ClaimByCode(p)
    BY <2>14 DEF ClaimByCode
  <2>15. CASE SaveRaises(p)
    <3>1. \A q \in Procs \ {p} : ~AtTheFile(q) /\ pc'[q] = pc[q]
      BY <2>15 DEF SaveRaises
    <3>2. pc'[p] = "idle"
      BY <2>15 DEF SaveRaises
    <3>3. \A q \in Procs : ~AtTheFile(q)'
      BY <3>1, <3>2
    <3> QED
      BY <3>3
  <2> QED
    BY <1>6, <2>1, <2>2, <2>3, <2>4, <2>5, <2>6, <2>7, <2>8, <2>9, <2>10, <2>11,
       <2>12, <2>13, <2>14, <2>15 DEF Step
<1> QED
  BY <1>4, <1>5, <1>6 DEF Next

LEMMA Invariance == Spec => []SessionInv
<1>1. Init => SessionInv
  BY FactsInit, CalmInit DEF SessionInv
<1>2. SessionInv /\ [Next]_vars => SessionInv'
  BY FactsStep, CalmStep DEF SessionInv
<1> QED
  BY <1>1, <1>2, PTL DEF Spec

----------------------------------------------------------------------------
(* Theorems.                                                                *)

\* Type correctness of the session, the server and the commands.
THEOREM TypeCorrect == Spec => []TypeOK
<1>1. SessionInv => TypeOK
  BY DEF SessionInv, Facts
<1> QED
  BY <1>1, Invariance, PTL

\* The server carries out no request of a command twice, the retry after a
\* refresh (_marketplace_authed_request) included, however many commands run.
THEOREM NothingTwice == Spec => []AtMostOnce
<1>1. SessionInv => AtMostOnce
  BY DEF SessionInv, Facts, DoneIsAnswered, AtMostOnce
<1> QED
  BY <1>1, Invariance, PTL

\* A session the server would still renew is removed from the file by a logout
\* only, unless a refresh went unanswered or two commands were at the file.
THEOREM SessionKept == Spec => SessionOutlivesErrors
<1> DEFINE Kept == Drops /\ session \in live => LogsOut \/ ~calm
<1>1. SessionInv /\ [Next]_vars => [Kept]_vars
  <2> SUFFICES ASSUME SessionInv, Next, Drops, session \in live, calm PROVE LogsOut
    BY DEF Kept
  <2>0. /\ pc \in [Procs -> Places] /\ session # None /\ session' = None
        /\ \A q \in Procs : pc[q] = "clear" => session \notin live
        /\ Holding
    BY DEF SessionInv, Facts, TypeOK, CalmInv, Current, Drops
  <2>1. PICK p \in Procs : Step(p)
    BY <2>0 DEF Next, Expire
  <2>2. LogoutClear(p)
    BY <2>0, <2>1 DEF Step, Start, Send, RefreshLoad, Trade, Save, SaveRaises, Resend, Clear, Conclude,
       Login, LoginSave, LogoutLoad, LogoutPost, ClaimByCode, Holding
  <2> QED
    BY <2>0, <2>2 DEF LogoutClear, LogsOut, Moves
<1> HIDE DEF Kept
<1>2. Spec => [][Kept]_vars
  BY <1>1, Invariance, PTL DEF Spec
<1> QED
  BY <1>2 DEF SessionOutlivesErrors, Kept

\* One refresh is enough: the second try (_marketplace_authed_request) carries
\* the token that was just saved, and the server accepts it.
THEOREM RetryServed == Spec => RetryIsServed
<1> DEFINE Served ==
      \A p \in Procs :
         Moves(p) /\ pc[p] = "resend" /\ cred[p] = "session" => answer'[p] # "401" \/ ~calm
<1>1. SessionInv /\ [Next]_vars => [Served]_vars
  <2> SUFFICES ASSUME SessionInv, Next, NEW p \in Procs, Moves(p), pc[p] = "resend",
                      cred[p] = "session", calm
               PROVE answer'[p] # "401"
    BY DEF Served
  <2>0. /\ pc \in [Procs -> Places]
        /\ answer \in [Procs -> {"none", "ok", "failed", "401"}]
        /\ session # None /\ session \in fresh
    BY DEF SessionInv, Facts, TypeOK, CalmInv, Current
  <2>1. PICK q \in Procs : Step(q)
    BY DEF Next, Expire, Moves
  <2>2. q = p
    BY <2>0, <2>1 DEF Moves, Step, Start, Send, RefreshLoad, Trade, Save, SaveRaises, Resend, Clear,
       Conclude, Login, LoginSave, LogoutLoad, LogoutPost, LogoutClear, ClaimByCode
  <2>3. Resend(p)
    BY <2>1, <2>2 DEF Step, Start, Send, RefreshLoad, Trade, Save, SaveRaises, Clear, Conclude,
       Login, LoginSave, LogoutLoad, LogoutPost, LogoutClear, ClaimByCode
  <2> QED
    BY <2>0, <2>3 DEF Resend, Exchange, Token
<1> HIDE DEF Served
<1>2. Spec => [][Served]_vars
  BY <1>1, Invariance, PTL DEF Spec
<1> QED
  BY <1>2 DEF RetryIsServed, Served

----------------------------------------------------------------------------
(* ModuleInstall.                                                           *)

USE DEF ModuleJson, Handler, Sig, Ignore, Venv, Sibling, Idle

----------------------------------------------------------------------------
(* Directories.                                                             *)

IsDir(d) == d = [p \in DOMAIN d |-> d[p]]

LEMMA PathSet == Range(Paths) = {Ignore, Venv, Handler, ModuleJson, Sig, Sibling}
<1>1. DOMAIN Paths = 1 .. 6
  BY DEF Paths
<1>2. Range(Paths) = {Paths[n] : n \in 1 .. 6}
  BY <1>1 DEF Range
<1>3. /\ Paths[1] = Ignore /\ Paths[2] = Venv /\ Paths[3] = Handler
      /\ Paths[4] = ModuleJson /\ Paths[5] = Sig /\ Paths[6] = Sibling
  BY DEF Paths
<1> QED
  BY <1>2, <1>3

LEMMA CanonicalFiles ==
  /\ Canonical[1] = ModuleJson /\ Canonical[2] = Handler /\ Canonical[3] = Sig
  /\ Len(Canonical) = 3
  BY DEF Canonical

LEMMA EmptyFiles ==
  /\ Empty[ModuleJson] = [version |-> 0, key |-> "none"]
  /\ Empty[Handler] = [text |-> 0, crlf |-> FALSE]
  /\ Empty[Sig].key = "none"
  BY DEF Empty

LEMMA NoFilesFacts == IsDir(NoFiles) /\ DOMAIN NoFiles = {}
  BY DEF NoFiles, IsDir

LEMMA PutFacts ==
  ASSUME NEW d, NEW p, NEW content
  PROVE  /\ IsDir(Put(d, p, content))
         /\ DOMAIN Put(d, p, content) = DOMAIN d \cup {p}
         /\ Put(d, p, content)[p] = content
         /\ \A q \in DOMAIN d : q # p => Put(d, p, content)[q] = d[q]
  BY DEF Put, IsDir

LEMMA WithoutFacts ==
  ASSUME NEW d, NEW ps
  PROVE  /\ IsDir(Without(d, ps))
         /\ DOMAIN Without(d, ps) = DOMAIN d \ ps
         /\ \A q \in DOMAIN d \ ps : Without(d, ps)[q] = d[q]
  BY DEF Without, Restrict, IsDir

\* Directories with the same files are the same.
LEMMA SameFiles ==
  ASSUME NEW d, NEW e, IsDir(d), IsDir(e), DOMAIN d = DOMAIN e,
         \A p \in DOMAIN d : d[p] = e[p]
  PROVE  d = e
  BY DEF IsDir

----------------------------------------------------------------------------
(* What a publisher has, what it signs and what it lists.                   *)

SourceOK(d) ==
    /\ IsDir(d)
    /\ DOMAIN d \subseteq {Ignore, Handler, ModuleJson, Sig, Sibling}
    /\ Has(d, ModuleJson) /\ d[ModuleJson] \in Manifests \cup {Empty[ModuleJson]}
    /\ Has(d, Handler) /\ d[Handler] \in Handlers
    /\ Has(d, Sibling) => d[Sibling] \in 1 .. 2

\* Without a .venv the tree is all but the signature.
LEMMA TreeOfSource ==
  ASSUME NEW d, SourceOK(d)
  PROVE  /\ IsDir(Tree(d)) /\ DOMAIN Tree(d) = DOMAIN d \ {Sig}
         /\ \A p \in DOMAIN d \ {Sig} : Tree(d)[p] = d[p]
         /\ SourceOK(Tree(d))
<1>1. {p \in DOMAIN d : Ignored(d, p)} \cap DOMAIN d = {Sig} \cap DOMAIN d
  BY DEF Ignored, SourceOK
<1>2. DOMAIN Tree(d) = DOMAIN d \ {Sig}
  BY <1>1, WithoutFacts DEF Tree
<1>3. IsDir(Tree(d)) /\ \A p \in DOMAIN d \ {Sig} : Tree(d)[p] = d[p]
  BY <1>1, WithoutFacts DEF Tree
<1> QED
  BY <1>2, <1>3 DEF SourceOK, Has

LEMMA ManifestFacts ==
  ASSUME NEW m \in Manifests
  PROVE  /\ m.version \in 1 .. 2 /\ m.key \in Keys
         /\ m # Empty[ModuleJson]
         /\ \A k \in Keys : [m EXCEPT !.key = k] \in Manifests
         /\ [m EXCEPT !.version = 2] \in Manifests
  BY EmptyFiles DEF Manifests, Keys

LEMMA HandlerFacts ==
  ASSUME NEW h \in Handlers
  PROVE  /\ AsText(h) \in Handlers
         /\ ~h.crlf => AsText(h) = h
         /\ [h EXCEPT !.text = 3 - @] \in Handlers
<1>1. h.text \in 1 .. 2 /\ h.crlf \in BOOLEAN /\ h = [text |-> h.text, crlf |-> h.crlf]
  BY DEF Handlers
<1>2. AsText(h) = [text |-> h.text, crlf |-> FALSE]
  BY DEF AsText
<1>3. [h EXCEPT !.text = 3 - @] = [text |-> 3 - h.text, crlf |-> h.crlf]
  BY DEF Handlers
<1>4. 3 - h.text \in 1 .. 2
  BY <1>1
<1> QED
  BY <1>1, <1>2, <1>3, <1>4 DEF Handlers

\* A file more, or another in its place.
LEMMA SourcePut ==
  ASSUME NEW d, SourceOK(d)
  PROVE  /\ \A m \in Manifests \cup {Empty[ModuleJson]} :
               SourceOK(Put(d, ModuleJson, m)) /\ Put(d, ModuleJson, m)[ModuleJson] = m
         /\ \A h \in Handlers : SourceOK(Put(d, Handler, h))
         /\ \A sig : SourceOK(Put(d, Sig, sig))
         /\ \A n \in 1 .. 2 : SourceOK(Put(d, Sibling, n))
<1>1. ASSUME NEW p \in {Handler, ModuleJson, Sig, Sibling}, NEW content,
             p = ModuleJson => content \in Manifests \cup {Empty[ModuleJson]},
             p = Handler => content \in Handlers,
             p = Sibling => content \in 1 .. 2
      PROVE  SourceOK(Put(d, p, content)) /\ Put(d, p, content)[p] = content
  <2> DEFINE e == Put(d, p, content)
  <2>1. /\ IsDir(e) /\ DOMAIN e = DOMAIN d \cup {p} /\ e[p] = content
        /\ \A q \in DOMAIN d : q # p => e[q] = d[q]
    BY DEF Put, IsDir
  <2> HIDE DEF e
  <2>2. SourceOK(e)
    BY <1>1, <2>1 DEF SourceOK, Has
  <2> QED
    BY <2>1, <2>2 DEF e
<1> QED
  BY <1>1

\* A signature over a tree is one over the manifest in it.
SigOK(sig) ==
    \A k \in Keys, m \in Manifests : \A h, tree :
        m.version >= 2 /\ sig = SignWith(k, m, h, tree) => tree[ModuleJson] = m

LEMMA SignatureOK ==
  ASSUME NEW k, NEW m, NEW h, NEW tree, m.version >= 2 => tree[ModuleJson] = m
  PROVE  SigOK(SignWith(k, m, h, tree))
<1> SUFFICES ASSUME NEW kk \in Keys, NEW mm \in Manifests, NEW hh, NEW tt, mm.version >= 2,
                    SignWith(k, m, h, tree) = SignWith(kk, mm, hh, tt)
             PROVE  tt[ModuleJson] = mm
  BY Zenon DEF SigOK
<1>1. SignedBytes(m, h, tree) = SignedBytes(mm, hh, tt)
  BY DEF SignWith
<1>2. SignedBytes(mm, hh, tt) = <<mm, tt>>
  BY DEF SignedBytes
<1>3. m = mm
  BY <1>1, <1>2 DEF SignedBytes
<1>4. SignedBytes(m, h, tree) = <<m, tree>>
  BY <1>3 DEF SignedBytes
<1> QED
  BY <1>1, <1>2, <1>3, <1>4

LEMMA EmptySigOK == SigOK(Empty[Sig])
<1>1. \A k \in Keys : \A m, h, tree : SignWith(k, m, h, tree).key = k
  BY DEF SignWith
<1>2. "none" \notin Keys
  BY DEF Keys
<1>3. \A k \in Keys : \A m, h, tree : Empty[Sig] # SignWith(k, m, h, tree)
  BY <1>1, <1>2, EmptyFiles
<1> QED
  BY <1>3, Zenon DEF SigOK

\* A directory that was just signed verifies.
LEMMA SignedVerifies ==
  ASSUME NEW d, SourceOK(d), NEW m \in Manifests
  PROVE  /\ SourceOK(Signed(m.key, m, d)) /\ Verify(Signed(m.key, m, d))
         /\ Has(Signed(m.key, m, d), Sig) /\ SigOK(Signed(m.key, m, d)[Sig])
<1> DEFINE e == Put(d, ModuleJson, m)
           sig == SignWith(m.key, m, e[Handler], Tree(e))
           s == Put(e, Sig, sig)
<1>1. Signed(m.key, m, d) = s
  BY DEF Signed
<1>2. SourceOK(e) /\ e[ModuleJson] = m
  BY SourcePut
<1>3. sig = SignWith(m.key, m, e[Handler], Tree(e))
  OBVIOUS
<1> HIDE DEF e, sig
<1>4. SourceOK(s)
  BY <1>2, SourcePut
<1>5. /\ IsDir(s) /\ DOMAIN s = DOMAIN e \cup {Sig} /\ s[Sig] = sig
      /\ \A p \in DOMAIN e : p # Sig => s[p] = e[p]
  BY DEF Put, IsDir
<1> HIDE DEF s
<1>6. Has(s, Sig) /\ s[ModuleJson] = m /\ s[Handler] = e[Handler]
  BY <1>2, <1>5 DEF SourceOK, Has
<1>7. Tree(s) = Tree(e)
  <2>1. /\ IsDir(Tree(s)) /\ DOMAIN Tree(s) = DOMAIN s \ {Sig}
        /\ \A p \in DOMAIN s \ {Sig} : Tree(s)[p] = s[p]
    BY <1>4, TreeOfSource
  <2>2. /\ IsDir(Tree(e)) /\ DOMAIN Tree(e) = DOMAIN e \ {Sig}
        /\ \A p \in DOMAIN e \ {Sig} : Tree(e)[p] = e[p]
    BY <1>2, TreeOfSource
  <2>3. DOMAIN Tree(s) = DOMAIN Tree(e) /\ \A p \in DOMAIN Tree(s) : Tree(s)[p] = Tree(e)[p]
    BY <1>5, <2>1, <2>2
  <2> QED
    BY <2>1, <2>2, <2>3, SameFiles
<1>8. Reads(s)
  <2>1. Has(s, ModuleJson) /\ Has(s, Handler)
    BY <1>4 DEF SourceOK
  <2>2. m.version > 0
    BY DEF Manifests
  <2> QED
    BY <1>6, <2>1, <2>2 DEF Reads
<1>9. Verify(s)
  BY <1>3, <1>5, <1>6, <1>7, <1>8 DEF Verify
<1>10. SigOK(sig)
  <2>1. Tree(e)[ModuleJson] = m
    <3>1. ModuleJson \in DOMAIN e \ {Sig}
      BY <1>2 DEF SourceOK, Has
    <3> QED
      BY <1>2, <3>1, TreeOfSource
  <2> QED
    BY <1>3, <2>1, SignatureOK
<1> QED
  BY <1>1, <1>4, <1>5, <1>6, <1>9, <1>10

\* What an install lays down.
LEMMA UnpackedFacts ==
  ASSUME NEW b
  PROVE  /\ IsDir(Unpacked(b))
         /\ DOMAIN Unpacked(b) = DOMAIN b.files \cup {ModuleJson, Handler, Sig}
         /\ Unpacked(b)[ModuleJson] = b.manifest
         /\ Unpacked(b)[Handler] = b.handler_py
         /\ Unpacked(b)[Sig] = b.sig
         /\ \A p \in DOMAIN b.files : p \notin {ModuleJson, Handler, Sig} =>
               Unpacked(b)[p] = b.files[p]
<1> DEFINE c == Put(b.files, ModuleJson, b.manifest)
           d == Put(c, Handler, b.handler_py)
           e == Put(d, Sig, b.sig)
<1>1. /\ DOMAIN c = DOMAIN b.files \cup {ModuleJson} /\ c[ModuleJson] = b.manifest
      /\ \A p \in DOMAIN b.files : p # ModuleJson => c[p] = b.files[p]
  BY DEF Put, IsDir
<1> HIDE DEF c
<1>2. /\ DOMAIN d = DOMAIN c \cup {Handler} /\ d[Handler] = b.handler_py
      /\ \A p \in DOMAIN c : p # Handler => d[p] = c[p]
  BY DEF Put, IsDir
<1> HIDE DEF d
<1>3. /\ IsDir(e) /\ DOMAIN e = DOMAIN d \cup {Sig} /\ e[Sig] = b.sig
      /\ \A p \in DOMAIN d : p # Sig => e[p] = d[p]
  BY DEF Put, IsDir
<1>4. Unpacked(b) = e
  BY DEF Unpacked, c, d
<1> HIDE DEF e
<1> QED
  BY <1>1, <1>2, <1>3, <1>4

Listing(d) == Bundle(d[ModuleJson], AsText(d[Handler]), d[Sig], Tree(d))

\* What a directory that verifies is listed as, verifies when it is unpacked, but for
\* a handler with CRLF lines; a tree is unpacked to the very directory.
LEMMA ListedVerifies ==
  ASSUME NEW d, SourceOK(d), Verify(d)
  PROVE  /\ Verify(Unpacked(Listing(d))) \/ Listing(d).sig.over[2][Handler].crlf
         /\ d[ModuleJson].version >= 2 /\ ~d[Handler].crlf => Unpacked(Listing(d)) = d
<1> DEFINE m == d[ModuleJson]
           h == d[Handler]
           b == Listing(d)
           u == Unpacked(b)
<1>1. /\ m \in Manifests /\ h \in Handlers /\ Has(d, Sig) /\ m.version > 0
      /\ d[Sig] = SignWith(m.key, m, h, Tree(d))
  BY EmptyFiles DEF Verify, Reads, SourceOK
<1>2. /\ b.manifest = m /\ b.handler_py = AsText(h) /\ b.sig = d[Sig]
      /\ b.files = IF m.version >= 2 THEN Tree(d) ELSE NoFiles
  BY DEF Listing, Bundle
<1>3. d[Sig].over[2] = IF m.version >= 2 THEN Tree(d) ELSE Put(NoFiles, Handler, h)
  BY <1>1 DEF SignWith, SignedBytes
<1>4. d[Sig].over[2][Handler] = h
  <2>1. Tree(d)[Handler] = h
    <3>1. Handler \in DOMAIN d \ {Sig}
      BY DEF SourceOK, Has
    <3> QED
      BY <3>1, TreeOfSource
  <2>2. Put(NoFiles, Handler, h)[Handler] = h
    BY DEF Put, IsDir
  <2> QED
    BY <1>3, <2>1, <2>2
<1>5. /\ IsDir(u) /\ DOMAIN u = DOMAIN b.files \cup {ModuleJson, Handler, Sig}
      /\ u[ModuleJson] = m /\ u[Handler] = AsText(h) /\ u[Sig] = d[Sig]
      /\ \A p \in DOMAIN b.files : p \notin {ModuleJson, Handler, Sig} => u[p] = b.files[p]
  BY <1>2, UnpackedFacts
<1> HIDE DEF b, u
<1>6. ASSUME ~h.crlf, m.version >= 2 PROVE u = d
  <2>1. AsText(h) = h
    BY <1>1, <1>6, HandlerFacts
  <2>2. /\ b.files = Tree(d) /\ DOMAIN Tree(d) = DOMAIN d \ {Sig}
        /\ \A p \in DOMAIN d \ {Sig} : Tree(d)[p] = d[p]
    BY <1>2, <1>6, TreeOfSource
  <2>3. {ModuleJson, Handler, Sig} \subseteq DOMAIN d /\ IsDir(d)
    BY <1>1 DEF SourceOK, Has
  <2>4. DOMAIN u = DOMAIN d
    BY <1>5, <2>2, <2>3
  <2>5. \A p \in DOMAIN d : u[p] = d[p]
    BY <1>5, <2>1, <2>2, <2>3
  <2> QED
    BY <1>5, <2>3, <2>4, <2>5, SameFiles
<1>7. ASSUME ~h.crlf, m.version < 2 PROVE Verify(u)
  <2>1. AsText(h) = h
    BY <1>1, <1>7, HandlerFacts
  <2>2. Reads(u) /\ Has(u, Sig)
    BY <1>1, <1>5 DEF Reads, Has
  <2>3. SignWith(m.key, m, h, Tree(u)) = SignWith(m.key, m, h, Tree(d))
    <3>1. m.version \in 1 .. 2
      BY <1>1, ManifestFacts
    <3>2. ~(m.version >= 2)
      BY <1>7, <3>1
    <3> QED
      BY <3>2 DEF SignWith, SignedBytes
  <2> QED
    BY <1>1, <1>5, <2>1, <2>2, <2>3 DEF Verify
<1>8. m.version \in 1 .. 2
  BY <1>1, ManifestFacts
<1> QED
  BY <1>2, <1>4, <1>6, <1>7, <1>8 DEF b, u

----------------------------------------------------------------------------
(* The invariant: the directories and what the publisher command holds ...  *)

BundleOK(b) ==
    /\ b.manifest \in Manifests /\ b.handler_py \in Handlers
    /\ b.manifest.version < 2 => b.files = NoFiles
    /\ b.manifest.version >= 2 =>
          /\ SourceOK(b.files) /\ ~Has(b.files, Sig)
          /\ b.files[ModuleJson] = b.manifest
          /\ b.sig = SignWith(b.manifest.key, b.manifest, b.handler_py, b.files)

Good(b) == Verify(Unpacked(b)) \/ b.sig.over[2][Handler].crlf

StationOK(d) ==
    /\ IsDir(d)
    /\ DOMAIN d \subseteq {Ignore, Venv, Handler, ModuleJson, Sig, Sibling}
    /\ Has(d, ModuleJson) => d[ModuleJson] \in Manifests \cup {Empty[ModuleJson]}
    /\ Has(d, Handler) => d[Handler] \in Handlers \cup {Empty[Handler]}
    /\ Has(d, Sibling) => d[Sibling] \in 1 .. 2

Shelves ==
    /\ DOMAIN disk = {"work", "temp", "station"}
    /\ SourceOK(disk["work"])
    /\ disk["temp"] = NoFiles \/ SourceOK(disk["temp"])
    /\ StationOK(disk["station"])
    /\ budget \in [{"edits", "stops", "commands"} -> Nat]

ListedOK ==
    listed # Absent => BundleOK(listed) /\ (whole => Good(listed))

PubFields == {"at", "place", "manifest", "handler", "sig", "tree", "whole"}

Posted == Bundle(pub.manifest, AsText(pub.handler), pub.sig, pub.tree)

Reading == {"publish_handler", "publish_sig", "publish_walk"}

ReadOK ==
    /\ DOMAIN pub = PubFields
    /\ pub.place \in {"work", "temp"}
    /\ pub.at # Idle => SourceOK(disk[pub.place])
    /\ pub.at = "publish" => pub.place = "temp"
    /\ pub.at \in Reading =>
          /\ pub.manifest \in Manifests
          /\ Has(disk[pub.place], Sig)
          /\ pub.whole => /\ Verify(disk[pub.place])
                          /\ pub.manifest = disk[pub.place][ModuleJson]
    /\ pub.at \in {"publish_sig", "publish_walk"} =>
          /\ pub.handler \in Handlers
          /\ pub.whole => pub.handler = disk[pub.place][Handler]
    /\ pub.at = "publish_walk" =>
          /\ pub.manifest.version >= 2 /\ pub.manifest.key = "mine"
          /\ SigOK(pub.sig)
          /\ pub.whole => pub.sig = disk[pub.place][Sig]
    /\ pub.at = "publish_post" =>
          /\ pub.manifest.key = "mine"
          /\ BundleOK(Posted) /\ (pub.whole => Good(Posted))

SignerFields == {"at", "manifest", "handler", "sig"}

Signing == {"sign_manifest", "sign_write", "sign_walk", "sign_open", "sign_sig"}

SignerOK ==
    /\ DOMAIN signer = SignerFields
    /\ signer.at \in Signing => signer.manifest \in Manifests
    /\ signer.at = "sign_walk" => disk["work"][ModuleJson] = signer.manifest
    /\ signer.at \in {"sign_open", "sign_sig"} => SigOK(signer.sig)

Signatures ==
    \A place \in {"work", "temp"} : Has(disk[place], Sig) => SigOK(disk[place][Sig])

PubOK == ReadOK /\ SignerOK /\ Signatures

----------------------------------------------------------------------------
(* ... and how far the installer command has come.                          *)

InstFields == {"at", "bundle", "todo", "nth", "stash", "source", "sound"}

\* What the command lays down first, file by file.
Cargo == IF inst.bundle = Absent THEN inst.source ELSE inst.bundle.files

Written(n) == {Canonical[k] : k \in 1 .. n - 1}

\* The station holds the cargo but for what is left to do, then also the strings.
Laid ==
    /\ inst.at = "restore" => DOMAIN Station = {}
    /\ inst.at \in {"extract", "copy"} =>
          /\ DOMAIN Station \ {Venv} = DOMAIN Cargo \ inst.todo
          /\ \A p \in DOMAIN Cargo \ inst.todo : Station[p] = Cargo[p]
    /\ inst.at = "open" =>
          /\ DOMAIN Station \ {Venv} = DOMAIN Cargo \cup Written(inst.nth)
          /\ \A p \in DOMAIN Station \ {Venv} :
                Station[p] = IF p \in Written(inst.nth) THEN Unpacked(inst.bundle)[p] ELSE Cargo[p]
    /\ inst.at = "write" =>
          /\ DOMAIN Station \ {Venv} = DOMAIN Cargo \cup Written(inst.nth + 1)
          /\ \A p \in DOMAIN Station \ {Venv, Canonical[inst.nth]} :
                Station[p] = IF p \in Written(inst.nth) THEN Unpacked(inst.bundle)[p] ELSE Cargo[p]

InstOK ==
    /\ DOMAIN inst = InstFields
    /\ inst.at \in {Idle, "wipe", "restore", "extract", "open", "write", "copy"}
    /\ inst.nth \in 1 .. 3 /\ inst.stash \in BOOLEAN
    /\ inst.stash => inst.at \in {"wipe", "restore"} /\ ~Has(Station, Venv)
    /\ inst.at = "wipe" /\ ~inst.stash => ~Has(Station, Venv)
    /\ inst.at = "restore" => inst.stash
    /\ inst.at \in {"extract", "open", "write"} => inst.bundle # Absent
    /\ inst.at = "copy" => inst.bundle = Absent
    /\ inst.at \in {"wipe", "restore"} => inst.todo = DOMAIN Cargo /\ inst.nth = 1
    /\ inst.at \in {"extract", "copy"} => inst.todo # {} /\ inst.nth = 1
    /\ inst.bundle # Absent => BundleOK(inst.bundle) /\ inst.todo \subseteq DOMAIN Cargo
    /\ inst.at # Idle /\ inst.bundle = Absent =>
          /\ SourceOK(inst.source) /\ Verify(inst.source)
          /\ inst.todo \subseteq DOMAIN inst.source
          /\ inst.sound => disk["work"] = inst.source
    /\ inst.at # Idle /\ inst.sound => Laid

VenvOK == DOMAIN venv = {"built", "lost"} /\ VenvKept

InstallInv == Shelves /\ ListedOK /\ PubOK /\ InstOK /\ VenvOK

----------------------------------------------------------------------------
(* Fields of the two commands' records.                                     *)

LEMMA ReadyFields ==
  ASSUME NEW i, DOMAIN i = InstFields
  PROVE  /\ DOMAIN Ready(i) = InstFields
         /\ Ready(i).at = IF i.bundle = Absent THEN "copy"
                          ELSE IF i.todo # {} THEN "extract" ELSE "open"
         /\ Ready(i).bundle = i.bundle /\ Ready(i).todo = i.todo /\ Ready(i).nth = i.nth
         /\ Ready(i).stash = i.stash /\ Ready(i).source = i.source /\ Ready(i).sound = i.sound
  BY Zenon DEF Ready, InstFields

LEMMA InstUpdates ==
  ASSUME NEW i, DOMAIN i = InstFields
  PROVE  /\ DOMAIN [i EXCEPT !.stash = FALSE] = InstFields
         /\ [i EXCEPT !.stash = FALSE].at = i.at
         /\ [i EXCEPT !.stash = FALSE].bundle = i.bundle
         /\ [i EXCEPT !.stash = FALSE].todo = i.todo
         /\ [i EXCEPT !.stash = FALSE].nth = i.nth
         /\ [i EXCEPT !.stash = FALSE].stash = FALSE
         /\ [i EXCEPT !.stash = FALSE].source = i.source
         /\ [i EXCEPT !.stash = FALSE].sound = i.sound
         /\ DOMAIN [i EXCEPT !.sound = FALSE] = InstFields
         /\ [i EXCEPT !.sound = FALSE].at = i.at
         /\ [i EXCEPT !.sound = FALSE].bundle = i.bundle
         /\ [i EXCEPT !.sound = FALSE].todo = i.todo
         /\ [i EXCEPT !.sound = FALSE].nth = i.nth
         /\ [i EXCEPT !.sound = FALSE].stash = i.stash
         /\ [i EXCEPT !.sound = FALSE].source = i.source
         /\ [i EXCEPT !.sound = FALSE].sound = FALSE
  BY Zenon DEF InstFields

LEMMA NoInstFields ==
  /\ DOMAIN NoInst = InstFields /\ NoInst.at = Idle /\ NoInst.bundle = Absent
  /\ NoInst.todo = {} /\ NoInst.nth = 1 /\ NoInst.stash = FALSE /\ NoInst.sound = TRUE
  BY DEF NoInst, InstFields

LEMMA NoPubFields ==
  DOMAIN NoPub = PubFields /\ NoPub.at = Idle /\ NoPub.place = "work" /\ NoPub.whole = FALSE
  BY DEF NoPub, PubFields

LEMMA NoSignerFields == DOMAIN NoSigner = SignerFields /\ NoSigner.at = Idle
  BY DEF NoSigner, SignerFields

LEMMA WrittenFiles ==
  /\ Written(1) = {} /\ Written(2) = {ModuleJson}
  /\ Written(3) = {ModuleJson, Handler} /\ Written(4) = {ModuleJson, Handler, Sig}
<1>1. /\ 1 .. 1 - 1 = {} /\ 1 .. 2 - 1 = {1} /\ 1 .. 3 - 1 = {1, 2} /\ 1 .. 4 - 1 = {1, 2, 3}
  OBVIOUS
<1> QED
  BY <1>1, CanonicalFiles DEF Written

----------------------------------------------------------------------------
(* The initial states.                                                      *)

LEMMA DraftOK ==
  ASSUME NEW m \in Manifests, NEW crlf \in BOOLEAN,
         NEW rest, IsDir(rest), DOMAIN rest \subseteq {Ignore, Sibling},
         Has(rest, Sibling) => rest[Sibling] \in 1 .. 2
  PROVE  /\ SourceOK(Draft(m, crlf, rest)) /\ Draft(m, crlf, rest)[ModuleJson] = m
         /\ ~Has(Draft(m, crlf, rest), Sig)
<1> DEFINE h == [text |-> 1, crlf |-> crlf]
           d == Put(rest, Handler, h)
           e == Put(d, ModuleJson, m)
<1>1. h \in Handlers
  BY DEF Handlers
<1> HIDE DEF h
<1>2. /\ DOMAIN d = DOMAIN rest \cup {Handler} /\ d[Handler] = h
      /\ \A q \in DOMAIN rest : q # Handler => d[q] = rest[q]
  BY DEF Put
<1> HIDE DEF d
<1>3. /\ IsDir(e) /\ DOMAIN e = DOMAIN d \cup {ModuleJson} /\ e[ModuleJson] = m
      /\ \A q \in DOMAIN d : q # ModuleJson => e[q] = d[q]
  BY DEF Put, IsDir
<1>4. Draft(m, crlf, rest) = e
  BY DEF Draft, d, h
<1> HIDE DEF e
<1>5. SourceOK(e) /\ ~Has(e, Sig)
  BY <1>1, <1>2, <1>3 DEF SourceOK, Has
<1> QED
  BY <1>3, <1>4, <1>5

\* What may be in a directory besides the three files.
LEMMA RestFacts ==
  /\ IsDir(NoFiles) /\ DOMAIN NoFiles = {}
  /\ \A n \in 1 .. 2 : /\ IsDir(Put(NoFiles, Sibling, n))
                        /\ DOMAIN Put(NoFiles, Sibling, n) = {Sibling}
                        /\ Put(NoFiles, Sibling, n)[Sibling] = n
  /\ IsDir(Ignoring) /\ DOMAIN Ignoring = {Ignore}
  /\ IsDir(Put(Plain, Ignore, TRUE)) /\ DOMAIN Put(Plain, Ignore, TRUE) = {Ignore, Sibling}
  /\ Put(Plain, Ignore, TRUE)[Sibling] = 1
<1>1. \A n : /\ IsDir(Put(NoFiles, Sibling, n)) /\ DOMAIN Put(NoFiles, Sibling, n) = {Sibling}
             /\ Put(NoFiles, Sibling, n)[Sibling] = n
  BY DEF Put, IsDir, NoFiles
<1>2. IsDir(Ignoring) /\ DOMAIN Ignoring = {Ignore}
  BY DEF Put, IsDir, NoFiles, Ignoring
<1> DEFINE p == Plain
<1>3. DOMAIN p = {Sibling} /\ p[Sibling] = 1
  BY <1>1 DEF Plain
<1> HIDE DEF p
<1>4. /\ IsDir(Put(p, Ignore, TRUE)) /\ DOMAIN Put(p, Ignore, TRUE) = DOMAIN p \cup {Ignore}
      /\ Put(p, Ignore, TRUE)[Sibling] = p[Sibling]
  BY <1>3 DEF Put, IsDir
<1>5. /\ IsDir(Put(p, Ignore, TRUE)) /\ DOMAIN Put(p, Ignore, TRUE) = {Ignore, Sibling}
      /\ Put(p, Ignore, TRUE)[Sibling] = 1
  BY <1>3, <1>4
<1> QED
  BY <1>1, <1>2, <1>5, NoFilesFacts DEF p

LEMMA DraftsOK == \A d \in Drafts : SourceOK(d) /\ (Has(d, Sig) => SigOK(d[Sig]))
<1> DEFINE old == [version |-> 1, key |-> "mine"]
           new == [version |-> 2, key |-> "theirs"]
<1>1. old \in Manifests /\ new \in Manifests
  BY DEF Manifests, Keys
<1> HIDE DEF old, new
<1> DEFINE unsigned ==
             { Draft(old, FALSE, NoFiles), Draft(old, TRUE, Put(Plain, Ignore, TRUE)),
               Draft(new, FALSE, Plain) }
           Fine(d) == SourceOK(d) /\ d[ModuleJson] \in Manifests /\ ~Has(d, Sig)
<1>2. \A d \in unsigned : Fine(d)
  <2> DEFINE Rest(r) == /\ IsDir(r) /\ DOMAIN r \subseteq {Ignore, Sibling}
                        /\ Has(r, Sibling) => r[Sibling] \in 1 .. 2
  <2>1. \A m \in Manifests, crlf \in BOOLEAN : \A r : Rest(r) => Fine(Draft(m, crlf, r))
    BY DraftOK
  <2>2. Rest(NoFiles) /\ Rest(Plain)
    BY RestFacts DEF Has, Plain
  <2>3. Rest(Put(Plain, Ignore, TRUE))
    <3>1. \A r : IsDir(r) /\ DOMAIN r = {Ignore, Sibling} /\ r[Sibling] = 1 => Rest(r)
      BY DEF Has
    <3> HIDE DEF Rest
    <3> QED
      BY <3>1, RestFacts
  <2> HIDE DEF Rest, Fine
  <2>4. /\ Fine(Draft(old, FALSE, NoFiles))
        /\ Fine(Draft(old, TRUE, Put(Plain, Ignore, TRUE)))
        /\ Fine(Draft(new, FALSE, Plain))
    BY <1>1, <2>1, <2>2, <2>3
  <2> QED
    BY <2>4
<1>3. Drafts = unsigned \cup { Signed(d[ModuleJson].key, d[ModuleJson], d) : d \in unsigned }
  BY DEF Drafts, old, new
<1> HIDE DEF unsigned
<1>4. ASSUME NEW d \in unsigned
      PROVE  LET s == Signed(d[ModuleJson].key, d[ModuleJson], d)
             IN  SourceOK(s) /\ SigOK(s[Sig])
  BY <1>2, SignedVerifies
<1> QED
  BY <1>2, <1>3, <1>4

LEMMA ForeignOK ==
  ASSUME NEW rest, IsDir(rest), DOMAIN rest \subseteq {Ignore, Sibling},
         Has(rest, Sibling) => rest[Sibling] \in 1 .. 2
  PROVE  BundleOK(Foreign(rest)) /\ Verify(Unpacked(Foreign(rest)))
<1> DEFINE m == [version |-> 2, key |-> "theirs"]
           e == Draft(m, FALSE, rest)
           d == Signed(m.key, m, e)
<1>1. m \in Manifests /\ m.version = 2 /\ m.key = "theirs"
  BY DEF Manifests, Keys
<1>0. Foreign(rest) = Bundle(m, AsText(d[Handler]), d[Sig], Tree(d))
  BY DEF Foreign
<1> HIDE DEF m
<1>2. SourceOK(e)
  BY <1>1, DraftOK
<1>3. e[Handler] = [text |-> 1, crlf |-> FALSE]
  BY DEF Draft, Put
<1> HIDE DEF e
<1>4. SourceOK(d) /\ Verify(d)
  BY <1>1, <1>2, SignedVerifies
<1>5. d[ModuleJson] = m /\ d[Handler] = e[Handler]
  BY <1>2 DEF Signed, Put, SourceOK, Has
<1> HIDE DEF d
<1>6. Unpacked(Listing(d)) = d
  BY <1>1, <1>3, <1>4, <1>5, ListedVerifies
<1>7. BundleOK(Listing(d))
  <2> DEFINE b == Listing(d)
  <2>1. /\ b.manifest = m /\ b.handler_py = AsText(d[Handler]) /\ b.sig = d[Sig]
        /\ b.files = Tree(d)
    BY <1>1, <1>5 DEF Listing, Bundle
  <2>2. d[Handler] \in Handlers /\ ~d[Handler].crlf
    BY <1>3, <1>4, <1>5 DEF SourceOK
  <2>3. AsText(d[Handler]) = d[Handler]
    BY <2>2, HandlerFacts
  <2>4. Has(d, Sig) /\ d[Sig] = SignWith(m.key, m, d[Handler], Tree(d))
    BY <1>4, <1>5 DEF Verify
  <2>5. SourceOK(Tree(d)) /\ ~Has(Tree(d), Sig) /\ Tree(d)[ModuleJson] = d[ModuleJson]
    BY <1>4, TreeOfSource DEF Has, SourceOK
  <2> HIDE DEF b
  <2>6. BundleOK(b)
    BY <1>1, <1>5, <2>1, <2>2, <2>3, <2>4, <2>5 DEF BundleOK
  <2> QED
    BY <2>6 DEF b
<1>8. Foreign(rest) = Listing(d)
  BY <1>0, <1>5 DEF Listing, d
<1> QED
  BY <1>4, <1>6, <1>7, <1>8

LEMMA StationPut ==
  ASSUME NEW d, StationOK(d),
         NEW p \in {Ignore, Venv, Handler, ModuleJson, Sig, Sibling}, NEW content,
         p = ModuleJson => content \in Manifests \cup {Empty[ModuleJson]},
         p = Handler => content \in Handlers \cup {Empty[Handler]},
         p = Sibling => content \in 1 .. 2
  PROVE  /\ StationOK(Put(d, p, content))
         /\ DOMAIN Put(d, p, content) = DOMAIN d \cup {p}
         /\ Put(d, p, content)[p] = content
         /\ \A q \in DOMAIN d : q # p => Put(d, p, content)[q] = d[q]
<1> DEFINE e == Put(d, p, content)
<1>1. /\ IsDir(e) /\ DOMAIN e = DOMAIN d \cup {p} /\ e[p] = content
      /\ \A q \in DOMAIN d : q # p => e[q] = d[q]
  BY DEF Put, IsDir
<1> HIDE DEF e
<1>2. StationOK(e)
  BY <1>1 DEF StationOK, Has
<1> QED
  BY <1>1, <1>2 DEF e

LEMMA StationWithout ==
  ASSUME NEW d, StationOK(d), NEW ps
  PROVE  /\ StationOK(Without(d, ps))
         /\ DOMAIN Without(d, ps) = DOMAIN d \ ps
         /\ \A q \in DOMAIN d \ ps : Without(d, ps)[q] = d[q]
<1> DEFINE e == Without(d, ps)
<1>1. /\ IsDir(e) /\ DOMAIN e = DOMAIN d \ ps
      /\ \A q \in DOMAIN d \ ps : e[q] = d[q]
  BY WithoutFacts
<1> HIDE DEF e
<1>2. StationOK(e)
  BY <1>1 DEF StationOK, Has
<1> QED
  BY <1>1, <1>2 DEF e

LEMMA StationEmpty == StationOK(NoFiles) /\ DOMAIN NoFiles = {}
  BY NoFilesFacts DEF StationOK, Has

\* The files of an archive, and a whole module, are such as a station holds.
LEMMA StationOfSource ==
  ASSUME NEW d, SourceOK(d)
  PROVE  StationOK(d) /\ ~Has(d, Venv)
  BY DEF StationOK, SourceOK, Has

LEMMA InstallInitHolds == InstallInit => InstallInv
<1> SUFFICES ASSUME InstallInit PROVE InstallInv
  OBVIOUS
<1>1. IsDir(Ignoring) /\ DOMAIN Ignoring = {Ignore}
  BY RestFacts
<1>2. /\ IsDir(Put(NoFiles, Sibling, 2)) /\ DOMAIN Put(NoFiles, Sibling, 2) = {Sibling}
      /\ Put(NoFiles, Sibling, 2)[Sibling] = 2
  BY RestFacts
<1>3. StationOK(Installed(Ignoring))
  <2> DEFINE f == Foreign(Ignoring)
             u == Unpacked(f)
  <2>1. BundleOK(f) /\ Verify(u)
    BY <1>1, ForeignOK DEF Has
  <2>2. /\ IsDir(u) /\ DOMAIN u = DOMAIN f.files \cup {ModuleJson, Handler, Sig}
        /\ u[ModuleJson] = f.manifest /\ u[Handler] = f.handler_py
        /\ \A p \in DOMAIN f.files : p \notin {ModuleJson, Handler, Sig} => u[p] = f.files[p]
    BY UnpackedFacts
  <2> HIDE DEF f
  <2>3. f.manifest \in Manifests /\ f.handler_py \in Handlers
    BY <2>1 DEF BundleOK
  <2>6. f.manifest.version \in 1 .. 2
    BY <2>3, ManifestFacts
  <2>7. f.files = NoFiles \/ SourceOK(f.files)
    BY <2>1, <2>6 DEF BundleOK
  <2> HIDE DEF u
  <2>4. StationOK(u)
    BY <2>2, <2>3, <2>7, NoFilesFacts DEF StationOK, SourceOK, Has
  <2>5. StationOK(Put(u, Venv, TRUE))
    BY <2>4, StationPut
  <2> QED
    BY <2>5 DEF Installed, f, u
<1>4. Shelves
  <2>1. /\ DOMAIN disk = {"work", "temp", "station"} /\ disk["work"] \in Drafts
        /\ disk["temp"] = NoFiles
        /\ disk["station"] \in {NoFiles, Installed(Ignoring)}
        /\ budget = [edits |-> MaxEdits, stops |-> MaxStops, commands |-> MaxCommands]
    BY DEF InstallInit
  <2>2. budget \in [{"edits", "stops", "commands"} -> Nat]
    BY <2>1, InstallAssumption
  <2> QED
    BY <1>3, <2>1, <2>2, DraftsOK, StationEmpty DEF Shelves
<1>5. ListedOK
  <2> DEFINE f == Foreign(Put(NoFiles, Sibling, 2))
  <2>1. BundleOK(f) /\ Good(f)
    BY <1>2, ForeignOK DEF Good
  <2>2. listed \in {Absent, f}
    BY DEF InstallInit
  <2> QED
    BY <2>1, <2>2 DEF ListedOK
<1>6. PubOK
  <2>1. /\ pub = NoPub /\ signer = NoSigner
        /\ disk["work"] \in Drafts /\ disk["temp"] = NoFiles
    BY DEF InstallInit
  <2>2. ReadOK
    BY <2>1, NoPubFields DEF ReadOK, Reading
  <2>3. SignerOK
    BY <2>1, NoSignerFields DEF SignerOK, Signing
  <2>4. ~Has(disk["temp"], Sig)
    BY <2>1, NoFilesFacts DEF Has
  <2>5. Signatures
    BY <2>1, <2>4, DraftsOK DEF Signatures
  <2> QED
    BY <2>2, <2>3, <2>5 DEF PubOK
<1>7. InstOK
  <2>1. inst = NoInst
    BY DEF InstallInit
  <2>2. /\ DOMAIN inst = InstFields /\ inst.at = Idle /\ inst.bundle = Absent
        /\ inst.nth = 1 /\ inst.stash = FALSE
    BY <2>1, NoInstFields
  <2>3. inst.stash \in BOOLEAN
    BY <2>2
  <2>4. inst.at \in {Idle, "wipe", "restore", "extract", "open", "write", "copy"}
    BY <2>2
  <2>5. inst.nth \in 1 .. 3
    BY <2>2
  <2>6. ~inst.stash
    BY <2>2
  <2> QED
    BY <2>2, <2>3, <2>4, <2>5, <2>6 DEF InstOK
<1>8. VenvOK
  BY DEF InstallInit, VenvOK, VenvKept, Station
<1> QED
  BY <1>4, <1>5, <1>6, <1>7, <1>8 DEF InstallInv

----------------------------------------------------------------------------
(* What a step of one command leaves of the invariant of the other.         *)

LEMMA SpendKeeps ==
  ASSUME InstallInv, NEW what \in {"edits", "stops", "commands"}, Spend(what)
  PROVE  budget' \in [{"edits", "stops", "commands"} -> Nat]
<1>1. budget \in [{"edits", "stops", "commands"} -> Nat]
  BY DEF InstallInv, Shelves
<1>2. /\ budget[what] \in Nat /\ budget[what] > 0
      /\ budget' = [budget EXCEPT ![what] = budget[what] - 1]
  BY <1>1 DEF Spend
<1>3. budget[what] - 1 \in Nat
  BY <1>2
<1> QED
  BY <1>1, <1>2, <1>3

LEMMA InstFrame ==
  ASSUME InstOK,
         DOMAIN inst' = InstFields, inst'.at = inst.at, inst'.bundle = inst.bundle,
         inst'.todo = inst.todo, inst'.nth = inst.nth, inst'.stash = inst.stash,
         inst'.source = inst.source,
         inst'.sound => inst.sound /\ (inst.at = Idle \/ disk'["work"] = disk["work"]),
         disk'["station"] = disk["station"]
  PROVE  InstOK'
<1>1. Cargo' = Cargo /\ Station' = Station
  BY DEF Cargo, Station
<1>2. inst'.sound /\ inst.at # Idle => Laid'
  <2> SUFFICES ASSUME inst'.sound, inst.at # Idle PROVE Laid'
    OBVIOUS
  <2>1. Laid
    BY DEF InstOK
  <2> QED
    BY <1>1, <2>1 DEF Laid
<1> QED
  BY <1>1, <1>2 DEF InstOK

LEMMA VenvFrame ==
  ASSUME VenvOK, venv' = venv, disk'["station"] = disk["station"], inst'.stash = inst.stash
  PROVE  VenvOK'
  BY DEF VenvOK, VenvKept, Station

LEMMA ReadFrame ==
  ASSUME InstallInv, pub' = pub, listed' = listed, whole' = whole,
         disk'["work"] = disk["work"], disk'["temp"] = disk["temp"]
  PROVE  ReadOK' /\ Signatures' /\ ListedOK'
<1>1. disk'[pub.place] = disk[pub.place]
  BY DEF InstallInv, PubOK, ReadOK
<1>2. Posted' = Posted
  BY DEF Posted
<1>3. ReadOK'
  BY <1>1, <1>2 DEF InstallInv, PubOK, ReadOK
<1> QED
  BY <1>3 DEF InstallInv, PubOK, Signatures, ListedOK

LEMMA SignerFrame ==
  ASSUME InstallInv, signer' = signer, disk'["work"] = disk["work"]
  PROVE  SignerOK'
  BY DEF InstallInv, PubOK, SignerOK

LEMMA PubFrame ==
  ASSUME InstallInv, pub' = pub, signer' = signer, listed' = listed, whole' = whole,
         disk'["work"] = disk["work"], disk'["temp"] = disk["temp"]
  PROVE  PubOK' /\ ListedOK'
  BY ReadFrame, SignerFrame DEF PubOK

\* A publisher command reads or it stops.
LEMMA PublisherReads ==
  ASSUME InstallInv, UNCHANGED <<disk, inst, venv>>,
         budget' \in [{"edits", "stops", "commands"} -> Nat]
  PROVE  Shelves' /\ InstOK' /\ VenvOK' /\ Signatures'
<1>1. Shelves' /\ Signatures'
  BY DEF InstallInv, Shelves, PubOK, Signatures
<1>2. InstOK'
  BY InstFrame DEF InstallInv, InstOK
<1>3. VenvOK'
  BY VenvFrame DEF InstallInv
<1> QED
  BY <1>1, <1>2, <1>3

LEMMA PubUpdates ==
  ASSUME NEW p, DOMAIN p = PubFields, NEW x, NEW y
  PROVE  /\ DOMAIN [p EXCEPT !.at = x, !.handler = y] = PubFields
         /\ [p EXCEPT !.at = x, !.handler = y].at = x
         /\ [p EXCEPT !.at = x, !.handler = y].handler = y
         /\ [p EXCEPT !.at = x, !.handler = y].place = p.place
         /\ [p EXCEPT !.at = x, !.handler = y].manifest = p.manifest
         /\ [p EXCEPT !.at = x, !.handler = y].whole = p.whole
         /\ DOMAIN [p EXCEPT !.at = x, !.sig = y] = PubFields
         /\ [p EXCEPT !.at = x, !.sig = y].at = x
         /\ [p EXCEPT !.at = x, !.sig = y].sig = y
         /\ [p EXCEPT !.at = x, !.sig = y].place = p.place
         /\ [p EXCEPT !.at = x, !.sig = y].manifest = p.manifest
         /\ [p EXCEPT !.at = x, !.sig = y].handler = p.handler
         /\ [p EXCEPT !.at = x, !.sig = y].tree = p.tree
         /\ [p EXCEPT !.at = x, !.sig = y].whole = p.whole
         /\ DOMAIN [p EXCEPT !.at = x, !.tree = y] = PubFields
         /\ [p EXCEPT !.at = x, !.tree = y].at = x
         /\ [p EXCEPT !.at = x, !.tree = y].tree = y
         /\ [p EXCEPT !.at = x, !.tree = y].place = p.place
         /\ [p EXCEPT !.at = x, !.tree = y].manifest = p.manifest
         /\ [p EXCEPT !.at = x, !.tree = y].handler = p.handler
         /\ [p EXCEPT !.at = x, !.tree = y].sig = p.sig
         /\ [p EXCEPT !.at = x, !.tree = y].whole = p.whole
         /\ DOMAIN [p EXCEPT !.whole = x] = PubFields
         /\ [p EXCEPT !.whole = x].at = p.at
         /\ [p EXCEPT !.whole = x].tree = p.tree
         /\ [p EXCEPT !.whole = x].place = p.place
         /\ [p EXCEPT !.whole = x].manifest = p.manifest
         /\ [p EXCEPT !.whole = x].handler = p.handler
         /\ [p EXCEPT !.whole = x].sig = p.sig
         /\ [p EXCEPT !.whole = x].whole = x
  BY Zenon DEF PubFields

LEMMA StartFields ==
  ASSUME NEW x, NEW y, NEW z, NEW w
  PROVE  /\ LET p == [NoPub EXCEPT !.at = x, !.place = y, !.manifest = z, !.whole = w]
            IN  /\ DOMAIN p = PubFields /\ p.at = x /\ p.place = y /\ p.manifest = z
                /\ p.whole = w
         /\ LET p == [NoPub EXCEPT !.at = x, !.place = y]
            IN  DOMAIN p = PubFields /\ p.at = x /\ p.place = y
  BY Zenon, NoPubFields DEF PubFields

LEMMA SignerUpdates ==
  ASSUME DOMAIN signer = SignerFields, NEW x, NEW y
  PROVE  /\ DOMAIN [signer EXCEPT !.at = x] = SignerFields
         /\ [signer EXCEPT !.at = x].at = x
         /\ [signer EXCEPT !.at = x].manifest = signer.manifest
         /\ [signer EXCEPT !.at = x].sig = signer.sig
         /\ DOMAIN [signer EXCEPT !.at = x, !.sig = y] = SignerFields
         /\ [signer EXCEPT !.at = x, !.sig = y].at = x
         /\ [signer EXCEPT !.at = x, !.sig = y].manifest = signer.manifest
         /\ [signer EXCEPT !.at = x, !.sig = y].sig = y
  BY Zenon DEF SignerFields

\* The publisher's directory is written to.
LEMMA Writing ==
  ASSUME InstallInv, NEW d, SourceOK(d), Changes(d),
         Has(d, Sig) => SigOK(d[Sig]), Has(disk["work"], Sig) => Has(d, Sig),
         UNCHANGED <<listed, whole, venv>>,
         budget' \in [{"edits", "stops", "commands"} -> Nat]
  PROVE  /\ Shelves' /\ ListedOK' /\ ReadOK' /\ Signatures' /\ InstOK' /\ VenvOK'
         /\ disk'["work"] = d
<1>1. DOMAIN disk = {"work", "temp", "station"} /\ disk' = [disk EXCEPT !["work"] = d]
  BY DEF InstallInv, Shelves, Changes
<1>2. /\ DOMAIN disk' = {"work", "temp", "station"} /\ disk'["work"] = d
      /\ disk'["temp"] = disk["temp"] /\ disk'["station"] = disk["station"]
  BY <1>1
<1>3. Shelves'
  BY <1>2 DEF InstallInv, Shelves
<1>4. Signatures'
  BY <1>2 DEF InstallInv, PubOK, Signatures
<1>5. ListedOK'
  BY DEF InstallInv, ListedOK
<1> DEFINE sound == inst.sound /\ inst.at = Idle
<1>6. DOMAIN inst = InstFields /\ inst' = [inst EXCEPT !.sound = sound]
  BY DEF InstallInv, InstOK, Changes
<1>7. /\ DOMAIN inst' = InstFields /\ inst'.at = inst.at /\ inst'.bundle = inst.bundle
      /\ inst'.todo = inst.todo /\ inst'.nth = inst.nth /\ inst'.stash = inst.stash
      /\ inst'.source = inst.source /\ inst'.sound = sound
  BY <1>6, Zenon DEF InstFields
<1>8. InstOK'
  BY <1>2, <1>7, InstFrame DEF InstallInv
<1>9. VenvOK'
  BY <1>2, <1>7, VenvFrame DEF InstallInv
<1> DEFINE still == pub.whole /\ (pub.place # "work" \/ pub.at = "publish_post")
<1>10. ReadOK /\ DOMAIN pub = PubFields /\ pub' = [pub EXCEPT !.whole = still]
  BY DEF InstallInv, PubOK, ReadOK, Changes
<1>11. /\ DOMAIN pub' = PubFields /\ pub'.at = pub.at /\ pub'.place = pub.place
       /\ pub'.manifest = pub.manifest /\ pub'.handler = pub.handler /\ pub'.sig = pub.sig
       /\ pub'.tree = pub.tree /\ pub'.whole = still
  BY <1>10, PubUpdates
<1>12. Posted' = Posted
  BY <1>11 DEF Posted
<1>13. ReadOK'
  <2>1. CASE pub.place = "work" /\ pub.at # "publish_post"
    <3>1. ~pub'.whole
      BY <1>11, <2>1
    <3>2. SourceOK(disk'[pub'.place]) /\ (pub.at \in Reading => Has(disk'[pub'.place], Sig))
      BY <1>2, <1>10, <1>11, <2>1 DEF ReadOK
    <3> HIDE DEF still
    <3> QED
      BY <1>10, <1>11, <2>1, <3>1, <3>2 DEF ReadOK
  <2>2. CASE pub.at = "publish_post"
    <3>1. pub'.whole => pub.whole
      BY <1>11
    <3>2. SourceOK(disk'[pub'.place])
      BY <1>2, <1>10, <1>11, <2>2 DEF ReadOK, Idle
    <3> HIDE DEF still
    <3> QED
      BY <1>10, <1>11, <1>12, <2>2, <3>1, <3>2 DEF ReadOK, Reading
  <2>3. CASE pub.place = "temp" /\ pub.at # "publish_post"
    <3>1. pub'.whole => pub.whole
      BY <1>11
    <3>2. disk'[pub'.place] = disk[pub.place]
      BY <1>2, <1>11, <2>3
    <3> HIDE DEF still
    <3> QED
      BY <1>10, <1>11, <2>3, <3>1, <3>2 DEF ReadOK
  <2> QED
    BY <1>10, <2>1, <2>2, <2>3 DEF ReadOK
<1> QED
  BY <1>2, <1>3, <1>4, <1>5, <1>8, <1>9, <1>13

----------------------------------------------------------------------------
(* The author, and market module sign.                                      *)

LEMMA EditKeeps == ASSUME InstallInv, Edit PROVE InstallInv'
<1> DEFINE w == disk["work"]
<1>1. SourceOK(w) /\ (Has(w, Sig) => SigOK(w[Sig]))
  BY DEF InstallInv, Shelves, PubOK, Signatures
<1>2. PICK d : /\ SourceOK(d) /\ d[ModuleJson] = w[ModuleJson] /\ Changes(d)
               /\ Has(d, Sig) <=> Has(w, Sig)
               /\ Has(w, Sig) => d[Sig] = w[Sig]
  <2> DEFINE Edited(d) == /\ SourceOK(d) /\ d[ModuleJson] = w[ModuleJson] /\ Changes(d)
                          /\ Has(d, Sig) <=> Has(w, Sig)
                          /\ Has(w, Sig) => d[Sig] = w[Sig]
  <2>1. ASSUME NEW p \in {Handler, Sibling}, NEW content, SourceOK(Put(w, p, content)),
               Write(p, content)
        PROVE  \E d : Edited(d)
    <3> DEFINE d == Put(w, p, content)
    <3>1. DOMAIN d = DOMAIN w \cup {p} /\ \A q \in DOMAIN w : q # p => d[q] = w[q]
      BY DEF Put
    <3>2. p # ModuleJson /\ p # Sig /\ Has(w, ModuleJson)
      BY <1>1 DEF SourceOK, Handler, Sibling, ModuleJson, Sig
    <3>3. Changes(d)
      BY <2>1 DEF Write
    <3>4. SourceOK(d)
      BY <2>1
    <3> HIDE DEF d
    <3> QED
      BY <3>1, <3>2, <3>3, <3>4 DEF Has
  <2>2. CASE Write(Handler, [w[Handler] EXCEPT !.text = 3 - @])
    <3>1. [w[Handler] EXCEPT !.text = 3 - @] \in Handlers
      BY <1>1, HandlerFacts DEF SourceOK
    <3>2. SourceOK(Put(w, Handler, [w[Handler] EXCEPT !.text = 3 - @]))
      BY <1>1, <3>1, SourcePut
    <3> QED
      BY <2>1, <2>2, <3>2
  <2>3. CASE Write(Sibling, IF Has(w, Sibling) THEN 3 - w[Sibling] ELSE 1)
    <3> DEFINE n == IF Has(w, Sibling) THEN 3 - w[Sibling] ELSE 1
    <3>1. n \in 1 .. 2
      BY <1>1 DEF SourceOK
    <3> HIDE DEF n
    <3>2. SourceOK(Put(w, Sibling, n))
      BY <1>1, <3>1, SourcePut
    <3> QED
      BY <2>1, <2>3, <3>2 DEF n
  <2>4. CASE Changes(Without(w, {Sibling}))
    <3> DEFINE d == Without(w, {Sibling})
    <3>1. /\ IsDir(d) /\ DOMAIN d = DOMAIN w \ {Sibling}
          /\ \A q \in DOMAIN w \ {Sibling} : d[q] = w[q]
      BY WithoutFacts
    <3> HIDE DEF d
    <3>2. SourceOK(d) /\ d[ModuleJson] = w[ModuleJson]
      BY <1>1, <3>1 DEF SourceOK, Has
    <3>3. (Has(d, Sig) <=> Has(w, Sig)) /\ (Has(w, Sig) => d[Sig] = w[Sig])
      BY <3>1 DEF Has, Sig, Sibling
    <3> QED
      BY <2>4, <3>2, <3>3 DEF d
  <2> QED
    BY <2>2, <2>3, <2>4 DEF Edit
<1>3. budget' \in [{"edits", "stops", "commands"} -> Nat]
  BY SpendKeeps DEF Edit
<1>4. UNCHANGED <<listed, signer, whole, venv>>
  BY DEF Edit
<1>5. Has(d, Sig) => SigOK(d[Sig])
  BY <1>1, <1>2
<1>6. /\ Shelves' /\ ListedOK' /\ ReadOK' /\ Signatures' /\ InstOK' /\ VenvOK'
      /\ disk'["work"] = d
  BY <1>2, <1>3, <1>4, <1>5, Writing
<1>7. SignerOK'
  BY <1>2, <1>4, <1>6 DEF InstallInv, PubOK, SignerOK
<1> QED
  BY <1>6, <1>7 DEF InstallInv, PubOK

\* A signing command that has read, of a directory that stays as it is.
LEMMA SignKeeps == ASSUME InstallInv, Sign PROVE InstallInv'
<1> DEFINE d == disk["work"]
           promoted == [d[ModuleJson] EXCEPT !.version = IF IsMultifile(d) THEN 2 ELSE @,
                                             !.key = "mine"]
<1>1. /\ Reads(d) /\ UNCHANGED <<disk, listed, pub, inst, whole, venv>>
      /\ signer' = [at |-> "sign_manifest", manifest |-> promoted,
                    handler |-> d[Handler], sig |-> Absent]
  BY DEF Sign, SignReads
<1>2. promoted \in Manifests
  <2>1. d[ModuleJson] \in Manifests
    BY <1>1, EmptyFiles DEF InstallInv, Shelves, SourceOK, Reads
  <2> DEFINE m == d[ModuleJson]
             v == IF IsMultifile(d) THEN 2 ELSE m.version
             n == [m EXCEPT !.version = v]
  <2>2. v \in 1 .. 2
    BY <2>1 DEF Manifests
  <2> HIDE DEF v
  <2>3. n \in Manifests
    BY <2>1, <2>2 DEF Manifests
  <2> HIDE DEF n
  <2>4. [n EXCEPT !.key = "mine"] \in Manifests
    BY <2>3 DEF Manifests, Keys
  <2>5. promoted = [n EXCEPT !.key = "mine"]
    BY Zenon DEF v, n
  <2> QED
    BY <2>4, <2>5, Zenon
<1> HIDE DEF promoted
<1>3. budget' \in [{"edits", "stops", "commands"} -> Nat]
  BY SpendKeeps DEF Sign
<1>4. Shelves' /\ InstOK' /\ VenvOK' /\ Signatures'
  BY <1>1, <1>3, PublisherReads
<1>5. ReadOK' /\ ListedOK'
  BY <1>1, ReadFrame
<1>6. SignerOK'
  BY <1>1, <1>2 DEF SignerOK, SignerFields, Signing
<1> QED
  BY <1>4, <1>5, <1>6 DEF InstallInv, PubOK

LEMMA SigningFacts ==
  ASSUME InstallInv, signer.at \in Signing
  PROVE  /\ DOMAIN signer = SignerFields /\ signer.manifest \in Manifests
         /\ SourceOK(disk["work"])
         /\ Has(disk["work"], Sig) => SigOK(disk["work"][Sig])
         /\ budget \in [{"edits", "stops", "commands"} -> Nat]
  BY DEF InstallInv, PubOK, SignerOK, Signatures, Shelves

\* A write of the manifest, and one of the signature.
LEMMA SignWritesTo ==
  ASSUME InstallInv, signer.at \in Signing, NEW p \in {ModuleJson, Sig}, NEW content,
         p = ModuleJson => content \in Manifests \cup {Empty[ModuleJson]},
         p = Sig => SigOK(content),
         Write(p, content), UNCHANGED <<listed, budget, whole, venv>>
  PROVE  /\ Shelves' /\ ListedOK' /\ ReadOK' /\ Signatures' /\ InstOK' /\ VenvOK'
         /\ disk'["work"][p] = content
         /\ p = Sig => disk'["work"][ModuleJson] = disk["work"][ModuleJson]
<1> DEFINE w == disk["work"]
           d == Put(w, p, content)
<1>1. /\ SourceOK(w) /\ (Has(w, Sig) => SigOK(w[Sig]))
      /\ budget' \in [{"edits", "stops", "commands"} -> Nat]
  BY SigningFacts
<1>2. SourceOK(d)
  BY <1>1, SourcePut
<1>3. Changes(d)
  BY DEF Write
<1>4. /\ DOMAIN d = DOMAIN w \cup {p} /\ d[p] = content
      /\ \A q \in DOMAIN w : q # p => d[q] = w[q]
  BY DEF Put
<1> HIDE DEF d, w
<1>5. ModuleJson # Sig
  BY DEF ModuleJson, Sig
<1>6. Has(d, Sig) => SigOK(d[Sig])
  BY <1>1, <1>4, <1>5 DEF Has
<1>7. Has(w, Sig) => Has(d, Sig)
  BY <1>4 DEF Has
<1>8. p = Sig => d[ModuleJson] = w[ModuleJson]
  BY <1>1, <1>4, <1>5 DEF SourceOK, Has
<1>9. /\ Shelves' /\ ListedOK' /\ ReadOK' /\ Signatures' /\ InstOK' /\ VenvOK'
      /\ disk'["work"] = d
  BY <1>1, <1>2, <1>3, <1>6, <1>7, Writing DEF w
<1> QED
  BY <1>4, <1>8, <1>9 DEF w

LEMMA SignOpensManifestKeeps == ASSUME InstallInv, SignOpensManifest PROVE InstallInv'
<1>1. /\ signer.at = "sign_manifest" /\ signer' = [signer EXCEPT !.at = "sign_write"]
      /\ Write(ModuleJson, Empty[ModuleJson]) /\ UNCHANGED <<listed, budget, whole, venv>>
  BY DEF SignOpensManifest, SignGoesOn
<1>2. DOMAIN signer = SignerFields /\ signer.manifest \in Manifests /\ signer.at \in Signing
  BY <1>1, SigningFacts DEF Signing
<1>3. Shelves' /\ ListedOK' /\ ReadOK' /\ Signatures' /\ InstOK' /\ VenvOK'
  BY <1>1, <1>2, SignWritesTo DEF ModuleJson, Sig
<1>4. DOMAIN signer' = SignerFields /\ signer'.at = "sign_write" /\ signer'.manifest = signer.manifest
  BY <1>1, <1>2, SignerUpdates
<1>5. SignerOK'
  BY <1>2, <1>4 DEF SignerOK
<1> QED
  BY <1>3, <1>5 DEF InstallInv, PubOK

LEMMA SignWritesManifestKeeps == ASSUME InstallInv, SignWritesManifest PROVE InstallInv'
<1>1. /\ signer.at = "sign_write" /\ signer' = [signer EXCEPT !.at = "sign_walk"]
      /\ Write(ModuleJson, signer.manifest) /\ UNCHANGED <<listed, budget, whole, venv>>
  BY DEF SignWritesManifest, SignGoesOn
<1>2. DOMAIN signer = SignerFields /\ signer.manifest \in Manifests /\ signer.at \in Signing
  BY <1>1, SigningFacts DEF Signing
<1>3. /\ Shelves' /\ ListedOK' /\ ReadOK' /\ Signatures' /\ InstOK' /\ VenvOK'
      /\ disk'["work"][ModuleJson] = signer.manifest
  BY <1>1, <1>2, SignWritesTo DEF ModuleJson, Sig
<1>4. DOMAIN signer' = SignerFields /\ signer'.at = "sign_walk" /\ signer'.manifest = signer.manifest
  BY <1>1, <1>2, SignerUpdates
<1>5. SignerOK'
  BY <1>2, <1>3, <1>4 DEF SignerOK
<1> QED
  BY <1>3, <1>5 DEF InstallInv, PubOK

LEMMA SignWalksKeeps == ASSUME InstallInv, SignWalks PROVE InstallInv'
<1> DEFINE tree == Tree(disk["work"])
           sig == SignWith("mine", signer.manifest, signer.handler, tree)
<1>1. /\ signer.at = "sign_walk" /\ UNCHANGED <<disk, listed, pub, inst, budget, whole, venv>>
      /\ signer' = [signer EXCEPT !.at = "sign_open", !.sig = sig]
  BY DEF SignWalks
<1>2. /\ DOMAIN signer = SignerFields /\ signer.manifest \in Manifests /\ SourceOK(disk["work"])
      /\ budget \in [{"edits", "stops", "commands"} -> Nat]
  BY <1>1, SigningFacts DEF Signing
<1>3. tree[ModuleJson] = signer.manifest
  <2>1. ModuleJson \in DOMAIN disk["work"] \ {Sig}
    BY <1>2 DEF SourceOK, Has, ModuleJson, Sig
  <2>2. tree[ModuleJson] = disk["work"][ModuleJson]
    BY <1>2, <2>1, TreeOfSource
  <2> QED
    BY <1>1, <2>2 DEF InstallInv, PubOK, SignerOK
<1>4. SigOK(sig)
  BY <1>3, SignatureOK
<1> HIDE DEF sig
<1>5. /\ DOMAIN signer' = SignerFields /\ signer'.at = "sign_open"
      /\ signer'.manifest = signer.manifest /\ signer'.sig = sig
  BY <1>1, <1>2, SignerUpdates
<1>6. SignerOK'
  BY <1>2, <1>4, <1>5 DEF SignerOK
<1>7. Shelves' /\ InstOK' /\ VenvOK' /\ Signatures'
  BY <1>1, <1>2, PublisherReads
<1>8. ReadOK' /\ ListedOK'
  BY <1>1, ReadFrame
<1> QED
  BY <1>6, <1>7, <1>8 DEF InstallInv, PubOK

LEMMA SignOpensSigKeeps == ASSUME InstallInv, SignOpensSig PROVE InstallInv'
<1>1. /\ signer.at = "sign_open" /\ signer' = [signer EXCEPT !.at = "sign_sig"]
      /\ Write(Sig, Empty[Sig]) /\ UNCHANGED <<listed, budget, whole, venv>>
  BY DEF SignOpensSig, SignGoesOn
<1>2. /\ DOMAIN signer = SignerFields /\ signer.manifest \in Manifests /\ signer.at \in Signing
      /\ SigOK(signer.sig)
  BY <1>1, SigningFacts DEF Signing, InstallInv, PubOK, SignerOK
<1>3. Shelves' /\ ListedOK' /\ ReadOK' /\ Signatures' /\ InstOK' /\ VenvOK'
  BY <1>1, <1>2, SignWritesTo, EmptySigOK DEF ModuleJson, Sig
<1>4. /\ DOMAIN signer' = SignerFields /\ signer'.at = "sign_sig"
      /\ signer'.manifest = signer.manifest /\ signer'.sig = signer.sig
  BY <1>1, <1>2, SignerUpdates
<1>5. SignerOK'
  BY <1>2, <1>4 DEF SignerOK
<1> QED
  BY <1>3, <1>5 DEF InstallInv, PubOK

LEMMA SignerEnds == ASSUME signer' = NoSigner PROVE SignerOK'
  BY NoSignerFields DEF SignerOK, Signing, Idle

LEMMA SignWritesSigKeeps == ASSUME InstallInv, SignWritesSig PROVE InstallInv'
<1>1. /\ signer.at = "sign_sig" /\ signer' = NoSigner
      /\ Write(Sig, signer.sig) /\ UNCHANGED <<listed, budget, whole, venv>>
  BY DEF SignWritesSig
<1>2. signer.at \in Signing /\ SigOK(signer.sig)
  BY <1>1 DEF Signing, InstallInv, PubOK, SignerOK
<1>3. Shelves' /\ ListedOK' /\ ReadOK' /\ Signatures' /\ InstOK' /\ VenvOK'
  BY <1>1, <1>2, SignWritesTo DEF ModuleJson, Sig
<1> QED
  BY <1>1, <1>3, SignerEnds DEF InstallInv, PubOK

LEMMA SignerStopsKeeps == ASSUME InstallInv, SignerStops PROVE InstallInv'
<1>1. signer' = NoSigner /\ UNCHANGED <<disk, listed, pub, inst, whole, venv>>
  BY DEF SignerStops
<1>2. budget' \in [{"edits", "stops", "commands"} -> Nat]
  BY SpendKeeps DEF SignerStops
<1>3. Shelves' /\ InstOK' /\ VenvOK' /\ Signatures'
  BY <1>1, <1>2, PublisherReads
<1>4. ReadOK' /\ ListedOK'
  BY <1>1, ReadFrame
<1> QED
  BY <1>1, <1>3, <1>4, SignerEnds DEF InstallInv, PubOK

----------------------------------------------------------------------------
(* market publish, and accept-transfer.                                     *)

\* A step of the publisher that leaves the directories alone.
LEMMA Publishing ==
  ASSUME InstallInv, ReadOK', UNCHANGED <<disk, signer, inst, venv>>, ListedOK',
         budget' \in [{"edits", "stops", "commands"} -> Nat]
  PROVE  InstallInv'
<1>1. Shelves' /\ InstOK' /\ VenvOK' /\ Signatures'
  BY PublisherReads
<1>2. SignerOK'
  BY SignerFrame
<1> QED
  BY <1>1, <1>2 DEF InstallInv, PubOK

LEMMA PublisherEnds == ASSUME pub' = NoPub PROVE ReadOK'
  BY NoPubFields DEF ReadOK, Reading, Idle

LEMMA ListedStays == ASSUME InstallInv, UNCHANGED <<listed, whole>> PROVE ListedOK'
  BY DEF InstallInv, ListedOK

LEMMA PublishKeeps == ASSUME InstallInv, Publish \/ PublishAccepted PROVE InstallInv'
<1>1. PICK place \in {"work", "temp"} : SourceOK(disk[place]) /\ PublishReads(place)
  <2>1. CASE Publish
    BY <2>1 DEF Publish, InstallInv, Shelves
  <2>2. CASE PublishAccepted
    BY <2>2 DEF PublishAccepted, InstallInv, PubOK, ReadOK, Idle
  <2> QED
    BY <2>1, <2>2
<1>2. UNCHANGED <<disk, listed, signer, inst, whole, venv>>
  BY DEF Publish, PublishAccepted
<1>3. budget' \in [{"edits", "stops", "commands"} -> Nat]
  BY SpendKeeps DEF Publish, PublishAccepted, InstallInv, Shelves
<1> DEFINE d == disk[place]
<1>4. /\ Reads(d) /\ Has(d, Sig)
      /\ pub' = [NoPub EXCEPT !.at = "publish_handler", !.place = place,
                              !.manifest = d[ModuleJson], !.whole = Verify(d)]
  BY <1>1 DEF PublishReads
<1>5. d[ModuleJson] \in Manifests
  BY <1>1, <1>4, EmptyFiles DEF SourceOK, Reads
<1>6. /\ DOMAIN pub' = PubFields /\ pub'.at = "publish_handler" /\ pub'.place = place
      /\ pub'.manifest = d[ModuleJson] /\ pub'.whole = Verify(d)
  BY <1>4, StartFields
<1>7. disk'[place] = d
  BY <1>2
<1> HIDE DEF d
<1>8. ReadOK'
  BY <1>1, <1>4, <1>5, <1>6, <1>7 DEF ReadOK, Reading, d
<1> QED
  BY <1>2, <1>3, <1>8, Publishing, ListedStays

LEMMA ReadingFacts ==
  ASSUME InstallInv, pub.at \in Reading
  PROVE  /\ ReadOK /\ DOMAIN pub = PubFields /\ pub.place \in {"work", "temp"}
         /\ SourceOK(disk[pub.place]) /\ pub.manifest \in Manifests
         /\ Has(disk[pub.place], Sig) /\ SigOK(disk[pub.place][Sig])
         /\ pub.whole => Verify(disk[pub.place]) /\ pub.manifest = disk[pub.place][ModuleJson]
         /\ budget \in [{"edits", "stops", "commands"} -> Nat]
<1>1. ReadOK /\ Signatures
  BY DEF InstallInv, PubOK
<1>2. pub.at # Idle
  BY DEF Reading, Idle
<1> QED
  BY <1>1, <1>2 DEF ReadOK, Signatures, InstallInv, Shelves

LEMMA PublishReadsHandlerKeeps == ASSUME InstallInv, PublishReadsHandler PROVE InstallInv'
<1> DEFINE d == disk[pub.place]
<1>1. /\ pub.at = "publish_handler" /\ UNCHANGED <<disk, listed, signer, inst, budget, whole, venv>>
      /\ pub' = [pub EXCEPT !.at = "publish_sig", !.handler = d[Handler]]
  BY DEF PublishReadsHandler
<1>2. /\ DOMAIN pub = PubFields /\ pub.place \in {"work", "temp"} /\ SourceOK(d)
      /\ pub.manifest \in Manifests /\ Has(d, Sig)
      /\ pub.whole => Verify(d) /\ pub.manifest = d[ModuleJson]
      /\ budget' \in [{"edits", "stops", "commands"} -> Nat]
  BY <1>1, ReadingFacts DEF Reading
<1>3. d[Handler] \in Handlers
  BY <1>2 DEF SourceOK
<1>4. /\ DOMAIN pub' = PubFields /\ pub'.at = "publish_sig" /\ pub'.place = pub.place
      /\ pub'.manifest = pub.manifest /\ pub'.handler = d[Handler] /\ pub'.whole = pub.whole
  BY <1>1, <1>2, PubUpdates
<1>5. disk'[pub'.place] = d
  BY <1>1, <1>4
<1> HIDE DEF d
<1>6. ReadOK'
  BY <1>2, <1>3, <1>4, <1>5 DEF ReadOK, Reading
<1> QED
  BY <1>1, <1>2, <1>6, Publishing, ListedStays

LEMMA PublishReadsSigKeeps == ASSUME InstallInv, PublishReadsSig PROVE InstallInv'
<1> DEFINE d == disk[pub.place]
           m == pub.manifest
           next == IF m.version >= 2 THEN "publish_walk" ELSE "publish_post"
<1>1. /\ pub.at = "publish_sig" /\ UNCHANGED <<disk, listed, signer, inst, budget, whole, venv>>
      /\ pub' = IF m.key = "mine" THEN [pub EXCEPT !.at = next, !.sig = d[Sig]] ELSE NoPub
  BY DEF PublishReadsSig
<1>2. /\ DOMAIN pub = PubFields /\ pub.place \in {"work", "temp"} /\ SourceOK(d)
      /\ m \in Manifests /\ Has(d, Sig) /\ SigOK(d[Sig])
      /\ pub.whole => Verify(d) /\ m = d[ModuleJson]
      /\ budget' \in [{"edits", "stops", "commands"} -> Nat]
  BY <1>1, ReadingFacts DEF Reading
<1>3. pub.handler \in Handlers /\ (pub.whole => pub.handler = d[Handler])
  BY <1>1 DEF InstallInv, PubOK, ReadOK
<1>4. ReadOK'
  <2>1. CASE m.key # "mine"
    BY <1>1, <2>1, PublisherEnds
  <2>2. CASE m.key = "mine"
    <3> HIDE DEF next
    <3>1. /\ DOMAIN pub' = PubFields /\ pub'.at = next /\ pub'.sig = d[Sig]
          /\ pub'.place = pub.place /\ pub'.manifest = m /\ pub'.handler = pub.handler
          /\ pub'.tree = pub.tree /\ pub'.whole = pub.whole
      BY <1>1, <1>2, <2>2, PubUpdates
    <3>2. disk'[pub'.place] = d
      BY <1>1, <3>1
    <3>3. m.version \in 1 .. 2
      BY <1>2, ManifestFacts
    <3>4. CASE m.version >= 2
      <4>1. next = "publish_walk"
        BY <3>4 DEF next
      <4> QED
        BY <1>2, <1>3, <2>2, <3>1, <3>2, <3>4, <4>1 DEF ReadOK, Reading
    <3>5. CASE ~(m.version >= 2)
      <4>1. next = "publish_post"
        BY <3>5 DEF next
      <4> DEFINE b == Posted'
      <4>2. b = Bundle(m, AsText(pub.handler), d[Sig], pub.tree)
        BY <3>1 DEF Posted
      <4>3. /\ b.manifest = m /\ b.handler_py = AsText(pub.handler) /\ b.sig = d[Sig]
            /\ b.files = NoFiles
        BY <3>5, <4>2 DEF Bundle
      <4>4. pub.whole => b = Listing(d)
        BY <1>2, <1>3, <3>5, <4>2 DEF Bundle, Listing
      <4> HIDE DEF b
      <4>5. BundleOK(b)
        BY <1>2, <1>3, <3>5, <4>3, HandlerFacts DEF BundleOK
      <4>6. pub.whole => Good(b)
        BY <1>2, <4>4, ListedVerifies DEF Good
      <4> QED
        BY <1>2, <2>2, <3>1, <3>2, <4>1, <4>5, <4>6 DEF ReadOK, Reading, b
    <3> QED
      BY <3>4, <3>5
  <2> QED
    BY <2>1, <2>2
<1> QED
  BY <1>1, <1>2, <1>4, Publishing, ListedStays

\* The signature over a tree does not depend on the handler read apart from it.
LEMMA TreeSignature ==
  ASSUME NEW k, NEW m, m.version >= 2, NEW h, NEW g, NEW tree
  PROVE  SignWith(k, m, h, tree) = SignWith(k, m, g, tree)
  BY DEF SignWith, SignedBytes

LEMMA PublishWalksKeeps == ASSUME InstallInv, PublishWalks PROVE InstallInv'
<1> DEFINE d == disk[pub.place]
           tree == Tree(d)
<1>1. /\ pub.at = "publish_walk" /\ UNCHANGED <<disk, listed, signer, inst, budget, whole, venv>>
      /\ pub' = IF pub.sig = SignWith("mine", pub.manifest, pub.handler, tree)
                THEN [pub EXCEPT !.at = "publish_post", !.tree = tree]
                ELSE NoPub
  BY DEF PublishWalks
<1>2. /\ DOMAIN pub = PubFields /\ pub.place \in {"work", "temp"} /\ SourceOK(d)
      /\ pub.manifest \in Manifests /\ (pub.whole => Verify(d) /\ pub.manifest = d[ModuleJson])
      /\ budget' \in [{"edits", "stops", "commands"} -> Nat]
  BY <1>1, ReadingFacts DEF Reading
<1>3. /\ pub.manifest.version >= 2 /\ pub.manifest.key = "mine" /\ SigOK(pub.sig)
      /\ pub.handler \in Handlers
      /\ pub.whole => pub.handler = d[Handler] /\ pub.sig = d[Sig]
  BY <1>1 DEF InstallInv, PubOK, ReadOK
<1>4. SourceOK(tree) /\ ~Has(tree, Sig)
  <2>1. SourceOK(tree) /\ DOMAIN tree = DOMAIN d \ {Sig}
    BY <1>2, TreeOfSource
  <2> HIDE DEF tree
  <2> QED
    BY <2>1 DEF Has
<1> HIDE DEF tree
<1>5. ReadOK'
  <2>1. CASE pub.sig = SignWith("mine", pub.manifest, pub.handler, tree)
    <3>1. /\ DOMAIN pub' = PubFields /\ pub'.at = "publish_post" /\ pub'.tree = tree
          /\ pub'.place = pub.place /\ pub'.manifest = pub.manifest
          /\ pub'.handler = pub.handler /\ pub'.sig = pub.sig /\ pub'.whole = pub.whole
      BY <1>1, <1>2, <2>1, PubUpdates
    <3>2. tree[ModuleJson] = pub.manifest
      BY <1>2, <1>3, <2>1 DEF SigOK, Keys
    <3> DEFINE b == Posted'
    <3>3. b = Bundle(pub.manifest, AsText(pub.handler), pub.sig, tree)
      BY <3>1 DEF Posted
    <3>4. /\ b.manifest = pub.manifest /\ b.handler_py = AsText(pub.handler)
          /\ b.sig = pub.sig /\ b.files = tree
      BY <1>3, <3>3 DEF Bundle
    <3>5. pub.whole => b = Listing(d)
      BY <1>2, <1>3, <3>3 DEF Listing, tree
    <3> HIDE DEF b
    <3>6. b.sig = SignWith(b.manifest.key, b.manifest, b.handler_py, b.files)
      BY <1>3, <2>1, <3>4, TreeSignature
    <3>7. AsText(pub.handler) \in Handlers
      BY <1>3, HandlerFacts
    <3>8. BundleOK(b)
      <4>1. ~(b.manifest.version < 2)
        <5>1. pub.manifest.version \in 1 .. 2
          BY <1>2, ManifestFacts
        <5> QED
          BY <1>3, <3>4, <5>1
      <4> QED
        BY <1>2, <1>4, <3>2, <3>4, <3>6, <3>7, <4>1 DEF BundleOK
    <3>9. pub.whole => Good(b)
      BY <1>2, <3>5, ListedVerifies DEF Good
    <3>10. SourceOK(disk'[pub'.place])
      BY <1>1, <1>2, <3>1
    <3> QED
      BY <1>2, <1>3, <3>1, <3>8, <3>9, <3>10 DEF ReadOK, Reading, b
  <2>2. CASE pub.sig # SignWith("mine", pub.manifest, pub.handler, tree)
    BY <1>1, <2>2, PublisherEnds
  <2> QED
    BY <2>1, <2>2
<1> QED
  BY <1>1, <1>2, <1>5, Publishing, ListedStays

LEMMA PublishPostsKeeps == ASSUME InstallInv, PublishPosts PROVE InstallInv'
<1>1. /\ pub.at = "publish_post" /\ pub' = NoPub /\ UNCHANGED <<disk, signer, inst, budget, venv>>
      /\ \/ listed' = Posted /\ whole' = pub.whole
         \/ UNCHANGED <<listed, whole>>
  BY DEF PublishPosts, Posted
<1>2. BundleOK(Posted) /\ (pub.whole => Good(Posted))
  BY <1>1 DEF InstallInv, PubOK, ReadOK
<1>3. ListedOK'
  BY <1>1, <1>2 DEF InstallInv, ListedOK
<1>4. budget' \in [{"edits", "stops", "commands"} -> Nat]
  BY <1>1 DEF InstallInv, Shelves
<1> QED
  BY <1>1, <1>3, <1>4, Publishing, PublisherEnds

LEMMA PublisherStopsKeeps == ASSUME InstallInv, PublisherStops PROVE InstallInv'
<1>1. pub' = NoPub /\ UNCHANGED <<disk, listed, signer, inst, whole, venv>>
  BY DEF PublisherStops
<1>2. budget' \in [{"edits", "stops", "commands"} -> Nat]
  BY SpendKeeps DEF PublisherStops
<1> QED
  BY <1>1, <1>2, Publishing, PublisherEnds, ListedStays

LEMMA AcceptUnpacksKeeps == ASSUME InstallInv, AcceptUnpacks PROVE InstallInv'
<1> DEFINE f == listed.files
           m == [f[ModuleJson] EXCEPT !.key = "mine"]
           d == Signed("mine", m, f)
<1>1. /\ listed # Absent /\ f # NoFiles /\ pub.at = Idle
      /\ disk' = [disk EXCEPT !["temp"] = d]
      /\ pub' = [NoPub EXCEPT !.at = "publish", !.place = "temp"]
      /\ UNCHANGED <<listed, signer, inst, whole, venv>>
  BY DEF AcceptUnpacks
<1>2. SourceOK(f) /\ f[ModuleJson] \in Manifests
  <2>1. BundleOK(listed)
    BY <1>1 DEF InstallInv, ListedOK
  <2>2. listed.manifest \in Manifests
    BY <2>1 DEF BundleOK
  <2>3. listed.manifest.version \in 1 .. 2
    BY <2>2, ManifestFacts
  <2> QED
    BY <1>1, <2>1, <2>2, <2>3 DEF BundleOK
<1>3. m \in Manifests /\ m.key = "mine"
  BY <1>2 DEF Manifests, Keys
<1> HIDE DEF f, m
<1>4. SourceOK(d) /\ SigOK(d[Sig])
  BY <1>2, <1>3, SignedVerifies
<1> HIDE DEF d
<1>5. budget' \in [{"edits", "stops", "commands"} -> Nat]
  BY SpendKeeps DEF AcceptUnpacks
<1>6. /\ DOMAIN disk' = {"work", "temp", "station"} /\ disk'["work"] = disk["work"]
      /\ disk'["temp"] = d /\ disk'["station"] = disk["station"]
  BY <1>1 DEF InstallInv, Shelves
<1>7. Shelves' /\ Signatures'
  BY <1>4, <1>5, <1>6 DEF InstallInv, Shelves, PubOK, Signatures
<1>8. InstOK'
  <2>1. inst' = inst /\ DOMAIN inst = InstFields /\ InstOK
    BY <1>1 DEF InstallInv, InstOK
  <2> QED
    BY <1>6, <2>1, InstFrame
<1>9. VenvOK'
  BY <1>1, <1>6, VenvFrame DEF InstallInv
<1>10. SignerOK'
  BY <1>1, <1>6, SignerFrame
<1>11. DOMAIN pub' = PubFields /\ pub'.at = "publish" /\ pub'.place = "temp"
  BY <1>1, StartFields
<1>12. ReadOK'
  BY <1>4, <1>6, <1>11 DEF ReadOK, Reading
<1> QED
  BY <1>1, <1>7, <1>8, <1>9, <1>10, <1>12, ListedStays DEF InstallInv, PubOK

----------------------------------------------------------------------------
(* market install and install --from-path: the start.                       *)

\* A step of the installer leaves the publisher's side alone.
LEMMA Installing ==
  ASSUME InstallInv, NEW d, StationOK(d), UNCHANGED <<listed, signer, pub, whole>>,
         StationIs(d) \/ (d = Station /\ UNCHANGED disk),
         budget' \in [{"edits", "stops", "commands"} -> Nat]
  PROVE  /\ Shelves' /\ ListedOK' /\ PubOK'
         /\ Station' = d /\ disk'["work"] = disk["work"]
<1>1. /\ DOMAIN disk' = {"work", "temp", "station"} /\ disk'["station"] = d
      /\ disk'["work"] = disk["work"] /\ disk'["temp"] = disk["temp"]
  BY DEF InstallInv, Shelves, StationIs, Station
<1>2. Shelves'
  BY <1>1 DEF InstallInv, Shelves
<1>3. ListedOK' /\ PubOK'
  BY <1>1, PubFrame
<1> QED
  BY <1>1, <1>2, <1>3 DEF Station

LEMMA StationFacts == ASSUME InstallInv PROVE StationOK(Station)
  BY DEF InstallInv, Shelves, Station

LEMMA EndsOK == ASSUME inst' = NoInst PROVE InstOK' /\ inst'.stash = FALSE
<1>1. /\ DOMAIN inst' = InstFields /\ inst'.at = Idle /\ inst'.bundle = Absent
      /\ inst'.nth = 1 /\ inst'.stash = FALSE
  BY NoInstFields
<1>2. inst'.stash \in BOOLEAN /\ ~inst'.stash
  BY <1>1
<1>3. inst'.nth \in 1 .. 3
  BY <1>1
<1> QED
  BY <1>1, <1>2, <1>3 DEF InstOK

\* A command that knows what it is to install.
Loaded(i) ==
    /\ DOMAIN i = InstFields
    /\ i.nth = 1
    /\ i.bundle # Absent => BundleOK(i.bundle) /\ i.todo = DOMAIN i.bundle.files
    /\ i.bundle = Absent =>
          SourceOK(i.source) /\ Verify(i.source) /\ i.todo = DOMAIN i.source

Fresh(i) == i.sound /\ i.bundle = Absent => disk["work"] = i.source

LEMMA LaunchOK ==
  ASSUME NEW i, Loaded(i), i.stash = FALSE, inst' = Ready(i), Fresh(i),
         disk'["work"] = disk["work"],
         i.sound => DOMAIN Station' \ {Venv} = {}
  PROVE  InstOK' /\ inst'.stash = FALSE
<1>1. /\ DOMAIN inst' = InstFields
      /\ inst'.at = IF i.bundle = Absent THEN "copy"
                    ELSE IF i.todo # {} THEN "extract" ELSE "open"
      /\ inst'.bundle = i.bundle /\ inst'.todo = i.todo /\ inst'.nth = 1
      /\ inst'.stash = FALSE /\ inst'.source = i.source /\ inst'.sound = i.sound
  BY ReadyFields DEF Loaded
<1>2. Cargo' = IF i.bundle = Absent THEN i.source ELSE i.bundle.files
  BY <1>1 DEF Cargo
<1>3. i.todo = DOMAIN Cargo'
  BY <1>2 DEF Loaded
<1>4. inst'.sound => Laid'
  <2> SUFFICES ASSUME inst'.sound PROVE Laid'
    OBVIOUS
  <2>1. DOMAIN Station' \ {Venv} = {}
    BY <1>1
  <2>2. CASE inst'.at \in {"copy", "extract"}
    BY <1>1, <1>3, <2>1, <2>2 DEF Laid
  <2>3. CASE inst'.at = "open"
    <3>1. DOMAIN Cargo' = {} /\ Written(inst'.nth) = {}
      BY <1>1, <1>3, <2>3, WrittenFiles
    <3> QED
      BY <2>1, <2>3, <3>1 DEF Laid
  <2>4. inst'.at \in {"copy", "extract"} \/ inst'.at = "open"
    BY <1>1
  <2> QED
    BY <2>2, <2>3, <2>4
<1>5. inst'.stash \in BOOLEAN /\ ~inst'.stash /\ inst'.nth \in 1 .. 3
  <2>1. inst'.stash = FALSE /\ inst'.nth = 1
    BY <1>1
  <2>2. inst'.stash \in BOOLEAN
    BY <2>1
  <2> QED
    BY <2>1, <2>2
<1>6. i.bundle = Absent => i.todo # {}
  BY DEF Loaded, SourceOK, Has
<1> QED
  BY <1>1, <1>2, <1>3, <1>4, <1>5, <1>6 DEF InstOK, Loaded, Fresh

\* The old directory goes, or .venv is about to come back.
LEMMA ClearingOK ==
  ASSUME NEW i, Loaded(i), Fresh(i),
         DOMAIN inst' = InstFields, inst'.at \in {"wipe", "restore"},
         inst'.bundle = i.bundle, inst'.todo = i.todo, inst'.nth = i.nth,
         inst'.source = i.source, inst'.sound => i.sound,
         inst'.stash \in BOOLEAN, inst'.at = "restore" => inst'.stash,
         disk'["work"] = disk["work"], ~Has(Station', Venv),
         inst'.at = "restore" /\ inst'.sound => DOMAIN Station' = {}
  PROVE  InstOK'
<1>1. Cargo' = IF i.bundle = Absent THEN i.source ELSE i.bundle.files
  BY DEF Cargo
<1>2. inst'.sound => Laid'
  BY DEF Laid
<1>3. inst'.nth \in 1 .. 3
  BY DEF Loaded
<1> QED
  BY <1>1, <1>2, <1>3 DEF InstOK, Loaded, Fresh

LEMMA WipeUpdates ==
  ASSUME NEW i, DOMAIN i = InstFields
  PROVE  /\ DOMAIN [i EXCEPT !.at = "wipe"] = InstFields
         /\ [i EXCEPT !.at = "wipe"].at = "wipe"
         /\ [i EXCEPT !.at = "wipe"].bundle = i.bundle
         /\ [i EXCEPT !.at = "wipe"].todo = i.todo
         /\ [i EXCEPT !.at = "wipe"].nth = i.nth
         /\ [i EXCEPT !.at = "wipe"].stash = i.stash
         /\ [i EXCEPT !.at = "wipe"].source = i.source
         /\ [i EXCEPT !.at = "wipe"].sound = i.sound
         /\ DOMAIN [i EXCEPT !.at = "wipe", !.stash = TRUE] = InstFields
         /\ [i EXCEPT !.at = "wipe", !.stash = TRUE].at = "wipe"
         /\ [i EXCEPT !.at = "wipe", !.stash = TRUE].bundle = i.bundle
         /\ [i EXCEPT !.at = "wipe", !.stash = TRUE].todo = i.todo
         /\ [i EXCEPT !.at = "wipe", !.stash = TRUE].nth = i.nth
         /\ [i EXCEPT !.at = "wipe", !.stash = TRUE].stash = TRUE
         /\ [i EXCEPT !.at = "wipe", !.stash = TRUE].source = i.source
         /\ [i EXCEPT !.at = "wipe", !.stash = TRUE].sound = i.sound
         /\ DOMAIN [i EXCEPT !.at = "restore"] = InstFields
         /\ [i EXCEPT !.at = "restore"].at = "restore"
         /\ [i EXCEPT !.at = "restore"].bundle = i.bundle
         /\ [i EXCEPT !.at = "restore"].todo = i.todo
         /\ [i EXCEPT !.at = "restore"].nth = i.nth
         /\ [i EXCEPT !.at = "restore"].stash = i.stash
         /\ [i EXCEPT !.at = "restore"].source = i.source
         /\ [i EXCEPT !.at = "restore"].sound = i.sound
  BY Zenon DEF InstFields

LEMMA StartKeeps ==
  ASSUME InstallInv, inst.at = Idle, NEW i, Loaded(i), i.stash = FALSE, Fresh(i),
         UNCHANGED <<listed, signer, pub, whole, venv>>,
         budget' \in [{"edits", "stops", "commands"} -> Nat],
         \/ DOMAIN Station = {} /\ UNCHANGED disk /\ inst' = Ready(i)
         \/ Replaces(i)
  PROVE  InstallInv'
<1>1. StationOK(Station) /\ VenvOK /\ ~inst.stash
  BY StationFacts DEF InstallInv, InstOK
<1>2. CASE DOMAIN Station = {} /\ UNCHANGED disk /\ inst' = Ready(i)
  <2>1. Shelves' /\ ListedOK' /\ PubOK' /\ Station' = Station /\ disk'["work"] = disk["work"]
    BY <1>1, <1>2, Installing
  <2>2. InstOK' /\ inst'.stash = FALSE
    BY <1>2, <2>1, LaunchOK
  <2>3. VenvOK'
    BY <1>1, <1>2, <2>1, <2>2 DEF VenvOK, VenvKept, Has
  <2> QED
    BY <2>1, <2>2, <2>3 DEF InstallInv
<1>3. CASE Replaces(i) /\ Has(Station, Venv)
  <2> DEFINE d == Without(Station, {Venv})
  <2>1. StationOK(d) /\ DOMAIN d = DOMAIN Station \ {Venv}
    BY <1>1, StationWithout
  <2>2. StationIs(d) /\ inst' = [i EXCEPT !.at = "wipe", !.stash = TRUE]
    BY <1>3 DEF Replaces
  <2> HIDE DEF d
  <2>3. Shelves' /\ ListedOK' /\ PubOK' /\ Station' = d /\ disk'["work"] = disk["work"]
    BY <2>1, <2>2, Installing
  <2>4. /\ DOMAIN inst' = InstFields /\ inst'.at = "wipe" /\ inst'.bundle = i.bundle
        /\ inst'.todo = i.todo /\ inst'.nth = i.nth /\ inst'.stash = TRUE
        /\ inst'.source = i.source /\ inst'.sound = i.sound
    BY <2>2, WipeUpdates DEF Loaded
  <2>5. inst'.stash \in BOOLEAN /\ inst'.stash
    BY <2>4
  <2>6. ~Has(Station', Venv)
    BY <2>1, <2>3 DEF Has
  <2>7. InstOK'
    BY <2>3, <2>4, <2>5, <2>6, ClearingOK
  <2>8. VenvOK'
    BY <1>1, <2>5 DEF VenvOK, VenvKept
  <2> QED
    BY <2>3, <2>7, <2>8 DEF InstallInv
<1>4. CASE Replaces(i) /\ ~Has(Station, Venv)
  <2>1. UNCHANGED disk /\ inst' = [i EXCEPT !.at = "wipe"]
    BY <1>4 DEF Replaces
  <2>2. Shelves' /\ ListedOK' /\ PubOK' /\ Station' = Station /\ disk'["work"] = disk["work"]
    BY <1>1, <2>1, Installing
  <2>3. /\ DOMAIN inst' = InstFields /\ inst'.at = "wipe" /\ inst'.bundle = i.bundle
        /\ inst'.todo = i.todo /\ inst'.nth = i.nth /\ inst'.stash = FALSE
        /\ inst'.source = i.source /\ inst'.sound = i.sound
    BY <2>1, WipeUpdates DEF Loaded
  <2>4. inst'.stash \in BOOLEAN
    BY <2>3
  <2>5. InstOK'
    BY <1>4, <2>2, <2>3, <2>4, ClearingOK
  <2>6. VenvOK'
    BY <1>1, <1>4, <2>2 DEF VenvOK, VenvKept
  <2> QED
    BY <2>2, <2>5, <2>6 DEF InstallInv
<1> QED
  BY <1>2, <1>3, <1>4

LEMMA FetchedFields ==
  /\ DOMAIN Fetched = InstFields /\ Fetched.bundle = listed
  /\ Fetched.todo = DOMAIN listed.files /\ Fetched.nth = 1
  /\ Fetched.stash = FALSE /\ Fetched.sound = TRUE
<1>1. DOMAIN NoInst = InstFields /\ NoInst.nth = 1 /\ NoInst.stash = FALSE /\ NoInst.sound = TRUE
  BY NoInstFields
<1> QED
  BY <1>1, Zenon DEF Fetched, InstFields

LEMMA InstallKeeps == ASSUME InstallInv, Install PROVE InstallInv'
<1>1. /\ inst.at = Idle /\ listed # Absent /\ UNCHANGED <<listed, signer, pub, whole, venv>>
      /\ \/ DOMAIN Station = {} /\ UNCHANGED disk /\ inst' = Ready(Fetched)
         \/ Replaces(Fetched)
  BY DEF Install
<1>2. Loaded(Fetched) /\ Fetched.stash = FALSE /\ Fresh(Fetched)
  BY <1>1, FetchedFields DEF Loaded, Fresh, InstallInv, ListedOK
<1>3. budget' \in [{"edits", "stops", "commands"} -> Nat]
  BY SpendKeeps DEF Install
<1> QED
  BY <1>1, <1>2, <1>3, StartKeeps

LEMMA InstallFromPathKeeps == ASSUME InstallInv, InstallFromPath PROVE InstallInv'
<1> DEFINE w == disk["work"]
           i == [NoInst EXCEPT !.todo = DOMAIN w, !.source = w]
<1>1. /\ inst.at = Idle /\ Verify(w) /\ UNCHANGED <<listed, signer, pub, whole, venv>>
      /\ \/ DOMAIN Station = {} /\ UNCHANGED disk /\ inst' = Ready(i)
         \/ Replaces(i)
  BY DEF InstallFromPath
<1>2. /\ DOMAIN i = InstFields /\ i.bundle = Absent /\ i.todo = DOMAIN w /\ i.source = w
      /\ i.nth = 1 /\ i.stash = FALSE
  BY NoInstFields, Zenon DEF InstFields
<1> HIDE DEF i
<1>3. Loaded(i) /\ Fresh(i)
  BY <1>1, <1>2 DEF Loaded, Fresh, InstallInv, Shelves
<1>4. budget' \in [{"edits", "stops", "commands"} -> Nat]
  BY SpendKeeps DEF InstallFromPath
<1> QED
  BY <1>1, <1>2, <1>3, <1>4, StartKeeps

----------------------------------------------------------------------------
(* ... the old directory ...                                                *)

LEMMA ClearingFacts ==
  ASSUME InstallInv, inst.at \in {"wipe", "restore"}
  PROVE  /\ Loaded(inst) /\ Fresh(inst) /\ ~Has(Station, Venv)
         /\ inst.stash \in BOOLEAN /\ (inst.at = "restore" => inst.stash)
         /\ inst.at = "restore" /\ inst.sound => DOMAIN Station = {}
         /\ venv.built => inst.stash \/ venv.lost
  BY DEF InstallInv, InstOK, Loaded, Fresh, Laid, Cargo, VenvOK, VenvKept

LEMMA WipeKeeps == ASSUME InstallInv, Wipe PROVE InstallInv'
<1>1. /\ inst.at = "wipe" /\ UNCHANGED <<listed, signer, pub, whole, venv>>
      /\ budget' \in [{"edits", "stops", "commands"} -> Nat]
  BY DEF Wipe, InstallInv, Shelves
<1>2. /\ Loaded(inst) /\ Fresh(inst) /\ ~Has(Station, Venv) /\ inst.stash \in BOOLEAN
      /\ venv.built => inst.stash \/ venv.lost
  BY <1>1, ClearingFacts
<1>3. StationOK(Station) /\ VenvOK
  BY StationFacts DEF InstallInv
<1>4. CASE DOMAIN Station = {}
  <2>1. /\ UNCHANGED disk
        /\ inst' = IF inst.stash THEN [inst EXCEPT !.at = "restore"] ELSE Ready(inst)
    BY <1>4 DEF Wipe
  <2>2. Shelves' /\ ListedOK' /\ PubOK' /\ Station' = Station /\ disk'["work"] = disk["work"]
    BY <1>1, <1>3, <2>1, Installing
  <2>3. CASE inst.stash
    <3>1. /\ DOMAIN inst' = InstFields /\ inst'.at = "restore" /\ inst'.bundle = inst.bundle
          /\ inst'.todo = inst.todo /\ inst'.nth = inst.nth /\ inst'.stash = inst.stash
          /\ inst'.source = inst.source /\ inst'.sound = inst.sound
      BY <1>2, <2>1, <2>3, WipeUpdates DEF Loaded
    <3>2. InstOK'
      BY <1>2, <1>4, <2>2, <2>3, <3>1, ClearingOK
    <3>3. VenvOK'
      BY <1>1, <1>3, <2>2, <2>3, <3>1 DEF VenvOK, VenvKept
    <3> QED
      BY <2>2, <3>2, <3>3 DEF InstallInv
  <2>4. CASE ~inst.stash
    <3>1. InstOK' /\ inst'.stash = FALSE
      BY <1>2, <1>4, <2>1, <2>2, <2>4, LaunchOK
    <3>2. VenvOK'
      BY <1>1, <1>2, <1>3, <2>4 DEF VenvOK, VenvKept
    <3> QED
      BY <2>2, <3>1, <3>2 DEF InstallInv
  <2> QED
    BY <2>3, <2>4
<1>5. CASE DOMAIN Station # {}
  <2>1. PICK p : StationIs(Without(Station, {p})) /\ UNCHANGED inst
    BY <1>5 DEF Wipe
  <2> DEFINE d == Without(Station, {p})
  <2>2. StationOK(d) /\ ~Has(d, Venv)
    <3>1. StationOK(d) /\ DOMAIN d = DOMAIN Station \ {p}
      BY <1>3, StationWithout
    <3> HIDE DEF d
    <3> QED
      BY <1>2, <3>1 DEF Has
  <2>3. StationIs(d)
    BY <2>1
  <2> HIDE DEF d
  <2>4. Shelves' /\ ListedOK' /\ PubOK' /\ Station' = d /\ disk'["work"] = disk["work"]
    BY <1>1, <2>2, <2>3, Installing
  <2>5. inst' = inst /\ DOMAIN inst = InstFields
    BY <1>2, <2>1 DEF Loaded
  <2>6. InstOK'
    BY <1>1, <1>2, <2>2, <2>4, <2>5, ClearingOK
  <2>7. VenvOK'
    BY <1>1, <1>2, <1>3, <2>5 DEF VenvOK, VenvKept
  <2> QED
    BY <2>4, <2>6, <2>7 DEF InstallInv
<1> QED
  BY <1>4, <1>5

LEMMA WipeFailsKeeps == ASSUME InstallInv, WipeFails PROVE InstallInv'
<1>1. inst.at = "wipe" /\ UNCHANGED <<listed, signer, pub, whole, venv>>
  BY DEF WipeFails
<1>2. budget' \in [{"edits", "stops", "commands"} -> Nat]
  BY SpendKeeps DEF WipeFails
<1>3. /\ Loaded(inst) /\ Fresh(inst) /\ ~Has(Station, Venv) /\ inst.stash \in BOOLEAN
      /\ venv.built => inst.stash \/ venv.lost
  BY <1>1, ClearingFacts
<1>4. StationOK(Station) /\ VenvOK
  BY StationFacts DEF InstallInv
<1>5. CASE inst.bundle # Absent
  <2> DEFINE i == [inst EXCEPT !.sound = FALSE]
  <2>1. /\ UNCHANGED disk
        /\ inst' = IF i.stash THEN [i EXCEPT !.at = "restore"] ELSE Ready(i)
    BY <1>5 DEF WipeFails
  <2>2. /\ DOMAIN i = InstFields /\ i.bundle = inst.bundle /\ i.todo = inst.todo
        /\ i.nth = inst.nth /\ i.stash = inst.stash /\ i.source = inst.source
        /\ i.sound = FALSE
    BY <1>3, InstUpdates DEF Loaded
  <2> HIDE DEF i
  <2>3. Loaded(i) /\ Fresh(i) /\ ~i.sound
    BY <1>3, <2>2 DEF Loaded, Fresh
  <2>4. Shelves' /\ ListedOK' /\ PubOK' /\ Station' = Station /\ disk'["work"] = disk["work"]
    BY <1>1, <1>2, <1>4, <2>1, Installing
  <2>5. CASE inst.stash
    <3>1. /\ DOMAIN inst' = InstFields /\ inst'.at = "restore" /\ inst'.bundle = i.bundle
          /\ inst'.todo = i.todo /\ inst'.nth = i.nth /\ inst'.stash = inst.stash
          /\ inst'.source = i.source /\ inst'.sound = i.sound
      BY <2>1, <2>2, <2>5, WipeUpdates
    <3>2. InstOK'
      BY <1>3, <2>3, <2>4, <2>5, <3>1, ClearingOK
    <3>3. VenvOK'
      BY <1>1, <1>4, <2>5, <3>1 DEF VenvOK, VenvKept
    <3> QED
      BY <2>4, <3>2, <3>3 DEF InstallInv
  <2>6. CASE ~inst.stash
    <3>1. inst.stash = FALSE
      BY <1>3, <2>6
    <3>2. inst' = Ready(i) /\ i.stash = FALSE
      BY <2>1, <2>2, <3>1
    <3>3. InstOK'
      BY <2>3, <2>4, <3>2, LaunchOK
    <3>4. VenvOK'
      BY <1>1, <1>3, <1>4, <2>6 DEF VenvOK, VenvKept
    <3> QED
      BY <2>4, <3>3, <3>4 DEF InstallInv
  <2> QED
    BY <2>5, <2>6
<1>6. CASE inst.bundle = Absent
  <2> DEFINE d == IF inst.stash THEN Put(Station, Venv, TRUE) ELSE Station
  <2>1. StationIs(d) /\ inst' = NoInst
    BY <1>6 DEF WipeFails
  <2>2. StationOK(d) /\ (inst.stash => Has(d, Venv))
    <3> DEFINE e == Put(Station, Venv, TRUE)
    <3>1. StationOK(e) /\ DOMAIN e = DOMAIN Station \cup {Venv}
      BY <1>4, StationPut
    <3> HIDE DEF e
    <3>2. StationOK(e) /\ Has(e, Venv)
      BY <3>1 DEF Has
    <3> QED
      BY <1>4, <3>2 DEF e
  <2> HIDE DEF d
  <2>3. Shelves' /\ ListedOK' /\ PubOK' /\ Station' = d
    BY <1>1, <1>2, <2>1, <2>2, Installing
  <2>4. InstOK'
    BY <2>1, EndsOK
  <2>5. VenvOK'
    BY <1>1, <1>3, <1>4, <2>2, <2>3 DEF VenvOK, VenvKept
  <2> QED
    BY <2>3, <2>4, <2>5 DEF InstallInv
<1> QED
  BY <1>5, <1>6

LEMMA RestoreKeeps == ASSUME InstallInv, Restore PROVE InstallInv'
<1> DEFINE i == [inst EXCEPT !.stash = FALSE]
           d == Put(Station, Venv, TRUE)
<1>1. /\ inst.at = "restore" /\ UNCHANGED <<listed, signer, pub, whole, venv>>
      /\ budget' \in [{"edits", "stops", "commands"} -> Nat]
      /\ StationIs(d) /\ inst' = Ready(i)
  BY DEF Restore, InstallInv, Shelves
<1>2. Loaded(inst) /\ Fresh(inst) /\ (inst.sound => DOMAIN Station = {})
  BY <1>1, ClearingFacts
<1>3. StationOK(Station) /\ VenvOK
  BY StationFacts DEF InstallInv
<1>4. StationOK(d) /\ DOMAIN d = DOMAIN Station \cup {Venv}
  BY <1>3, StationPut
<1> HIDE DEF d
<1>5. /\ DOMAIN i = InstFields /\ i.bundle = inst.bundle /\ i.todo = inst.todo
      /\ i.nth = inst.nth /\ i.stash = FALSE /\ i.source = inst.source
      /\ i.sound = inst.sound
  BY <1>2, InstUpdates DEF Loaded
<1> HIDE DEF i
<1>6. Loaded(i) /\ Fresh(i)
  BY <1>2, <1>5 DEF Loaded, Fresh
<1>7. Shelves' /\ ListedOK' /\ PubOK' /\ Station' = d /\ disk'["work"] = disk["work"]
  BY <1>1, <1>4, Installing
<1>8. i.sound => DOMAIN Station' \ {Venv} = {}
  BY <1>2, <1>4, <1>5, <1>7
<1>9. InstOK'
  BY <1>1, <1>5, <1>6, <1>7, <1>8, LaunchOK
<1>10. VenvOK'
  BY <1>1, <1>3, <1>4, <1>7 DEF VenvOK, VenvKept, Has
<1> QED
  BY <1>7, <1>9, <1>10 DEF InstallInv

----------------------------------------------------------------------------
(* ... and the new files.                                                   *)

LEMMA BundleFacts ==
  ASSUME NEW b, BundleOK(b)
  PROVE  /\ b.manifest \in Manifests /\ b.handler_py \in Handlers
         /\ DOMAIN b.files \subseteq {Ignore, Handler, ModuleJson, Sibling}
         /\ StationOK(b.files)
<1>1. b.manifest \in Manifests /\ b.handler_py \in Handlers
  BY DEF BundleOK
<1>2. b.manifest.version \in 1 .. 2
  BY <1>1, ManifestFacts
<1>3. CASE b.manifest.version < 2
  BY <1>1, <1>3, StationEmpty DEF BundleOK
<1>4. CASE b.manifest.version >= 2
  <2>1. SourceOK(b.files) /\ ~Has(b.files, Sig)
    BY <1>4 DEF BundleOK
  <2>2. StationOK(b.files)
    BY <2>1, StationOfSource
  <2> QED
    BY <1>1, <2>1, <2>2 DEF SourceOK, Has
<1> QED
  BY <1>2, <1>3, <1>4

LEMMA LayingFacts ==
  ASSUME InstallInv, inst.at \in {"extract", "open", "write", "copy"}
  PROVE  /\ DOMAIN inst = InstFields /\ StationOK(Station) /\ ~inst.stash
         /\ inst.nth \in 1 .. 3
         /\ inst.sound => Laid
         /\ inst.at # "copy" =>
               /\ inst.bundle # Absent /\ BundleOK(inst.bundle) /\ Cargo = inst.bundle.files
               /\ inst.todo \subseteq DOMAIN Cargo
         /\ inst.at = "copy" =>
               /\ inst.bundle = Absent /\ SourceOK(inst.source) /\ Cargo = inst.source
               /\ Verify(inst.source) /\ inst.todo \subseteq DOMAIN Cargo
               /\ inst.sound => disk["work"] = inst.source
         /\ inst.at \in {"extract", "copy"} => inst.todo # {} /\ inst.nth = 1
         /\ VenvOK /\ (venv.built => Has(Station, Venv) \/ venv.lost)
<1>1. InstOK /\ VenvOK /\ StationOK(Station)
  BY StationFacts DEF InstallInv
<1>2. ~inst.stash
  BY <1>1 DEF InstOK
<1> QED
  BY <1>1, <1>2 DEF InstOK, Cargo, VenvOK, VenvKept

LEMMA FirstLeft ==
  ASSUME NEW todo, todo # {}, todo \subseteq Range(Paths)
  PROVE  Paths[CHOOSE n \in DOMAIN Paths :
                 Paths[n] \in todo /\ \A k \in 1 .. n - 1 : Paths[k] \notin todo] \in todo
<1>1. DOMAIN Paths = 1 .. 6
  BY DEF Paths
<1>2. \E n \in 1 .. 6 : Paths[n] \in todo
  BY <1>1 DEF Range
<1> DEFINE P == Paths
<1> HIDE DEF P
<1>3. ASSUME \E n \in 1 .. 6 : P[n] \in todo
      PROVE  \E n \in 1 .. 6 : P[n] \in todo /\ \A k \in 1 .. n - 1 : P[k] \notin todo
  BY <1>3
<1>4. \E n \in DOMAIN Paths : Paths[n] \in todo /\ \A k \in 1 .. n - 1 : Paths[k] \notin todo
  BY <1>1, <1>2, <1>3 DEF P
<1> QED
  BY <1>4

LEMMA LayUpdates ==
  ASSUME NEW i, DOMAIN i = InstFields, NEW x, NEW y
  PROVE  /\ DOMAIN [i EXCEPT !.todo = x, !.at = y] = InstFields
         /\ [i EXCEPT !.todo = x, !.at = y].at = y
         /\ [i EXCEPT !.todo = x, !.at = y].bundle = i.bundle
         /\ [i EXCEPT !.todo = x, !.at = y].todo = x
         /\ [i EXCEPT !.todo = x, !.at = y].nth = i.nth
         /\ [i EXCEPT !.todo = x, !.at = y].stash = i.stash
         /\ [i EXCEPT !.todo = x, !.at = y].source = i.source
         /\ [i EXCEPT !.todo = x, !.at = y].sound = i.sound
         /\ DOMAIN [i EXCEPT !.at = y, !.nth = x] = InstFields
         /\ [i EXCEPT !.at = y, !.nth = x].at = y
         /\ [i EXCEPT !.at = y, !.nth = x].bundle = i.bundle
         /\ [i EXCEPT !.at = y, !.nth = x].todo = i.todo
         /\ [i EXCEPT !.at = y, !.nth = x].nth = x
         /\ [i EXCEPT !.at = y, !.nth = x].stash = i.stash
         /\ [i EXCEPT !.at = y, !.nth = x].source = i.source
         /\ [i EXCEPT !.at = y, !.nth = x].sound = i.sound
         /\ DOMAIN [i EXCEPT !.at = y] = InstFields
         /\ [i EXCEPT !.at = y].at = y
         /\ [i EXCEPT !.at = y].bundle = i.bundle
         /\ [i EXCEPT !.at = y].todo = i.todo
         /\ [i EXCEPT !.at = y].nth = i.nth
         /\ [i EXCEPT !.at = y].stash = i.stash
         /\ [i EXCEPT !.at = y].source = i.source
         /\ [i EXCEPT !.at = y].sound = i.sound
         /\ DOMAIN [i EXCEPT !.todo = x] = InstFields
         /\ [i EXCEPT !.todo = x].at = i.at
         /\ [i EXCEPT !.todo = x].bundle = i.bundle
         /\ [i EXCEPT !.todo = x].todo = x
         /\ [i EXCEPT !.todo = x].nth = i.nth
         /\ [i EXCEPT !.todo = x].stash = i.stash
         /\ [i EXCEPT !.todo = x].source = i.source
         /\ [i EXCEPT !.todo = x].sound = i.sound
  BY Zenon DEF InstFields

\* A file more in the station does not take the .venv away.
LEMMA VenvStays ==
  ASSUME VenvOK, venv.built => Has(Station, Venv) \/ venv.lost, venv' = venv,
         DOMAIN Station \subseteq DOMAIN Station'
  PROVE  VenvOK'
  BY DEF VenvOK, VenvKept, Has

LEMMA ExtractKeeps == ASSUME InstallInv, Extract PROVE InstallInv'
<1> DEFINE nth == CHOOSE n \in DOMAIN Paths :
                    Paths[n] \in inst.todo /\ \A k \in 1 .. n - 1 : Paths[k] \notin inst.todo
           p == Paths[nth]
           rest == inst.todo \ {p}
           content == inst.bundle.files[p]
           d == Put(Station, p, content)
<1>1. /\ inst.at = "extract" /\ UNCHANGED <<listed, signer, pub, whole, venv>>
      /\ budget' \in [{"edits", "stops", "commands"} -> Nat]
      /\ StationIs(d)
      /\ inst' = [inst EXCEPT !.todo = rest, !.at = IF rest = {} THEN "open" ELSE @]
  BY DEF Extract, InstallInv, Shelves
<1>2. /\ DOMAIN inst = InstFields /\ StationOK(Station) /\ ~inst.stash
      /\ inst.bundle # Absent /\ BundleOK(inst.bundle) /\ Cargo = inst.bundle.files
      /\ inst.todo \subseteq DOMAIN Cargo /\ inst.todo # {} /\ inst.nth = 1
      /\ (inst.sound => Laid)
      /\ VenvOK /\ (venv.built => Has(Station, Venv) \/ venv.lost)
  BY <1>1, LayingFacts
<1>3. DOMAIN Cargo \subseteq {Ignore, Handler, ModuleJson, Sibling} /\ StationOK(Cargo)
  BY <1>2, BundleFacts
<1>4. p \in inst.todo
  BY <1>2, <1>3, FirstLeft, PathSet
<1> HIDE DEF p
<1>5. /\ p \in {Ignore, Venv, Handler, ModuleJson, Sig, Sibling}
      /\ p = ModuleJson => content \in Manifests \cup {Empty[ModuleJson]}
      /\ p = Handler => content \in Handlers \cup {Empty[Handler]}
      /\ p = Sibling => content \in 1 .. 2
  BY <1>2, <1>3, <1>4 DEF StationOK, Has
<1>6. content = Cargo[p]
  BY <1>2
<1> HIDE DEF content
<1>7. /\ StationOK(d) /\ DOMAIN d = DOMAIN Station \cup {p} /\ d[p] = content
      /\ \A q \in DOMAIN Station : q # p => d[q] = Station[q]
  <2>1. StationOK(Station)
    BY <1>2
  <2>2. /\ DOMAIN d = DOMAIN Station \cup {p} /\ d[p] = content
        /\ \A q \in DOMAIN Station : q # p => d[q] = Station[q]
    BY DEF Put
  <2>3. StationOK(d)
    BY <1>5, <2>1, StationPut, Zenon
  <2> QED
    BY <2>2, <2>3
<1> HIDE DEF d
<1>8. Shelves' /\ ListedOK' /\ PubOK' /\ Station' = d /\ disk'["work"] = disk["work"]
  BY <1>1, <1>7, Installing
<1> DEFINE at == IF rest = {} THEN "open" ELSE inst.at
<1>9. inst' = [inst EXCEPT !.todo = rest, !.at = at]
  BY <1>1, Zenon
<1> HIDE DEF at, rest
<1>10. /\ DOMAIN inst' = InstFields /\ inst'.at = at /\ inst'.bundle = inst.bundle
       /\ inst'.todo = rest /\ inst'.nth = inst.nth /\ inst'.stash = inst.stash
       /\ inst'.source = inst.source /\ inst'.sound = inst.sound
  BY <1>2, <1>9, LayUpdates
<1>11. Cargo' = Cargo
  BY <1>10 DEF Cargo
<1>12. ASSUME inst'.sound PROVE Laid'
  <2>1. /\ DOMAIN Station \ {Venv} = DOMAIN Cargo \ inst.todo
        /\ \A q \in DOMAIN Cargo \ inst.todo : Station[q] = Cargo[q]
    BY <1>1, <1>2, <1>10, <1>12 DEF Laid
  <2>2. /\ DOMAIN d \ {Venv} = DOMAIN Cargo \ rest
        /\ \A q \in DOMAIN Cargo \ rest : d[q] = Cargo[q]
    BY <1>2, <1>3, <1>4, <1>6, <1>7, <2>1 DEF rest
  <2>3. CASE rest = {}
    <3>1. inst'.at = "open" /\ Written(inst'.nth) = {}
      BY <1>2, <1>10, <2>3, WrittenFiles DEF at
    <3>2. /\ DOMAIN d \ {Venv} = DOMAIN Cargo
          /\ \A q \in DOMAIN d \ {Venv} : d[q] = Cargo[q]
      BY <2>2, <2>3
    <3> QED
      BY <1>8, <1>11, <3>1, <3>2 DEF Laid
  <2>4. CASE rest # {}
    <3>1. inst'.at = "extract" /\ inst'.todo = rest
      BY <1>1, <1>10, <2>4 DEF at
    <3> QED
      BY <1>8, <1>11, <2>2, <3>1 DEF Laid
  <2> QED
    BY <2>3, <2>4
<1>13. InstOK'
  <2>1. inst'.at = "open" \/ (inst'.at = "extract" /\ rest # {})
    BY <1>1, <1>10 DEF at
  <2>2. inst'.stash = inst.stash /\ inst.stash \in BOOLEAN
    BY <1>10 DEF InstallInv, InstOK
  <2>3. rest \subseteq DOMAIN Cargo
    BY <1>2 DEF rest
  <2> QED
    BY <1>2, <1>10, <1>11, <1>12, <2>1, <2>2, <2>3 DEF InstOK
<1>14. VenvOK'
  BY <1>1, <1>2, <1>7, <1>8, VenvStays
<1> QED
  BY <1>8, <1>13, <1>14 DEF InstallInv

LEMMA ExtractFailsKeeps == ASSUME InstallInv, ExtractFails PROVE InstallInv'
<1>1. /\ inst.at = "extract" /\ StationIs(NoFiles) /\ inst' = NoInst
      /\ venv' = [venv EXCEPT !.lost = venv.lost \/ Has(Station, Venv)]
      /\ UNCHANGED <<listed, signer, pub, whole>>
  BY DEF ExtractFails
<1>2. budget' \in [{"edits", "stops", "commands"} -> Nat]
  BY SpendKeeps DEF ExtractFails
<1>3. VenvOK /\ (venv.built => Has(Station, Venv) \/ venv.lost)
  BY <1>1, LayingFacts
<1>4. Shelves' /\ ListedOK' /\ PubOK'
  BY <1>1, <1>2, StationEmpty, Installing
<1>5. InstOK'
  BY <1>1, EndsOK
<1> DEFINE lost == venv.lost \/ Has(Station, Venv)
<1>6. DOMAIN venv = {"built", "lost"}
  BY <1>3 DEF VenvOK
<1>7. DOMAIN venv' = {"built", "lost"} /\ venv'.built = venv.built /\ venv'.lost = lost
  BY <1>1, <1>6, Zenon
<1>8. VenvOK'
  BY <1>3, <1>7 DEF VenvOK, VenvKept
<1> QED
  BY <1>4, <1>5, <1>8 DEF InstallInv

LEMMA OpenKeeps == ASSUME InstallInv, Open PROVE InstallInv'
<1> DEFINE p == Canonical[inst.nth]
           d == Put(Station, p, Empty[p])
<1>1. /\ inst.at = "open" /\ UNCHANGED <<listed, signer, pub, whole, venv>>
      /\ budget' \in [{"edits", "stops", "commands"} -> Nat]
      /\ StationIs(d) /\ inst' = [inst EXCEPT !.at = "write"]
  BY DEF Open, InstallInv, Shelves
<1>2. /\ DOMAIN inst = InstFields /\ StationOK(Station) /\ ~inst.stash /\ inst.nth \in 1 .. 3
      /\ inst.bundle # Absent /\ BundleOK(inst.bundle) /\ Cargo = inst.bundle.files
      /\ inst.todo \subseteq DOMAIN Cargo /\ (inst.sound => Laid)
      /\ VenvOK /\ (venv.built => Has(Station, Venv) \/ venv.lost)
  BY <1>1, LayingFacts
<1>3. p \in {ModuleJson, Handler, Sig}
  BY <1>2, CanonicalFiles
<1>4. Written(inst.nth + 1) = Written(inst.nth) \cup {p}
  BY <1>2, CanonicalFiles, WrittenFiles
<1> HIDE DEF p
<1>5. /\ DOMAIN d = DOMAIN Station \cup {p}
      /\ \A q \in DOMAIN Station : q # p => d[q] = Station[q]
  BY DEF Put
<1>6. StationOK(d)
  <2>1. /\ p \in {Ignore, Venv, Handler, ModuleJson, Sig, Sibling}
        /\ p = ModuleJson => Empty[p] \in Manifests \cup {Empty[ModuleJson]}
        /\ p = Handler => Empty[p] \in Handlers \cup {Empty[Handler]}
        /\ p = Sibling => Empty[p] \in 1 .. 2
    BY <1>3
  <2> QED
    BY <1>2, <2>1, StationPut, Zenon
<1> HIDE DEF d
<1>7. Shelves' /\ ListedOK' /\ PubOK' /\ Station' = d /\ disk'["work"] = disk["work"]
  BY <1>1, <1>6, Installing
<1>8. /\ DOMAIN inst' = InstFields /\ inst'.at = "write" /\ inst'.bundle = inst.bundle
      /\ inst'.todo = inst.todo /\ inst'.nth = inst.nth /\ inst'.stash = inst.stash
      /\ inst'.source = inst.source /\ inst'.sound = inst.sound
  BY <1>1, <1>2, LayUpdates
<1>9. Cargo' = Cargo
  BY <1>8 DEF Cargo
<1>10. ASSUME inst'.sound PROVE Laid'
  <2> DEFINE C == DOMAIN Cargo
             W == Written(inst.nth)
             val(q) == IF q \in W THEN Unpacked(inst.bundle)[q] ELSE Cargo[q]
  <2>1. /\ DOMAIN Station \ {Venv} = C \cup W
        /\ \A q \in DOMAIN Station \ {Venv} : Station[q] = val(q)
    BY <1>1, <1>2, <1>8, <1>10 DEF Laid
  <2> HIDE DEF W, C, val
  <2>2. DOMAIN d \ {Venv} = C \cup (W \cup {p})
    BY <1>3, <1>5, <2>1
  <2>3. \A q \in DOMAIN d \ {Venv, p} : d[q] = val(q)
    BY <1>5, <2>1
  <2>4. Written(inst.nth + 1) = W \cup {p}
    BY <1>4 DEF W
  <2>5. p = Canonical[inst.nth]
    BY DEF p
  <2> QED
    BY <1>7, <1>8, <1>9, <2>2, <2>3, <2>4, <2>5 DEF Laid, C, W, val
<1>11. InstOK'
  <2>1. inst'.stash \in BOOLEAN
    BY <1>8 DEF InstallInv, InstOK
  <2> QED
    BY <1>2, <1>8, <1>9, <1>10, <2>1 DEF InstOK
<1>12. VenvOK'
  BY <1>1, <1>2, <1>5, <1>7, VenvStays
<1> QED
  BY <1>7, <1>11, <1>12 DEF InstallInv

LEMMA WriteStringKeeps == ASSUME InstallInv, WriteString PROVE InstallInv'
<1> DEFINE p == Canonical[inst.nth]
           u == Unpacked(inst.bundle)
           d == Put(Station, p, u[p])
           n == inst.nth + 1
<1>1. /\ inst.at = "write" /\ UNCHANGED <<listed, signer, pub, whole, venv>>
      /\ budget' \in [{"edits", "stops", "commands"} -> Nat]
      /\ StationIs(d)
      /\ inst' = IF inst.nth = Len(Canonical) THEN NoInst
                 ELSE [inst EXCEPT !.at = "open", !.nth = n]
  BY DEF WriteString, InstallInv, Shelves
<1>2. /\ DOMAIN inst = InstFields /\ StationOK(Station) /\ ~inst.stash /\ inst.nth \in 1 .. 3
      /\ inst.bundle # Absent /\ BundleOK(inst.bundle) /\ Cargo = inst.bundle.files
      /\ inst.todo \subseteq DOMAIN Cargo /\ (inst.sound => Laid)
      /\ VenvOK /\ (venv.built => Has(Station, Venv) \/ venv.lost)
  BY <1>1, LayingFacts
<1>3. p \in {ModuleJson, Handler, Sig}
  BY <1>2, CanonicalFiles
<1>4. Written(n) = Written(inst.nth) \cup {p}
  BY <1>2, CanonicalFiles, WrittenFiles
<1>5. /\ u[ModuleJson] = inst.bundle.manifest /\ u[Handler] = inst.bundle.handler_py
      /\ inst.bundle.manifest \in Manifests /\ inst.bundle.handler_py \in Handlers
  BY <1>2, UnpackedFacts, BundleFacts
<1> HIDE DEF p, u
<1>6. /\ DOMAIN d = DOMAIN Station \cup {p} /\ d[p] = u[p]
      /\ \A q \in DOMAIN Station : q # p => d[q] = Station[q]
  BY DEF Put
<1>7. StationOK(d)
  <2>1. /\ p \in {Ignore, Venv, Handler, ModuleJson, Sig, Sibling}
        /\ p = ModuleJson => u[p] \in Manifests \cup {Empty[ModuleJson]}
        /\ p = Handler => u[p] \in Handlers \cup {Empty[Handler]}
        /\ p = Sibling => u[p] \in 1 .. 2
    BY <1>3, <1>5
  <2> QED
    BY <1>2, <2>1, StationPut, Zenon
<1> HIDE DEF d
<1>8. Shelves' /\ ListedOK' /\ PubOK' /\ Station' = d /\ disk'["work"] = disk["work"]
  BY <1>1, <1>7, Installing
<1>9. VenvOK'
  BY <1>1, <1>2, <1>6, <1>8, VenvStays
<1>10. CASE inst.nth = 3
  <2>1. inst' = NoInst
    BY <1>1, <1>10, CanonicalFiles
  <2> QED
    BY <1>8, <1>9, <2>1, EndsOK DEF InstallInv
<1>11. CASE inst.nth # 3
  <2>1. inst' = [inst EXCEPT !.at = "open", !.nth = n]
    BY <1>1, <1>11, CanonicalFiles
  <2>2. n \in 1 .. 3
    BY <1>2, <1>11
  <2> HIDE DEF n
  <2>3. /\ DOMAIN inst' = InstFields /\ inst'.at = "open" /\ inst'.bundle = inst.bundle
        /\ inst'.todo = inst.todo /\ inst'.nth = n /\ inst'.stash = inst.stash
        /\ inst'.source = inst.source /\ inst'.sound = inst.sound
    BY <1>2, <2>1, LayUpdates
  <2>4. Cargo' = Cargo
    BY <2>3 DEF Cargo
  <2>5. ASSUME inst'.sound PROVE Laid'
    <3> DEFINE C == DOMAIN Cargo
               W == Written(inst.nth)
    <3>1. /\ DOMAIN Station \ {Venv} = C \cup Written(inst.nth + 1)
          /\ \A q \in DOMAIN Station \ {Venv, p} :
                Station[q] = IF q \in W THEN u[q] ELSE Cargo[q]
      BY <1>1, <1>2, <2>3, <2>5 DEF Laid, p, u
    <3>2. Written(n) = W \cup {p} /\ Written(inst.nth + 1) = W \cup {p}
      BY <1>4 DEF n
    <3> HIDE DEF W, C
    <3>3. DOMAIN d \ {Venv} = C \cup Written(n)
      BY <1>3, <1>6, <3>1, <3>2
    <3>4. \A q \in DOMAIN d \ {Venv} : d[q] = IF q \in Written(n) THEN u[q] ELSE Cargo[q]
      BY <1>6, <3>1, <3>2
    <3> QED
      BY <1>8, <2>3, <2>4, <3>3, <3>4 DEF Laid, C, u
  <2>6. InstOK'
    <3>1. inst'.stash \in BOOLEAN
      BY <2>3 DEF InstallInv, InstOK
    <3> QED
      BY <1>2, <2>2, <2>3, <2>4, <2>5, <3>1 DEF InstOK
  <2> QED
    BY <1>8, <1>9, <2>6 DEF InstallInv
<1> QED
  BY <1>10, <1>11

LEMMA CopyKeeps == ASSUME InstallInv, Copy PROVE InstallInv'
<1>1. /\ inst.at = "copy" /\ UNCHANGED <<listed, signer, pub, whole, venv>>
      /\ budget' \in [{"edits", "stops", "commands"} -> Nat]
  BY DEF Copy, InstallInv, Shelves
<1>2. /\ DOMAIN inst = InstFields /\ StationOK(Station) /\ ~inst.stash
      /\ inst.bundle = Absent /\ SourceOK(inst.source) /\ Cargo = inst.source
      /\ Verify(inst.source) /\ inst.todo \subseteq DOMAIN Cargo /\ inst.nth = 1
      /\ (inst.sound => Laid /\ disk["work"] = inst.source)
      /\ VenvOK /\ (venv.built => Has(Station, Venv) \/ venv.lost)
  BY <1>1, LayingFacts
<1> DEFINE w == disk["work"]
<1>3. SourceOK(w)
  BY DEF InstallInv, Shelves
<1>4. CASE inst' = NoInst /\ UNCHANGED disk
  <2>1. Shelves' /\ ListedOK' /\ PubOK' /\ Station' = Station
    BY <1>1, <1>2, <1>4, Installing
  <2> QED
    BY <1>1, <1>2, <1>4, <2>1, EndsOK, VenvStays DEF InstallInv
<1>5. ASSUME NEW p \in inst.todo, Has(w, p), StationIs(Put(Station, p, w[p])),
             inst' = IF inst.todo = {p} THEN NoInst
                     ELSE [inst EXCEPT !.todo = inst.todo \ {p}]
      PROVE  InstallInv'
  <2> DEFINE d == Put(Station, p, w[p])
             rest == inst.todo \ {p}
  <2>1. /\ DOMAIN d = DOMAIN Station \cup {p} /\ d[p] = w[p]
        /\ \A q \in DOMAIN Station : q # p => d[q] = Station[q]
    BY DEF Put
  <2>2. StationOK(d)
    <3>1. /\ p \in {Ignore, Venv, Handler, ModuleJson, Sig, Sibling}
          /\ p = ModuleJson => w[p] \in Manifests \cup {Empty[ModuleJson]}
          /\ p = Handler => w[p] \in Handlers \cup {Empty[Handler]}
          /\ p = Sibling => w[p] \in 1 .. 2
      BY <1>3, <1>5 DEF SourceOK, Has
    <3> HIDE DEF w
    <3> QED
      BY <1>2, <3>1, StationPut, ZenonT(60)
  <2>3. StationIs(d)
    BY <1>5
  <2> HIDE DEF d
  <2>4. Shelves' /\ ListedOK' /\ PubOK' /\ Station' = d /\ disk'["work"] = w
    BY <1>1, <2>2, <2>3, Installing
  <2>5. VenvOK'
    BY <1>1, <1>2, <2>1, <2>4, VenvStays
  <2>6. CASE inst.todo = {p}
    BY <1>5, <2>4, <2>5, <2>6, EndsOK DEF InstallInv
  <2>7. CASE inst.todo # {p}
    <3>1. inst' = [inst EXCEPT !.todo = rest]
      BY <1>5, <2>7
    <3>2. rest # {}
      BY <1>5, <2>7
    <3> HIDE DEF rest
    <3>3. /\ DOMAIN inst' = InstFields /\ inst'.at = inst.at /\ inst'.bundle = inst.bundle
          /\ inst'.todo = rest /\ inst'.nth = inst.nth /\ inst'.stash = inst.stash
          /\ inst'.source = inst.source /\ inst'.sound = inst.sound
      BY <1>2, <3>1, LayUpdates
    <3>4. Cargo' = Cargo
      BY <3>3 DEF Cargo
    <3>5. ASSUME inst'.sound PROVE Laid'
      <4>1. /\ DOMAIN Station \ {Venv} = DOMAIN Cargo \ inst.todo
            /\ \A q \in DOMAIN Cargo \ inst.todo : Station[q] = Cargo[q]
        BY <1>1, <1>2, <3>3, <3>5 DEF Laid
      <4>2. w = Cargo /\ p # Venv
        BY <1>2, <1>3, <1>5, <3>3, <3>5 DEF SourceOK, Has
      <4>3. /\ DOMAIN d \ {Venv} = DOMAIN Cargo \ rest
            /\ \A q \in DOMAIN Cargo \ rest : d[q] = Cargo[q]
        BY <1>2, <1>5, <2>1, <4>1, <4>2 DEF rest
      <4> QED
        BY <1>1, <2>4, <3>3, <3>4, <4>3 DEF Laid
    <3>6. InstOK'
      <4>1. inst'.stash \in BOOLEAN
        BY <3>3 DEF InstallInv, InstOK
      <4>2. rest \subseteq DOMAIN inst.source
        BY <1>2 DEF rest
      <4> QED
        BY <1>1, <1>2, <2>4, <3>2, <3>3, <3>4, <3>5, <4>1, <4>2 DEF InstOK
    <3> QED
      BY <2>4, <2>5, <3>6 DEF InstallInv
  <2> QED
    BY <2>6, <2>7
<1> QED
  BY <1>4, <1>5 DEF Copy

LEMMA SetupKeeps == ASSUME InstallInv, Setup PROVE InstallInv'
<1> DEFINE d == Put(Station, Venv, TRUE)
<1>1. /\ inst.at = Idle /\ StationIs(d) /\ UNCHANGED <<listed, signer, pub, inst, whole>>
      /\ \E ok \in BOOLEAN : venv' = [built |-> ok, lost |-> FALSE]
  BY DEF Setup
<1>2. budget' \in [{"edits", "stops", "commands"} -> Nat]
  BY SpendKeeps DEF Setup
<1>3. StationOK(d) /\ DOMAIN d = DOMAIN Station \cup {Venv}
  BY StationFacts, StationPut
<1> HIDE DEF d
<1>4. Shelves' /\ ListedOK' /\ PubOK' /\ Station' = d /\ disk'["work"] = disk["work"]
  BY <1>1, <1>2, <1>3, Installing
<1>5. InstOK'
  <2>1. /\ inst'.at = Idle /\ DOMAIN inst' = InstFields /\ inst'.nth \in 1 .. 3
        /\ inst'.stash \in BOOLEAN /\ ~inst'.stash
        /\ inst'.bundle # Absent => BundleOK(inst'.bundle) /\ inst'.todo \subseteq DOMAIN Cargo'
    BY <1>1 DEF InstallInv, InstOK, Cargo
  <2> QED
    BY <2>1 DEF InstOK
<1>6. VenvOK'
  BY <1>1, <1>3, <1>4 DEF VenvOK, VenvKept, Has
<1> QED
  BY <1>4, <1>5, <1>6 DEF InstallInv

LEMMA InstallerStopsKeeps == ASSUME InstallInv, InstallerStops PROVE InstallInv'
<1> DEFINE lost == venv.lost \/ inst.stash
<1>1. /\ inst' = NoInst /\ venv' = [venv EXCEPT !.lost = lost]
      /\ UNCHANGED <<disk, listed, signer, pub, whole>>
  BY DEF InstallerStops
<1>2. budget' \in [{"edits", "stops", "commands"} -> Nat]
  BY SpendKeeps DEF InstallerStops
<1>3. Shelves' /\ ListedOK' /\ PubOK' /\ Station' = Station
  BY <1>1, <1>2, StationFacts, Installing
<1>4. InstOK'
  BY <1>1, EndsOK
<1>5. VenvOK
  BY DEF InstallInv
<1>6. DOMAIN venv' = {"built", "lost"} /\ venv'.built = venv.built /\ venv'.lost = lost
  BY <1>1, <1>5, Zenon DEF VenvOK
<1>7. VenvOK'
  BY <1>3, <1>5, <1>6 DEF VenvOK, VenvKept
<1> QED
  BY <1>3, <1>4, <1>7 DEF InstallInv

LEMMA InstallNextKeeps == ASSUME InstallInv, [InstallNext]_ivars PROVE InstallInv'
<1>1. CASE UNCHANGED ivars
  <2>1. UNCHANGED <<disk, listed, signer, pub, inst, budget, whole, venv>>
    BY <1>1 DEF ivars
  <2>2. Shelves' /\ InstOK' /\ VenvOK'
    BY <2>1, PublisherReads DEF InstallInv, Shelves
  <2>3. PubOK' /\ ListedOK'
    BY <2>1, PubFrame
  <2> QED
    BY <2>2, <2>3 DEF InstallInv
<1>2. CASE InstallNext
  BY <1>2, EditKeeps, SignKeeps, SignOpensManifestKeeps, SignWritesManifestKeeps,
     SignWalksKeeps, SignOpensSigKeeps, SignWritesSigKeeps, PublishKeeps,
     PublishReadsHandlerKeeps, PublishReadsSigKeeps, PublishWalksKeeps, PublishPostsKeeps,
     AcceptUnpacksKeeps, InstallKeeps, InstallFromPathKeeps, WipeKeeps, WipeFailsKeeps,
     RestoreKeeps, ExtractKeeps, ExtractFailsKeeps, OpenKeeps, WriteStringKeeps, CopyKeeps,
     SetupKeeps, InstallerStopsKeeps, PublisherStopsKeeps, SignerStopsKeeps
     DEF InstallNext
<1> QED
  BY <1>1, <1>2

LEMMA InstallInvariance == InstallSpec => []InstallInv
<1>1. InstallInv /\ [InstallNext]_ivars => InstallInv'
  BY InstallNextKeeps
<1> QED
  BY <1>1, InstallInitHolds, PTL DEF InstallSpec

\* A station accepts a tree if and only if the handler beside it is the one in it.
LEMMA TreeVerdict ==
  ASSUME NEW b, BundleOK(b), b.manifest.version >= 2
  PROVE  Verify(Unpacked(b)) <=> b.handler_py = b.files[Handler]
<1> DEFINE u == Unpacked(b)
           f == b.files
           m == b.manifest
<1>1. /\ m \in Manifests /\ b.handler_py \in Handlers /\ SourceOK(f) /\ ~Has(f, Sig)
      /\ f[ModuleJson] = m /\ b.sig = SignWith(m.key, m, b.handler_py, f)
  BY DEF BundleOK
<1>2. /\ IsDir(u) /\ DOMAIN u = DOMAIN f \cup {ModuleJson, Handler, Sig}
      /\ u[ModuleJson] = m /\ u[Handler] = b.handler_py /\ u[Sig] = b.sig
      /\ \A p \in DOMAIN f : p \notin {ModuleJson, Handler, Sig} => u[p] = f[p]
  BY UnpackedFacts
<1> HIDE DEF u, f, m
<1>3. IsDir(f) /\ {ModuleJson, Handler} \subseteq DOMAIN f /\ Sig \notin DOMAIN f
  BY <1>1 DEF SourceOK, Has
<1>4. SourceOK(u)
  BY <1>1, <1>2, <1>3 DEF SourceOK, Has, ModuleJson, Handler, Sig, Sibling
<1>5. /\ IsDir(Tree(u)) /\ DOMAIN Tree(u) = DOMAIN f
      /\ \A p \in DOMAIN f : Tree(u)[p] = u[p]
  <2>1. DOMAIN u \ {Sig} = DOMAIN f
    BY <1>2, <1>3 DEF ModuleJson, Handler, Sig
  <2> QED
    BY <1>4, <2>1, TreeOfSource
<1>6. Tree(u) = f <=> b.handler_py = f[Handler]
  <2>1. ASSUME b.handler_py = f[Handler] PROVE Tree(u) = f
    <3>1. \A p \in DOMAIN f : Tree(u)[p] = f[p]
      BY <1>1, <1>2, <1>3, <1>5, <2>1
    <3> QED
      BY <1>3, <1>5, <3>1, SameFiles
  <2>2. ASSUME Tree(u) = f PROVE b.handler_py = f[Handler]
    BY <1>2, <1>3, <1>5, <2>2
  <2> QED
    BY <2>1, <2>2
<1>7. Reads(u) /\ Has(u, Sig)
  <2>1. m.version > 0
    BY <1>1 DEF Manifests
  <2> QED
    BY <1>2, <2>1 DEF Reads, Has
<1>8. Verify(u) <=> b.sig = SignWith(m.key, m, b.handler_py, Tree(u))
  BY <1>2, <1>7 DEF Verify
<1>9. b.sig = SignWith(m.key, m, b.handler_py, Tree(u)) <=> Tree(u) = f
  <2>1. m.version >= 2
    BY DEF m
  <2>2. \A t : SignWith(m.key, m, b.handler_py, t).over = <<m, t>>
    BY <2>1 DEF SignWith, SignedBytes
  <2> QED
    BY <1>1, <2>2
<1> QED
  BY <1>6, <1>8, <1>9 DEF u, f

LEMMA InstallInvSigned == InstallInv => PublishedIsSigned
<1> SUFFICES ASSUME InstallInv PROVE PublishedIsSigned
  OBVIOUS
<1>1. InstallTypeOK
  <2>1. DOMAIN disk = {"work", "temp", "station"}
    BY DEF InstallInv, Shelves
  <2>2. \A place \in DOMAIN disk :
           StationOK(disk[place]) /\ (Has(disk[place], Venv) => place = "station")
    BY StationOfSource, StationEmpty DEF InstallInv, Shelves, Has
  <2>3. \A place \in DOMAIN disk :
           LET d == disk[place]
           IN  /\ DOMAIN d \subseteq Range(Paths)
               /\ Has(d, ModuleJson) => d[ModuleJson] \in Manifests \cup {Empty[ModuleJson]}
               /\ Has(d, Handler) => d[Handler] \in Handlers \cup {Empty[Handler]}
               /\ Has(d, Sibling) => d[Sibling] \in 1 .. 2
               /\ Has(d, Venv) => place = "station"
    BY <2>2, PathSet DEF StationOK
  <2>4. listed # Absent =>
           listed.manifest \in Manifests /\ DOMAIN listed.files \subseteq Range(Paths) \ {Sig, Venv}
    BY BundleFacts, PathSet DEF InstallInv, ListedOK
  <2>5. pub.at = "publish_post" => pub.manifest.key = "mine"
    BY DEF InstallInv, PubOK, ReadOK
  <2>6. inst.stash => inst.at \in {"wipe", "restore"} /\ ~Has(Station, Venv)
    BY DEF InstallInv, InstOK
  <2>7. \A what \in DOMAIN budget : budget[what] \in Nat
    BY DEF InstallInv, Shelves
  <2> QED
    BY <2>1, <2>3, <2>4, <2>5, <2>6, <2>7 DEF InstallTypeOK
<1>2. ASSUME listed # Absent
      PROVE  /\ whole => Verify(Unpacked(listed)) \/ listed.sig.over[2][Handler].crlf
             /\ listed.manifest.version >= 2 =>
                   /\ listed.sig = SignWith(listed.manifest.key, listed.manifest,
                                            listed.handler_py, listed.files)
                   /\ Verify(Unpacked(listed)) <=> listed.handler_py = listed.files[Handler]
  <2>1. BundleOK(listed) /\ (whole => Good(listed))
    BY <1>2 DEF InstallInv, ListedOK
  <2> QED
    BY <2>1, TreeVerdict DEF Good, BundleOK
<1> QED
  BY <1>1, <1>2 DEF PublishedIsSigned

----------------------------------------------------------------------------
(* A finished command.                                                      *)

LEMMA InstallLands ==
  ASSUME InstallInv, WriteString, inst'.at = Idle, inst.sound
  PROVE  Without(Station', {Venv}) = Unpacked(inst.bundle)
<1> DEFINE p == Canonical[inst.nth]
           u == Unpacked(inst.bundle)
           d == Put(Station, p, u[p])
<1>1. /\ inst.at = "write" /\ StationIs(d)
      /\ inst' = IF inst.nth = Len(Canonical) THEN NoInst
                 ELSE [inst EXCEPT !.at = "open", !.nth = inst.nth + 1]
  BY DEF WriteString
<1>2. /\ DOMAIN inst = InstFields /\ inst.nth \in 1 .. 3 /\ Laid
      /\ BundleOK(inst.bundle) /\ Cargo = inst.bundle.files
  BY <1>1, LayingFacts
<1>3. inst.nth = 3
  <2>1. CASE inst.nth # 3
    <3>1. inst' = [inst EXCEPT !.at = "open", !.nth = inst.nth + 1]
      BY <1>1, <2>1, CanonicalFiles
    <3>2. inst'.at = "open"
      BY <1>2, <3>1, LayUpdates
    <3> QED
      BY <3>2
  <2> QED
    BY <2>1
<1>4. p = Sig
  BY <1>3, CanonicalFiles
<1>5. /\ DOMAIN Station \ {Venv} = DOMAIN Cargo \cup {ModuleJson, Handler, Sig}
      /\ \A q \in DOMAIN Station \ {Venv, Sig} :
            Station[q] = IF q \in {ModuleJson, Handler} THEN u[q] ELSE Cargo[q]
  BY <1>1, <1>2, <1>3, WrittenFiles, CanonicalFiles DEF Laid
<1>6. /\ IsDir(u) /\ DOMAIN u = DOMAIN Cargo \cup {ModuleJson, Handler, Sig}
      /\ \A q \in DOMAIN Cargo : q \notin {ModuleJson, Handler, Sig} => u[q] = Cargo[q]
  BY <1>2, UnpackedFacts
<1> HIDE DEF p, u
<1>7. /\ DOMAIN d = DOMAIN Station \cup {p} /\ d[p] = u[p]
      /\ \A q \in DOMAIN Station : q # p => d[q] = Station[q]
  BY DEF Put
<1>8. Station' = d
  BY <1>1 DEF InstallInv, Shelves, StationIs, Station
<1> HIDE DEF d
<1> DEFINE e == Without(d, {Venv})
<1>9. IsDir(e) /\ DOMAIN e = DOMAIN d \ {Venv} /\ \A q \in DOMAIN d \ {Venv} : e[q] = d[q]
  BY WithoutFacts
<1> HIDE DEF e
<1>10. DOMAIN e = DOMAIN u
  BY <1>4, <1>5, <1>6, <1>7, <1>9
<1>11. \A q \in DOMAIN e : e[q] = u[q]
  BY <1>4, <1>5, <1>6, <1>7, <1>9
<1>12. e = u
  BY <1>6, <1>9, <1>10, <1>11, SameFiles
<1> QED
  BY <1>8, <1>12 DEF e, u

\* What verifies, verifies with a .venv beside it that is no part of the tree.
LEMMA VerifiesBesideVenv ==
  ASSUME NEW d, NEW s, SourceOK(s), Verify(s), Without(d, {Venv}) = s
  PROVE  Verify(d) \/ Has(Tree(d), Venv)
<1> SUFFICES ASSUME ~Has(Tree(d), Venv) PROVE Verify(d)
  OBVIOUS
<1>1. DOMAIN s = DOMAIN d \ {Venv} /\ \A q \in DOMAIN d \ {Venv} : s[q] = d[q]
  BY WithoutFacts
<1>2. /\ Reads(s) /\ Has(s, Sig)
      /\ s[Sig] = SignWith(s[ModuleJson].key, s[ModuleJson], s[Handler], Tree(s))
  BY DEF Verify
<1>3. /\ ModuleJson \in DOMAIN s /\ Handler \in DOMAIN s /\ Sig \in DOMAIN s
  BY <1>2 DEF Reads, Has
<1>4. d[ModuleJson] = s[ModuleJson] /\ d[Handler] = s[Handler] /\ d[Sig] = s[Sig]
  BY <1>1, <1>3
<1>5. Reads(d) /\ Has(d, Sig)
  BY <1>1, <1>2, <1>3, <1>4 DEF Reads, Has
<1>6. /\ IsDir(Tree(s)) /\ DOMAIN Tree(s) = DOMAIN s \ {Sig}
      /\ \A q \in DOMAIN s \ {Sig} : Tree(s)[q] = s[q]
  BY TreeOfSource
<1> DEFINE out == {q \in DOMAIN d : Ignored(d, q)}
<1>7. /\ IsDir(Tree(d)) /\ DOMAIN Tree(d) = DOMAIN d \ out
      /\ \A q \in DOMAIN d \ out : Tree(d)[q] = d[q]
  BY WithoutFacts DEF Tree
<1>8. DOMAIN d \ out = DOMAIN s \ {Sig}
  <2>1. Venv \notin DOMAIN d \ out
    BY <1>7 DEF Has
  <2>2. \A q \in DOMAIN d : q \notin {Sig, Venv} => q \notin out
    BY DEF Ignored
  <2>3. Sig \notin DOMAIN d \ out
    BY DEF Ignored
  <2> HIDE DEF out
  <2> QED
    BY <1>1, <2>1, <2>2, <2>3
<1> HIDE DEF out
<1>9. Tree(d) = Tree(s)
  BY <1>1, <1>6, <1>7, <1>8, SameFiles
<1> QED
  BY <1>2, <1>4, <1>5, <1>9 DEF Verify

LEMMA CopyLands ==
  ASSUME InstallInv, Copy, inst'.at = Idle, inst.sound
  PROVE  Without(Station', {Venv}) = inst.source
<1> DEFINE w == disk["work"]
           s == inst.source
<1>1. inst.at = "copy"
  BY DEF Copy
<1>2. /\ DOMAIN inst = InstFields /\ SourceOK(s) /\ Cargo = s /\ w = s
      /\ inst.todo \subseteq DOMAIN s /\ Laid
  BY <1>1, LayingFacts
<1>3. PICK p \in inst.todo :
        /\ StationIs(Put(Station, p, w[p]))
        /\ inst' = IF inst.todo = {p} THEN NoInst
                   ELSE [inst EXCEPT !.todo = inst.todo \ {p}]
  BY <1>2 DEF Copy, Has
<1>4. inst.todo = {p}
  <2>1. CASE inst.todo # {p}
    <3>1. inst' = [inst EXCEPT !.todo = inst.todo \ {p}]
      BY <1>3, <2>1
    <3>2. inst'.at = "copy"
      BY <1>1, <1>2, <3>1, LayUpdates
    <3> QED
      BY <3>2
  <2> QED
    BY <2>1
<1>5. /\ DOMAIN Station \ {Venv} = DOMAIN s \ {p}
      /\ \A q \in DOMAIN s \ {p} : Station[q] = s[q]
  BY <1>1, <1>2, <1>4 DEF Laid
<1> DEFINE d == Put(Station, p, w[p])
           e == Without(d, {Venv})
<1>6. /\ DOMAIN d = DOMAIN Station \cup {p} /\ d[p] = w[p]
      /\ \A q \in DOMAIN Station : q # p => d[q] = Station[q]
  BY DEF Put
<1>7. Station' = d
  BY <1>3 DEF InstallInv, Shelves, StationIs, Station
<1> HIDE DEF d
<1>8. IsDir(e) /\ DOMAIN e = DOMAIN d \ {Venv} /\ \A q \in DOMAIN d \ {Venv} : e[q] = d[q]
  BY WithoutFacts
<1> HIDE DEF e
<1>9. p \in DOMAIN s /\ p # Venv /\ IsDir(s)
  BY <1>2, <1>4 DEF SourceOK
<1>10. DOMAIN e = DOMAIN s
  BY <1>5, <1>6, <1>8, <1>9
<1>11. \A q \in DOMAIN e : e[q] = s[q]
  BY <1>2, <1>5, <1>6, <1>8, <1>9
<1>12. e = s
  BY <1>8, <1>9, <1>10, <1>11, SameFiles
<1> QED
  BY <1>7, <1>12 DEF e

LEMMA SpendShows ==
  ASSUME InstallInv, NEW what \in {"edits", "stops", "commands"}, Spend(what)
  PROVE  budget' # budget
<1>1. budget[what] \in Nat /\ budget' = [budget EXCEPT ![what] = budget[what] - 1]
  BY DEF InstallInv, Shelves, Spend
<1>2. budget'[what] = budget[what] - 1
  BY <1>1 DEF InstallInv, Shelves
<1> QED
  BY <1>1, <1>2

\* No other step ends a command that lays files down.
LEMMA Finishing ==
  ASSUME InstallInv, [InstallNext]_ivars, inst.at \in {"write", "copy"}, inst'.at = Idle,
         budget' = budget
  PROVE  WriteString \/ Copy
<1>1. DOMAIN inst = InstFields
  BY DEF InstallInv, InstOK
<1>2. ASSUME NEW d, Changes(d) PROVE FALSE
  <2> DEFINE sound == inst.sound /\ inst.at = Idle
  <2>1. inst' = [inst EXCEPT !.sound = sound]
    BY <1>2 DEF Changes
  <2>2. inst'.at = inst.at
    BY <1>1, <2>1, Zenon DEF InstFields
  <2> QED
    BY <2>2
<1>3. inst' # inst
  OBVIOUS
<1>4. ~Edit /\ ~Sign /\ ~Publish /\ ~AcceptUnpacks /\ ~PublisherStops /\ ~SignerStops
  BY SpendShows DEF Edit, Sign, Publish, AcceptUnpacks, PublisherStops, SignerStops
<1>5. ~Install /\ ~InstallFromPath /\ ~WipeFails /\ ~ExtractFails /\ ~Setup /\ ~InstallerStops
  BY SpendShows DEF Install, InstallFromPath, WipeFails, ExtractFails, Setup, InstallerStops
<1>6. ~SignOpensManifest /\ ~SignWritesManifest /\ ~SignOpensSig /\ ~SignWritesSig
  BY <1>2 DEF SignOpensManifest, SignWritesManifest, SignOpensSig, SignWritesSig, Write
<1>7. /\ ~SignWalks /\ ~PublishAccepted /\ ~PublishReadsHandler /\ ~PublishReadsSig
      /\ ~PublishWalks /\ ~PublishPosts
  BY <1>3 DEF SignWalks, PublishAccepted, PublishReadsHandler, PublishReadsSig, PublishWalks,
              PublishPosts
<1>8. ~Wipe /\ ~Restore /\ ~Extract /\ ~Open
  BY DEF Wipe, Restore, Extract, Open
<1>9. ~UNCHANGED ivars
  BY <1>3 DEF ivars
<1> QED
  BY <1>4, <1>5, <1>6, <1>7, <1>8, <1>9 DEF InstallNext

LEMMA StepLands ==
  ASSUME InstallInv, [InstallNext]_ivars, inst.sound
  PROVE  /\ Finishes("write") => Without(Station', {Venv}) = Unpacked(inst.bundle)
         /\ Finishes("copy") =>
               /\ Without(Station', {Venv}) = inst.source
               /\ Verify(Station') \/ Has(Tree(Station'), Venv)
<1>1. ASSUME Finishes("write")
      PROVE  Without(Station', {Venv}) = Unpacked(inst.bundle)
  <2>1. inst.at = "write" /\ inst'.at = Idle /\ budget' = budget
    BY <1>1 DEF Finishes
  <2>2. WriteString
    BY <2>1, Finishing DEF Copy
  <2> QED
    BY <2>1, <2>2, InstallLands
<1>2. ASSUME Finishes("copy")
      PROVE  /\ Without(Station', {Venv}) = inst.source
             /\ Verify(Station') \/ Has(Tree(Station'), Venv)
  <2>1. inst.at = "copy" /\ inst'.at = Idle /\ budget' = budget
    BY <1>2 DEF Finishes
  <2>2. Copy
    BY <2>1, Finishing DEF WriteString
  <2>3. Without(Station', {Venv}) = inst.source
    BY <2>1, <2>2, CopyLands
  <2>4. SourceOK(inst.source) /\ Verify(inst.source)
    BY <2>1, LayingFacts
  <2> QED
    BY <2>3, <2>4, VerifiesBesideVenv
<1> QED
  BY <1>1, <1>2

\* Whatever is edited, signed again or left half written between the reads of a publish,
\* a tree that is listed carries the signature over it; the station accepts it if and only
\* if the handler listed beside it is the signed one, as it is when the directory verified
\* and stayed as it was (cmd_market_publish, _module_bundle_verify_offline).
THEOREM ListedIsSigned == InstallSpec => []PublishedIsSigned
<1>1. InstallInv => PublishedIsSigned
  BY InstallInvSigned
<1> QED
  BY <1>1, InstallInvariance, PTL

\* A .venv that was built is in the station, or moved out of the way, or was lost to a
\* command that stopped or an archive that turned out damaged (_preserve_venv).
THEOREM VenvSurvives == InstallSpec => []VenvKept
<1>1. InstallInv => VenvKept
  BY DEF InstallInv, VenvOK
<1> QED
  BY <1>1, InstallInvariance, PTL

\* What a command leaves when it ends by itself is what it was to install, over whatever
\* was there, and the loader accepts what --from-path leaves (_cmd_market_install,
\* _market_install_from_path).
THEOREM InstallLandsIt == InstallSpec => LandsWhatWasMeant
<1>1. InstallInv /\ [InstallNext]_ivars =>
        [ inst.sound =>
            /\ Finishes("write") => Without(Station', {Venv}) = Unpacked(inst.bundle)
            /\ Finishes("copy") =>
                  /\ Without(Station', {Venv}) = inst.source
                  /\ Verify(Station') \/ Has(Tree(Station'), Venv) ]_ivars
  BY StepLands
<1> QED
  BY <1>1, InstallInvariance, PTL DEF InstallSpec, LandsWhatWasMeant

=============================================================================

----------------------------- MODULE OAuthCapture -----------------------------
(***************************************************************************)
(* _oauth_capture_code: a listener on the loopback interface, run by a      *)
(* thread of its own, that takes one connection at a time; and the wizard's *)
(* thread, which waits for the first GET or for five minutes and then asks  *)
(* the listener to stop.  The listener looks at that wish only between two  *)
(* connections.                                                             *)
(***************************************************************************)
EXTENDS Naturals

CONSTANT MaxConnections    \* bound on the connections one wait meets

ASSUME CaptureAssumption == MaxConnections \in Nat

\* Redirects with a code: of this wizard's consent and of another one, in a tab
\* left from a wizard before.  No state parameter tells them apart.
Codes == {"consent", "stale"}

\* What else comes in over a connection: a redirect with an error, a GET of
\* another shape (a favicon, a prefetch), another method, or nothing for as long
\* as the other side likes.
Connections == Codes \cup {"denied", "stray", "post", "silent"}

VARIABLES
    wizard,       \* where the wizard is
    asked,        \* whether the listener has been asked to stop
    serving,      \* the connection being served, or "none"
    connections,  \* taken so far
    holder,       \* what the handler leaves for the wizard
    got,          \* the code the wizard has got from it
    shown         \* the codes whose page says that they are exchanged (history)

capture == <<asked, serving, connections, holder, got, shown>>

Nothing == [code |-> "none", error |-> "none"]

CaptureInit ==
    /\ asked = FALSE
    /\ serving = "none"
    /\ connections = 0
    /\ holder = Nothing
    /\ got = "none"
    /\ shown = {}

Goto(from, to) == wizard = from /\ wizard' = to

Listen ==
    /\ Goto("asking", "waiting")
    /\ UNCHANGED capture

Listening == wizard \in {"waiting", "stopping"}

Connect ==
    /\ Listening
    /\ ~asked
    /\ serving = "none"
    /\ connections < MaxConnections
    /\ connections' = connections + 1
    /\ serving' \in Connections
    /\ UNCHANGED <<wizard, asked, holder, got, shown>>

Handle_LastOneWins ==
    /\ serving \notin {"none", "silent"}
    /\ holder' =
         IF serving \in Codes THEN [Nothing EXCEPT !.code = serving]
         ELSE IF serving = "post" THEN holder ELSE [Nothing EXCEPT !.error = serving]
    /\ shown' = shown \cup ({serving} \cap Codes)
    /\ serving' = "none"
    /\ UNCHANGED <<wizard, asked, connections, got>>

\* do_GET; there is no do_POST.
Handle ==
    /\ serving \notin {"none", "silent"}
    /\ holder' =
         IF serving \in Codes THEN [holder EXCEPT !.code = serving]
         ELSE IF serving = "post" THEN holder ELSE [holder EXCEPT !.error = serving]
    /\ shown' = shown \cup ({serving} \cap Codes)
    /\ serving' = "none"
    /\ UNCHANGED <<wizard, asked, connections, got>>

HangsUp ==
    /\ serving = "silent"
    /\ serving' = "none"
    /\ UNCHANGED <<wizard, asked, connections, holder, got, shown>>

Done == holder # Nothing

\* done.wait returns at the first GET that was handled or after the timeout.
Wake ==
    /\ Done
    /\ Goto("waiting", "stopping")
    /\ UNCHANGED capture

Timeout_OnlyWhenQuiet ==
    /\ connections = 0
    /\ Goto("waiting", "stopping")
    /\ UNCHANGED capture

Timeout ==
    /\ ~Done
    /\ Goto("waiting", "stopping")
    /\ UNCHANGED capture

\* server.shutdown sets the wish and waits for the listener to see it.
Shutdown ==
    /\ wizard = "stopping"
    /\ ~asked
    /\ asked' = TRUE
    /\ UNCHANGED <<wizard, serving, connections, holder, got, shown>>

\* A code counts, whatever else has come in.
Closed ==
    /\ asked
    /\ serving = "none"
    /\ Goto("stopping", IF holder.code \in Codes THEN "exchanging" ELSE "failed")
    /\ got' = holder.code
    /\ asked' = FALSE
    /\ connections' = 0
    /\ holder' = Nothing
    /\ UNCHANGED <<serving, shown>>

\* The pages are forgotten with the wizard that waited for them.
Forget ==
    /\ shown' = {} /\ got' = "none"
    /\ UNCHANGED <<asked, serving, connections, holder>>

CaptureNext ==
    Listen \/ Connect \/ Handle \/ HangsUp \/ Wake \/ Timeout \/ Shutdown \/ Closed

\* The two threads run, and time passes.
CaptureFairness ==
    /\ WF_<<wizard, capture>>(Handle)
    /\ WF_<<wizard, capture>>(Wake \/ Timeout)
    /\ WF_<<wizard, capture>>(Shutdown)
    /\ WF_<<wizard, capture>>(Closed)

----------------------------------------------------------------------------
(* Properties.                                                              *)

CaptureTypeOK ==
    /\ asked \in BOOLEAN
    /\ serving \in Connections \cup {"none"}
    /\ connections \in 0 .. MaxConnections
    /\ holder \in [code : Codes \cup {"none"}, error : {"denied", "stray", "none"}]
    /\ got \in Codes \cup {"none"}
    /\ shown \subseteq Codes

\* "You can close this tab and return to your terminal - the refresh token is
\* being exchanged" (the page _oauth_capture_code shows): a wizard whose
\* browser was told so goes on to the exchange, of a code it was told that of,
\* whatever requests came before and after the redirect.
ShownIsExchanged ==
    /\ shown # {} => wizard # "failed"
    /\ wizard = "exchanging" => got \in shown

\* "If the user never completes consent, we don't hang the terminal forever"
\* (_oauth_capture_code): every wait ends, unless a connection that says nothing
\* is never given up by the one who opened it.
CaptureEnds ==
    []<>(serving # "silent") => (wizard = "waiting" ~> wizard \in {"exchanging", "failed"})

(* Claims the code does not keep.                                           *)

\* The same without the condition: Closed waits for the handler, which has no
\* timeout.
CaptureAlwaysEnds == wizard = "waiting" ~> wizard \in {"exchanging", "failed"}

\* A second code that comes in before the listener has stopped takes the place
\* of the first, whose page says that it is being exchanged (Handle).
EachShownIsExchanged == wizard = "exchanging" => shown = {got}

\* "Wait for the OAuth redirect" (_oauth_capture_code): any GET ends the wait.
WaitsForTheRedirect ==
    [][wizard = "waiting" /\ wizard' = "stopping" => holder \notin [code : {"none"}, error : {"stray"}]]_wizard
=============================================================================

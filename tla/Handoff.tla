------------------------------- MODULE Handoff -------------------------------
(***************************************************************************)
(* The web tier's channel to the daemon: the calls a page makes            *)
(* (backend/custody/handoff.py, and what frontend/web_server.py does with  *)
(* each answer) and the socket they are answered on                        *)
(* (backend/custody/handoff_server.py), its mode and its path              *)
(* (backend/paths.py).                                                     *)
(*                                                                         *)
(* What an operation does is in the modules of the parts it belongs to;    *)
(* here a handler has done nothing, something or the whole of it.          *)
(***************************************************************************)
EXTENDS Naturals, FiniteSets

CONSTANTS
  Calls,       \* a connection each
  Ops,         \* the operations asked for
  None,
  BACKLOG,
  MaxDeaths    \* bound

Uids == {"mail", "web", "root", "other"}

HandoffAssumption ==
  /\ None \notin Calls \cup Ops \cup Uids \cup {"private"}
  /\ BACKLOG \in Nat /\ MaxDeaths \in Nat

\* What a handler of the operation may refuse with.
OfAccount == {"voice-start", "checkout-url", "checkout-confirm", "portal-url"}
OfPolar   == {"checkout-confirm", "portal-url"}
OfChat    == {"chat-begin", "chat-finish"}
Refusals(op) ==
  (IF op \in OfAccount THEN {404} ELSE {}) \cup (IF op \in OfPolar THEN {503} ELSE {})
  \cup (IF op \in OfChat THEN {409} ELSE {})
  \cup (IF op = "sign-in" THEN {400, 403, 502, 503} ELSE {})

RENDERABLE_CODE == 409

VARIABLES
  webUser,   \* the web tier's account exists on this box
  step,      \* of the listener: "down", "unlink", "bind", "chmod", "listen",
             \* "serving", or "dead" in a daemon that goes on without it
  path,      \* the socket's file exists
  admits,    \* the uids its mode lets connect
  deaths,
  \* by call
  op, uid,
  caller,    \* "idle", "waiting", "unavailable", "answered", "refused"
  conn,      \* "none", "queued", "read", "running", "gone"
  done,      \* what the handler has done: "nothing", "part", "all"
  page       \* what the browser was shown of it

listener == <<step, path, admits, deaths>>
vars == <<webUser, listener, op, uid, caller, conn, done, page>>

All(v) == [k \in Calls |-> v]

Init ==
  /\ webUser \in BOOLEAN
  /\ step = "down" /\ path \in BOOLEAN /\ admits = {} /\ deaths = 0
  /\ op = All(None) /\ uid = All(None) /\ caller = All("idle") /\ conn = All("none")
  /\ done = All("nothing") /\ page = All(None)

-----------------------------------------------------------------------------
\* The listener.

Start == step = "down" /\ step' = "unlink" /\ UNCHANGED <<path, admits, deaths>>

\* A path left by a daemon that was killed is taken away first.
Unlink == step = "unlink" /\ step' = "bind" /\ path' = FALSE /\ UNCHANGED <<admits, deaths>>

Bind ==
  /\ step = "bind" /\ ~path /\ step' = "chmod" /\ path' = TRUE /\ admits' = {"mail"}
  /\ UNCHANGED deaths

\* The mode: the mail account's alone on a laptop, the shared group's on a box,
\* and anybody's where the group or the directory is not what it should be.
Chmod ==
  /\ step = "chmod" /\ step' = "listen"
  /\ admits' \in {{"mail"}, {"mail", "web"}, Uids}
  /\ UNCHANGED <<path, deaths>>

Listen == step = "listen" /\ step' = "serving" /\ UNCHANGED <<path, admits, deaths>>

\* A step that fails, or a thread that cannot be started for a connection, ends
\* the listener's thread and its socket, and nothing else of the daemon.
Deafen ==
  /\ step \notin {"down", "dead"} /\ step' = "dead"
  /\ conn' = [k \in Calls |-> IF conn[k] = "queued" THEN "gone" ELSE conn[k]]
  /\ UNCHANGED <<webUser, path, admits, deaths, op, uid, caller, done, page>>

Die ==
  /\ step # "down" /\ deaths < MaxDeaths
  /\ step' = "down" /\ deaths' = deaths + 1
  /\ conn' = [k \in Calls |-> IF conn[k] = "none" THEN "none" ELSE "gone"]
  /\ UNCHANGED <<webUser, path, admits, op, uid, caller, done, page>>

ListenerStep ==
  /\ Start \/ Unlink \/ Bind \/ Chmod \/ Listen
  /\ UNCHANGED <<webUser, op, uid, caller, conn, done, page>>

-----------------------------------------------------------------------------
\* The caller: one request, one answer, and no second try.

\* The mode stops everybody but root.
Reachable(u) == step = "serving" /\ u \in admits \cup {"root"}
                /\ Cardinality({k \in Calls : conn[k] = "queued"}) <= BACKLOG

Call(k, o, u) ==
  /\ caller[k] = "idle" /\ (u = "web" => webUser)
  /\ op' = [op EXCEPT ![k] = o] /\ uid' = [uid EXCEPT ![k] = u]
  /\ IF Reachable(u)
     THEN /\ caller' = [caller EXCEPT ![k] = "waiting"]
          /\ conn' = [conn EXCEPT ![k] = "queued"] /\ UNCHANGED page
     ELSE /\ caller' = [caller EXCEPT ![k] = "unavailable"]
          /\ page' = [page EXCEPT ![k] = "sentence"] /\ UNCHANGED conn
  /\ UNCHANGED <<webUser, listener, done>>

\* The daemon closed, or ninety seconds passed: the daemon is not told, and
\* what it has read or will read of the request it still carries out.
GiveUp(k) ==
  /\ caller[k] = "waiting"
  /\ caller' = [caller EXCEPT ![k] = "unavailable"]
  /\ page' = [page EXCEPT ![k] = "sentence"]
  /\ UNCHANGED <<webUser, listener, op, uid, conn, done>>

\* What a page does with a refusal: a few show the text of those that may be
\* shown, most say something of their own, and the ones that count on none are
\* cut off.
UncaughtBy(o) == o \in {"voice-start", "voice-status", "voice-clear", "providers"}
Refusal(o, code, text) ==
  IF UncaughtBy(o) THEN "dropped"
  ELSE IF o \in OfChat /\ code = RENDERABLE_CODE THEN text ELSE "sentence"

-----------------------------------------------------------------------------
\* A connection, in its own thread of the daemon.

\* The second check of what the socket's mode says already.
MayConnectAny(u) == u \in Uids
MayConnect(u) == u = "mail" \/ (webUser /\ u = "web")

Goes(k) == conn' = [conn EXCEPT ![k] = "gone"]

Accept(k) ==
  /\ step = "serving" /\ conn[k] = "queued"
  /\ IF MayConnect(uid[k]) THEN conn' = [conn EXCEPT ![k] = "read"] ELSE Goes(k)
  /\ UNCHANGED <<webUser, listener, op, uid, caller, done, page>>

\* The line arrives, or the peer says nothing, or too much, or nothing sensible.
ReadLine(k) ==
  /\ conn[k] = "read"
  /\ conn' = [conn EXCEPT ![k] = "running"] \/ Goes(k)
  /\ UNCHANGED <<webUser, listener, op, uid, caller, done, page>>

Act(k) ==
  /\ conn[k] = "running" /\ done[k] = "nothing"
  /\ done' = [done EXCEPT ![k] = "part"]
  /\ UNCHANGED <<webUser, listener, op, uid, caller, conn, page>>

\* The answer reaches the caller if it is still there.
Tell(k, heard, shown) ==
  /\ Goes(k)
  /\ IF caller[k] = "waiting"
     THEN caller' = [caller EXCEPT ![k] = heard] /\ page' = [page EXCEPT ![k] = shown]
     ELSE UNCHANGED <<caller, page>>

Return(k) ==
  /\ conn[k] = "running" /\ done' = [done EXCEPT ![k] = "all"]
  /\ \/ Tell(k, "answered", "answer")
     \/ Goes(k) /\ UNCHANGED <<caller, page>>    \* an answer over MAX_BODY
  /\ UNCHANGED <<webUser, listener, op, uid>>

\* A refusal is raised before anything is changed.  The text of a refused
\* change is looked up among those a user may see, and one that is not there
\* ends the thread.
Refuse(k) ==
  /\ conn[k] = "running" /\ done[k] = "nothing"
  /\ \E code \in Refusals(op[k]) :
       \/ Tell(k, "refused", Refusal(op[k], code, IF code = RENDERABLE_CODE THEN "vetted" ELSE "private"))
       \/ code = RENDERABLE_CODE /\ Goes(k) /\ UNCHANGED <<caller, page>>
  /\ UNCHANGED <<webUser, listener, op, uid, done>>

\* Anything else a handler raises, wherever it had got to: 400 for a TypeError,
\* 500 for the rest.
Fail(k) ==
  /\ conn[k] = "running"
  /\ \E code \in {400, 500} : Tell(k, "failed", Refusal(op[k], code, "private"))
  /\ UNCHANGED <<webUser, listener, op, uid, done>>

Next ==
  \/ ListenerStep \/ Deafen \/ Die
  \/ \E k \in Calls :
       \/ \E o \in Ops, u \in Uids : Call(k, o, u)
       \/ GiveUp(k) \/ Accept(k) \/ ReadLine(k) \/ Act(k) \/ Return(k) \/ Refuse(k) \/ Fail(k)

Spec == Init /\ [][Next]_vars

-----------------------------------------------------------------------------
\* Every variable keeps its shape.
TypeOK ==
  /\ step \in {"down", "unlink", "bind", "chmod", "listen", "serving", "dead"}
  /\ admits \subseteq Uids /\ deaths \in 0..MaxDeaths
  /\ \A k \in Calls :
       /\ caller[k] \in {"idle", "waiting", "unavailable", "answered", "refused", "failed"}
       /\ conn[k] \in {"none", "queued", "read", "running", "gone"}
       /\ done[k] \in {"nothing", "part", "all"}
       /\ page[k] \in {None, "sentence", "vetted", "private", "answer", "dropped"}

\* Nothing is done for anybody but the two accounts the socket is for, however
\* wide its mode came out (handoff_server.py:63-85, 328-339).
OnlyTheTwo ==
  \A k \in Calls : done[k] # "nothing" => uid[k] = "mail" \/ (webUser /\ uid[k] = "web")

\* Through restarts, timeouts, a listener that died and one that is full: who is
\* told it was done has had the whole of it, who is refused has had nothing, and
\* for neither is anything done afterwards.  Only "unavailable", and a failure,
\* leave it open (handoff.py:160-177, handoff_server.py:282-322).
AnswersAreTrue ==
  \A k \in Calls :
    /\ caller[k] = "answered" => done[k] = "all"
    /\ caller[k] = "refused" => done[k] = "nothing"
    /\ caller[k] \in {"answered", "refused", "failed"} => conn[k] = "gone"
    /\ caller[k] = "unavailable" /\ conn[k] = "none" => done[k] = "nothing"

\* The browser is shown words of the daemon's only where they were written for
\* it (web_server.py:990-1005).
PageSaysVetted == \A k \in Calls : page[k] # "private"

HandoffHolds == OnlyTheTwo /\ AnswersAreTrue /\ PageSaysVetted
=============================================================================

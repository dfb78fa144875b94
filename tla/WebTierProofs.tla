--------------------------- MODULE WebTierProofs ----------------------------
(***************************************************************************)
(* What the web tier's parts promise, for every value of their constants:  *)
(* its channel to the daemon, the sessions and their cookies, the change   *)
(* of a linked chat, the audit trail of the accounts, the contact form,    *)
(* and the pending values of sign-ins and checkouts.                       *)
(*                                                                         *)
(* Each has its inductive invariant, the steps that keep it, and last the  *)
(* property of SideBySide that follows.                                    *)
(***************************************************************************)
EXTENDS SideBySide, Integers, Sequences, FiniteSetTheorems, SequenceTheorems,
        WellFoundedInduction, TLAPS

-----------------------------------------------------------------------------
\* A set of numbers has a least one, and a bounded one a greatest.
LEMMA Least ==
  ASSUME NEW T, T \subseteq Nat, T # {}
  PROVE  \E x \in T : \A y \in T : x <= y
<1>1. \E x \in T : \A y \in T : ~(<<y, x>> \in OpToRel(<, Nat))
  BY NatLessThanWellFounded, WFMin
<1>2. PICK x \in T : \A y \in T : ~(<<y, x>> \in OpToRel(<, Nat))
  BY <1>1
<1>3. \A y \in T : ~(y < x)
  BY <1>2 DEF OpToRel
<1> QED BY <1>3

LEMMA Greatest ==
  ASSUME NEW n \in Nat, NEW T, T \subseteq 0..n, T # {}
  PROVE  \E x \in T : \A y \in T : y <= x
<1> DEFINE U == {n - k : k \in T}
<1>0. \A k \in T : n - k \in Nat
  OBVIOUS
<1>1. U \subseteq Nat /\ U # {}
  BY <1>0
<1>2. PICK u \in U : \A v \in U : u <= v
  BY <1>1, Least
<1>3. n - u \in T /\ \A y \in T : n - y \in U
  BY <1>2
<1>4. \A y \in T : u <= n - y
  BY <1>2, <1>3
<1>5. \A y \in T : y <= n - u
  BY <1>1, <1>2, <1>4
<1> QED BY <1>3, <1>5

-----------------------------------------------------------------------------
(* Handoff (custody/handoff.py, handoff_server.py).                          *)
(* HandoffHolds says nothing of a call under way; what is added is how far   *)
(* a connection and its caller can have got together, and that nobody's      *)
(* request is read before the peer was looked at.                            *)

HandoffAdmitted(k) == uid[k] = "mail" \/ (webUser /\ uid[k] = "web")

\* What is behind a caller's back.
HandoffTogether(k) ==
  /\ caller[k] = "idle" => conn[k] = "none"
  /\ conn[k] = "none" => caller[k] \in {"idle", "unavailable"}
  /\ conn[k] \in {"none", "queued", "read"} => done[k] = "nothing"
  /\ conn[k] \in {"read", "running"} => HandoffAdmitted(k)
  /\ done[k] # "nothing" => HandoffAdmitted(k)

HandoffAnswered(k) ==
  /\ caller[k] = "answered" => done[k] = "all"
  /\ caller[k] = "refused" => done[k] = "nothing"
  /\ caller[k] \in {"answered", "refused", "failed"} => conn[k] = "gone"
  /\ shown[k] # "private"

HandoffShapes ==
  /\ uid \in [HandoffCalls -> Handoffs!Uids \cup {None}] /\ asks \in [HandoffCalls -> Ops \cup {None}]
  /\ caller \in [HandoffCalls -> {"idle", "waiting", "unavailable", "answered", "refused", "failed"}]
  /\ conn \in [HandoffCalls -> {"none", "queued", "read", "running", "gone"}]
  /\ done \in [HandoffCalls -> {"nothing", "part", "all"}]
  /\ shown \in [HandoffCalls -> {None, "sentence", "vetted", "private", "answer", "dropped"}]

HandoffCallInv(k) == HandoffTogether(k) /\ HandoffAnswered(k)
HandoffIInv == HandoffShapes /\ \A k \in HandoffCalls : HandoffCallInv(k)

-----------------------------------------------------------------------------
LEMMA InvGivesHandoffHolds == HandoffIInv => Handoffs!HandoffHolds
BY DEF HandoffIInv, HandoffCallInv, HandoffTogether, HandoffAnswered, HandoffAdmitted,
   Handoffs!HandoffHolds,
   Handoffs!OnlyTheTwo, Handoffs!AnswersAreTrue,
   Handoffs!PageSaysVetted

LEMMA HandoffInitIInv ==
  ASSUME Handoffs!HandoffAssumption
  PROVE  Handoffs!Init => HandoffIInv
BY DEF Handoffs!HandoffAssumption, Handoffs!Init, Handoffs!All, HandoffIInv,
   HandoffShapes, HandoffCallInv,
   HandoffTogether, HandoffAnswered, HandoffAdmitted, Handoffs!Uids

\* The listener's steps close connections and touch nothing else of a call.
LEMMA HandoffListenerKeeps ==
  ASSUME HandoffIInv, Handoffs!ListenerStep \/ Handoffs!Deafen \/ Handoffs!Die
  PROVE  HandoffIInv'
<1>1. CASE Handoffs!ListenerStep
  BY <1>1 DEF Handoffs!ListenerStep, HandoffIInv, HandoffShapes, HandoffCallInv,
     HandoffTogether, HandoffAnswered, HandoffAdmitted
<1>2. CASE Handoffs!Deafen
  BY <1>2 DEF Handoffs!Deafen, HandoffIInv, HandoffShapes, HandoffCallInv,
     HandoffTogether, HandoffAnswered, HandoffAdmitted
<1>3. CASE Handoffs!Die
  BY <1>3 DEF Handoffs!Die, HandoffIInv, HandoffShapes, HandoffCallInv,
     HandoffTogether, HandoffAnswered, HandoffAdmitted
<1> QED BY <1>1, <1>2, <1>3

\* A call's own steps leave every other call alone.
HandoffOthers(k) ==
  \A j \in HandoffCalls \ {k} :
    /\ uid'[j] = uid[j] /\ caller'[j] = caller[j] /\ conn'[j] = conn[j]
    /\ done'[j] = done[j] /\ shown'[j] = shown[j]

LEMMA HandoffOneCall ==
  ASSUME HandoffIInv, NEW k \in HandoffCalls, webUser' = webUser, HandoffShapes', HandoffOthers(k),
         HandoffCallInv(k)'
  PROVE  HandoffIInv'
BY DEF HandoffIInv, HandoffOthers, HandoffCallInv, HandoffTogether, HandoffAnswered,
   HandoffAdmitted

LEMMA HandoffCallKeeps ==
  ASSUME HandoffIInv, NEW k \in HandoffCalls, NEW o \in Ops, NEW u \in Handoffs!Uids,
         Handoffs!Call(k, o, u)
  PROVE  HandoffIInv'
<1>1. webUser' = webUser /\ HandoffShapes' /\ HandoffOthers(k)
  BY DEF Handoffs!Call, HandoffIInv, HandoffShapes, HandoffOthers
<1>2. HandoffCallInv(k)'
  BY DEF Handoffs!Call, HandoffIInv, HandoffShapes, HandoffCallInv, HandoffTogether,
     HandoffAnswered, HandoffAdmitted
<1> QED BY <1>1, <1>2, HandoffOneCall

LEMMA HandoffConnectionKeeps ==
  ASSUME HandoffIInv, NEW k \in HandoffCalls,
         Handoffs!GiveUp(k) \/ Handoffs!Accept(k) \/ Handoffs!ReadLine(k) \/ Handoffs!Act(k)
  PROVE  HandoffIInv'
<1>1. CASE Handoffs!GiveUp(k)
  <2>1. webUser' = webUser /\ HandoffShapes' /\ HandoffOthers(k)
    BY <1>1 DEF Handoffs!GiveUp, HandoffIInv, HandoffShapes, HandoffOthers
  <2>2. HandoffCallInv(k)'
    BY <1>1 DEF Handoffs!GiveUp, HandoffIInv, HandoffShapes, HandoffCallInv,
       HandoffTogether, HandoffAnswered, HandoffAdmitted
  <2> QED BY <2>1, <2>2, HandoffOneCall
<1>2. CASE Handoffs!Accept(k)
  <2>1. webUser' = webUser /\ HandoffShapes' /\ HandoffOthers(k)
    BY <1>2 DEF Handoffs!Accept, Handoffs!Goes, HandoffIInv, HandoffShapes,
       HandoffOthers
  <2>2. HandoffCallInv(k)'
    BY <1>2 DEF Handoffs!Accept, Handoffs!Goes, Handoffs!MayConnect, HandoffIInv,
       HandoffShapes,
       HandoffCallInv, HandoffTogether, HandoffAnswered, HandoffAdmitted
  <2> QED BY <2>1, <2>2, HandoffOneCall
<1>3. CASE Handoffs!ReadLine(k)
  <2>1. webUser' = webUser /\ HandoffShapes' /\ HandoffOthers(k)
    BY <1>3 DEF Handoffs!ReadLine, Handoffs!Goes, HandoffIInv, HandoffShapes,
       HandoffOthers
  <2>2. HandoffCallInv(k)'
    BY <1>3 DEF Handoffs!ReadLine, Handoffs!Goes, HandoffIInv, HandoffShapes,
       HandoffCallInv, HandoffTogether,
       HandoffAnswered, HandoffAdmitted
  <2> QED BY <2>1, <2>2, HandoffOneCall
<1>4. CASE Handoffs!Act(k)
  <2>1. webUser' = webUser /\ HandoffShapes' /\ HandoffOthers(k)
    BY <1>4 DEF Handoffs!Act, HandoffIInv, HandoffShapes, HandoffOthers
  <2>2. HandoffCallInv(k)'
    BY <1>4 DEF Handoffs!Act, HandoffIInv, HandoffShapes, HandoffCallInv,
       HandoffTogether, HandoffAnswered, HandoffAdmitted
  <2> QED BY <2>1, <2>2, HandoffOneCall
<1> QED BY <1>1, <1>2, <1>3, <1>4

\* What the page says of a refusal is the daemon's text for one code only, and
\* under that code the text is a vetted one.
LEMMA HandoffAnswerKeeps ==
  ASSUME HandoffIInv, NEW k \in HandoffCalls,
         Handoffs!Return(k) \/ Handoffs!Refuse(k) \/ Handoffs!Fail(k)
  PROVE  HandoffIInv'
<1>1. CASE Handoffs!Return(k)
  <2>1. webUser' = webUser /\ HandoffShapes' /\ HandoffOthers(k)
    BY <1>1 DEF Handoffs!Return, Handoffs!Tell, Handoffs!Goes, HandoffIInv,
       HandoffShapes, HandoffOthers
  <2>2. HandoffCallInv(k)'
    BY <1>1 DEF Handoffs!Return, Handoffs!Tell, Handoffs!Goes, HandoffIInv,
       HandoffShapes, HandoffCallInv,
       HandoffTogether, HandoffAnswered, HandoffAdmitted
  <2> QED BY <2>1, <2>2, HandoffOneCall
<1>2. CASE Handoffs!Refuse(k)
  <2>1. PICK code \in Handoffs!Refusals(asks[k]) :
          LET text == IF code = Handoffs!RENDERABLE_CODE THEN "vetted" ELSE "private" IN
          \/ Handoffs!Tell(k, "refused", Handoffs!Refusal(asks[k], code, text))
          \/ code = Handoffs!RENDERABLE_CODE /\ Handoffs!Goes(k) /\ UNCHANGED <<caller, shown>>
    BY <1>2 DEF Handoffs!Refuse
  <2> DEFINE text == IF code = Handoffs!RENDERABLE_CODE THEN "vetted" ELSE "private"
             said == Handoffs!Refusal(asks[k], code, text)
  <2>2. said \in {"dropped", "vetted", "sentence"}
    BY DEF Handoffs!Refusal
  <2> HIDE DEF said
  <2>3. \/ Handoffs!Tell(k, "refused", said)
        \/ Handoffs!Goes(k) /\ UNCHANGED <<caller, shown>>
    BY <2>1 DEF said
  <2>4. webUser' = webUser /\ HandoffShapes' /\ HandoffOthers(k)
    BY <1>2, <2>2, <2>3 DEF Handoffs!Refuse, Handoffs!Tell, Handoffs!Goes, HandoffIInv,
       HandoffShapes, HandoffOthers
  <2>5. HandoffCallInv(k)'
    BY <1>2, <2>2, <2>3
       DEF Handoffs!Refuse, Handoffs!Tell, Handoffs!Goes, HandoffIInv, HandoffShapes,
       HandoffCallInv,
       HandoffTogether, HandoffAnswered, HandoffAdmitted
  <2> QED BY <2>4, <2>5, HandoffOneCall
<1>3. CASE Handoffs!Fail(k)
  <2>1. PICK code \in {400, 500} : Handoffs!Tell(k, "failed", Handoffs!Refusal(asks[k], code, "private"))
    BY <1>3 DEF Handoffs!Fail
  <2> DEFINE said == Handoffs!Refusal(asks[k], code, "private")
  <2>2. said \in {"dropped", "sentence"}
    BY DEF Handoffs!Refusal, Handoffs!RENDERABLE_CODE
  <2> HIDE DEF said
  <2>3. Handoffs!Tell(k, "failed", said)
    BY <2>1 DEF said
  <2>4. webUser' = webUser /\ HandoffShapes' /\ HandoffOthers(k)
    BY <1>3, <2>2, <2>3 DEF Handoffs!Fail, Handoffs!Tell, Handoffs!Goes, HandoffIInv,
       HandoffShapes,
       HandoffOthers
  <2>5. HandoffCallInv(k)'
    BY <1>3, <2>2, <2>3
       DEF Handoffs!Fail, Handoffs!Tell, Handoffs!Goes, HandoffIInv, HandoffShapes,
       HandoffCallInv,
       HandoffTogether, HandoffAnswered, HandoffAdmitted
  <2> QED BY <2>4, <2>5, HandoffOneCall
<1> QED BY <1>1, <1>2, <1>3

LEMMA HandoffStepIInv == HandoffIInv /\ [Handoffs!Next]_(Handoffs!vars) => HandoffIInv'
<1> SUFFICES ASSUME HandoffIInv, [Handoffs!Next]_(Handoffs!vars) PROVE HandoffIInv'
  OBVIOUS
<1>1. CASE UNCHANGED Handoffs!vars
  BY <1>1 DEF Handoffs!vars, HandoffIInv, HandoffShapes, HandoffCallInv,
     HandoffTogether, HandoffAnswered, HandoffAdmitted
<1>2. CASE Handoffs!Next
  BY <1>2, HandoffListenerKeeps, HandoffCallKeeps, HandoffConnectionKeeps,
     HandoffAnswerKeeps DEF Handoffs!Next
<1> QED BY <1>1, <1>2

-----------------------------------------------------------------------------
\* The reachable states of the channel (custody/handoff.py, handoff_server.py).
THEOREM ChannelInvariant ==
  ASSUME Handoffs!HandoffAssumption
  PROVE  Handoffs!Spec => []HandoffIInv
BY HandoffInitIInv, HandoffStepIInv, PTL DEF Handoffs!Spec

\* Nothing is done for a stranger, an answer says what was done, and the page
\* shows vetted words only, for any number of callers at once
\* (custody/handoff_server.py:63-85 and 291-343, web_server.py:992-1006).
THEOREM ChannelHolds ==
  ASSUME Handoffs!HandoffAssumption
  PROVE  Handoffs!Spec => []Handoffs!HandoffHolds
BY ChannelInvariant, InvGivesHandoffHolds, PTL

-----------------------------------------------------------------------------
\* Where `part` is this component's, its steps are the only ones; elsewhere its
\* variables stand still.
LEMMA HandoffIsAPart == Spec => Handoffs!Spec
<1>1. Init => Handoffs!Init
  BY DEF Init
<1>2. [Next]_vars => [Handoffs!Next]_(Handoffs!vars)
  BY DEF Next, vars, handoffVars, Handoffs!vars, Handoffs!listener
<1> QED BY <1>1, <1>2, PTL DEF Spec, Handoffs!Spec

\* The channel's promises, as SideBySide states them (custody/handoff.py).
THEOREM HandoffsAlwaysHold == Spec => []HandoffHolds
<1>0. Handoffs!HandoffAssumption
  BY PartsAssumption
<1>1. Handoffs!Spec => []Handoffs!HandoffHolds
  BY <1>0, ChannelHolds
<1>2. Handoffs!HandoffHolds => HandoffHolds
  BY DEF HandoffHolds
<1> QED BY <1>1, <1>2, HandoffIsAPart, PTL

-----------------------------------------------------------------------------
(* Session (frontend/session.py, web_server.py).                             *)
(* A cookie is signed by a key the ring had, no later than now; one older    *)
(* than the last rotation is signed by the key before, or dead               *)
(* (SessionCookieInv).                                                       *)

\* The process holds one key, or two after a rotation, the current one first.
SessionShapes ==
  /\ sessionNow \in Nat /\ rotatedAt \in Nat \cup {-1} /\ rotatedAt <= sessionNow
  /\ \E h \in Nat : sessionRing = <<h>> \/ \E g \in Nat : sessionRing = <<h, g>>
  /\ DOMAIN cookie = Browsers /\ DOMAIN page = Tabs

\* A session is of the current key, or was begun before that came.
SessionCookieInv ==
  \A b \in Browsers : cookie[b] # None =>
    /\ cookie[b].iat \in Nat /\ cookie[b].iat <= sessionNow
    /\ cookie[b].key # Head(sessionRing) => rotatedAt # -1 /\ cookie[b].iat <= rotatedAt

SessionIInv == SessionShapes /\ SessionCookieInv

LEMMA SessionInitIInv == Web!Init => SessionIInv
BY DEF Web!Init, SessionIInv, SessionShapes, SessionCookieInv

LEMMA SessionHeadOfRing ==
  ASSUME SessionShapes
  PROVE  Head(sessionRing) \in Nat /\ Head(sessionRing) \in Web!Range(sessionRing)
<1>1. PICK h \in Nat : sessionRing = <<h>> \/ \E g \in Nat : sessionRing = <<h, g>>
  BY DEF SessionShapes
<1>2. Head(sessionRing) = h /\ 1 \in DOMAIN sessionRing /\ sessionRing[1] = h
  BY <1>1
<1> QED BY <1>2 DEF Web!Range

LEMMA SessionRotateKeeps ==
  ASSUME Web!SessionAssumption, SessionIInv, Web!Rotate
  PROVE  SessionIInv' /\ Web!SessionStep
<1> DEFINE h == Head(sessionRing)
<1>1. h \in Nat
  BY SessionHeadOfRing DEF SessionIInv
<1>2. /\ sessionRing' = <<h + 1, h>> /\ rotatedAt' = sessionNow
             /\ UNCHANGED <<sessionNow, cookie, page, members>>
  BY DEF Web!Rotate, Web!Rotated
<1> HIDE DEF h
<1>3. Head(sessionRing') = h + 1 /\ h + 1 \in Nat
  BY <1>1, <1>2
<1>4. Web!Range(sessionRing') = {h + 1, h}
  <2>1. DOMAIN sessionRing' = {1, 2} /\ sessionRing'[1] = h + 1 /\ sessionRing'[2] = h
    BY <1>2
  <2> QED BY <2>1 DEF Web!Range
<1>5. SessionShapes'
  BY <1>1, <1>2, <1>3 DEF SessionIInv, SessionShapes
<1>6. SessionCookieInv'
  BY <1>2 DEF SessionIInv, SessionShapes, SessionCookieInv
<1>7. Web!FormActed
  BY <1>2 DEF Web!FormActed
<1>8. Web!RotationKept
  <2> SUFFICES ASSUME rotatedAt = -1 \/ sessionNow - rotatedAt > SessionTTL,
                      NEW b \in Browsers, Web!SignedIn(cookie[b])
               PROVE  Web!SignedIn(cookie[b])'
    BY DEF Web!RotationKept
  <2>1. /\ cookie[b] # None /\ cookie[b].purpose = "session" /\ sessionNow - cookie[b].iat <= SessionTTL
        /\ cookie[b].value \in members
    BY DEF Web!SignedIn, Web!Opens
  <2>2. cookie[b].key = h
    BY <2>1 DEF SessionIInv, SessionShapes, SessionCookieInv, Web!SessionAssumption, h
  <2> QED BY <1>2, <1>4, <2>1, <2>2 DEF Web!SignedIn, Web!Opens
<1> QED BY <1>5, <1>6, <1>7, <1>8 DEF SessionIInv, Web!SessionStep

LEMMA SessionSignInKeeps ==
  ASSUME Web!SessionAssumption, SessionIInv, NEW b \in Browsers, NEW a \in Accounts,
         Web!SignIn(b, a)
  PROVE  SessionIInv' /\ Web!SessionStep
<1> DEFINE c == Web!Sign("session", a, sessionNow, sessionRing)
<1>1. /\ cookie' = [cookie EXCEPT ![b] = c] /\ UNCHANGED <<sessionNow, sessionRing, page, rotatedAt>>
      /\ members' = members \cup {a}
  BY DEF Web!SignIn
<1>2. c.iat = sessionNow /\ c.key = Head(sessionRing)
  BY DEF Web!Sign
<1> HIDE DEF c
<1>3. SessionIInv'
  BY <1>1, <1>2 DEF SessionIInv, SessionShapes, SessionCookieInv
<1> QED BY <1>1, <1>3 DEF Web!SessionStep, Web!FormActed, Web!RotationKept

\* Of the other steps one removes an account, by a form of its own.
LEMMA SessionOtherKeeps ==
  ASSUME Web!SessionAssumption, SessionIInv,
         \/ \E b \in Browsers : Web!Logout(b)
         \/ \E t \in Tabs : Web!Open(t) \/ Web!Delete(t)
         \/ Web!Tick
  PROVE  SessionIInv' /\ Web!SessionStep
<1>1. UNCHANGED <<sessionRing, rotatedAt>> /\ sessionNow' \in {sessionNow, sessionNow + 1}
  BY DEF Web!Logout, Web!Open, Web!Delete, Web!Tick
<1>2. /\ DOMAIN cookie' = Browsers /\ DOMAIN page' = Tabs
      /\ \A b \in Browsers : cookie'[b] # None => cookie'[b] = cookie[b]
  BY DEF SessionIInv, SessionShapes, Web!Logout, Web!Open, Web!Delete, Web!Tick
<1>3. SessionIInv'
  BY <1>1, <1>2 DEF SessionIInv, SessionShapes, SessionCookieInv
<1>4. Web!FormActed
  BY DEF SessionIInv, SessionShapes, Web!FormActed, Web!FormOk, Web!Logout, Web!Open,
     Web!Delete, Web!Tick
<1> QED BY <1>1, <1>3, <1>4 DEF Web!SessionStep, Web!RotationKept

LEMMA SessionStepKeeps ==
  ASSUME Web!SessionAssumption, SessionIInv, [Web!Next]_(Web!vars)
  PROVE  SessionIInv' /\ Web!SessionStep
<1>1. CASE UNCHANGED Web!vars
  BY <1>1 DEF Web!vars, SessionIInv, SessionShapes, SessionCookieInv, Web!SessionStep,
     Web!FormActed, Web!RotationKept
<1> QED BY <1>1, SessionRotateKeeps, SessionSignInKeeps, SessionOtherKeeps DEF Web!Next

-----------------------------------------------------------------------------
\* Where `part` is this component's, its steps are the only ones; elsewhere its
\* variables stand still.
LEMMA SessionIsAPart == Spec => Web!Spec
<1>1. Init => Web!Init
  BY DEF Init
<1>2. [Next]_vars => [Web!Next]_(Web!vars)
  BY DEF Next, vars, sessionVars, Web!vars
<1> QED BY <1>1, <1>2, PTL DEF Spec, Web!Spec

\* For any tabs, browsers and rotations: a form deletes only the account whose page
\* it was, and a rotation signs nobody out, provided the one before it is older
\* than any session still accepted (frontend/session.py, web_server.py).
THEOREM SessionsAlwaysHold == Spec => SessionsHold
<1>0. Web!SessionAssumption
  BY PartsAssumption
<1>1. Web!Init => SessionIInv
  BY <1>0, SessionInitIInv
<1>2. SessionIInv /\ [Web!Next]_(Web!vars) => SessionIInv'
  BY <1>0, SessionStepKeeps
<1>3. SessionIInv /\ [Web!Next]_(Web!vars) => [part = "session" => Web!SessionStep]_sessionVars
  BY <1>0, SessionStepKeeps
<1> QED BY <1>1, <1>2, <1>3, SessionIsAPart, PTL DEF Web!Spec, SessionsHold

-----------------------------------------------------------------------------
(* ChatLink (accounts/chat_link.py).                                         *)
(* A request under way asks what the chat it compared called for, and its    *)
(* answer is the one to its own code; the chat is still the one it           *)
(* compared, unless it was told of the change (ChatTaskInv).                 *)

ChatMessages == [code : Nat, chat : Chats, date : Nat]

ChatShapes ==
  /\ chatNow \in Nat /\ codes \in Nat /\ held \subseteq Nat
  /\ posts \in Seq(ChatMessages) /\ DOMAIN task = Workers
  /\ \A t \in Workers : Chat!At(t, "deliver") => /\ DOMAIN task[t] = {"at", "code", "chat", "shown"}
                                                 /\ task[t].code \in Nat
  /\ \A t \in Workers : Chat!At(t, "store") => task[t].code \in Nat

\* A change asks what the account it was begun for calls for.
ChatAsks(entry) == entry.action = Chat!ActionFor(entry.chat)

ChatPendingInv == pending # None => ChatAsks(pending)

\* The messages that would answer a change with this target.
ChatAnsweredBy(entry, target) ==
  \E i \in DOMAIN posts :
    /\ posts[i].code = entry.code /\ posts[i].date >= entry.since
    /\ posts[i].chat = IF entry.chat = None THEN target ELSE entry.chat

\* A request that has compared the chat has the chat it compared, unless it was
\* changed; one that writes has its answer.
ChatTaskInv ==
  \A t \in Workers :
    /\ Chat!At(t, "recheck") => \E e : task[t] = [at |-> "recheck", entry |-> e] /\ ChatAsks(e)
    /\ Chat!At(t, "ask") => \E e : /\ task[t] = [at |-> "ask", entry |-> e] /\ ChatAsks(e)
                                   /\ t \notin changed => chat = e.chat
    /\ Chat!At(t, "write") => /\ ChatAnsweredBy(task[t].entry, task[t].target)
                              /\ t \notin changed => chat = task[t].entry.chat

ChatIInv == ChatShapes /\ ChatPendingInv /\ ChatTaskInv

LEMMA ChatInitIInv == Chat!Init => ChatIInv
BY DEF Chat!Init, ChatIInv, ChatShapes, ChatPendingInv, ChatTaskInv, Chat!At,
   ChatMessages

\* A thread's step leaves the others at their places.
ChatAlone(t) == /\ DOMAIN task' = Workers
                /\ \A u \in Workers : u # t => task'[u] = task[u]

LEMMA ChatGoesAlone ==
  ASSUME ChatIInv, NEW t \in Workers, NEW req, Chat!Goes(t, req)
  PROVE  ChatAlone(t) /\ task'[t] = req
BY DEF ChatIInv, ChatShapes, ChatAlone, Chat!Goes

\* A thread's own step changes nothing for the others as long as the chat is
\* left alone, or they are told.
LEMMA ChatOthersKept ==
  ASSUME ChatIInv, NEW t \in Workers, ChatAlone(t), UNCHANGED posts,
         \A u \in Workers : u # t => \/ chat' = chat /\ (u \in changed => u \in changed')
                                     \/ task[u] # None => u \in changed'
  PROVE  /\ \A u \in Workers : u # t =>
              /\ Chat!At(u, "recheck")' => \E e : task'[u] = [at |-> "recheck", entry |-> e] /\ ChatAsks(e)
              /\ Chat!At(u, "ask")' => \E e : /\ task'[u] = [at |-> "ask", entry |-> e] /\ ChatAsks(e)
                                              /\ u \notin changed' => chat' = e.chat
              /\ Chat!At(u, "write")' => /\ ChatAnsweredBy(task'[u].entry, task'[u].target)
                                         /\ u \notin changed' => chat' = task'[u].entry.chat
              /\ Chat!At(u, "deliver")' => /\ DOMAIN task'[u] = {"at", "code", "chat", "shown"}
                                           /\ task'[u].code \in Nat
              /\ Chat!At(u, "store")' => task'[u].code \in Nat
         /\ \A e, c : ChatAnsweredBy(e, c)' <=> ChatAnsweredBy(e, c)
<1>1. \A u \in Workers : u # t => task'[u] = task[u]
  BY DEF ChatAlone
<1>2. \A e, c : ChatAnsweredBy(e, c)' <=> ChatAnsweredBy(e, c)
  BY DEF ChatAnsweredBy
<1>3. \A u \in Workers : \A p : u # t => (Chat!At(u, p)' <=> Chat!At(u, p))
  BY <1>1 DEF Chat!At
<1>4. ASSUME NEW u \in Workers, u # t, Chat!At(u, "ask")
      PROVE  \E e : /\ task'[u] = [at |-> "ask", entry |-> e] /\ ChatAsks(e)
                    /\ u \notin changed' => chat' = e.chat
  <2>1. PICK e : /\ task[u] = [at |-> "ask", entry |-> e] /\ ChatAsks(e)
                 /\ u \notin changed => chat = e.chat
    BY <1>4 DEF ChatIInv, ChatTaskInv
  <2>2. task'[u] = task[u] /\ task[u] # None
    BY <1>1, <1>4 DEF Chat!At
  <2>3. u \notin changed' => chat' = e.chat
    BY <1>4, <2>1, <2>2
  <2> QED BY <2>1, <2>2, <2>3
<1>5. ASSUME NEW u \in Workers, u # t, Chat!At(u, "write")
      PROVE  /\ ChatAnsweredBy(task'[u].entry, task'[u].target)
             /\ u \notin changed' => chat' = task'[u].entry.chat
  BY <1>1, <1>5 DEF ChatIInv, ChatTaskInv, Chat!At
<1>6. ASSUME NEW u \in Workers, u # t
      PROVE  /\ Chat!At(u, "recheck") => \E e : task'[u] = [at |-> "recheck", entry |-> e] /\ ChatAsks(e)
             /\ Chat!At(u, "deliver") => /\ DOMAIN task'[u] = {"at", "code", "chat", "shown"}
                                         /\ task'[u].code \in Nat
             /\ Chat!At(u, "store") => task'[u].code \in Nat
  BY <1>1, <1>6 DEF ChatIInv, ChatShapes, ChatTaskInv
<1>7. ASSUME NEW u \in Workers, u # t
      PROVE  \A p : Chat!At(u, p)' <=> Chat!At(u, p)
  BY <1>3, <1>7
<1> QED BY <1>2, <1>4, <1>5, <1>6, <1>7

\* What is true of the request that a thread goes on with.
ChatSound(req, noted, current) ==
  /\ req.at = "deliver" => /\ DOMAIN req = {"at", "code", "chat", "shown"}
                           /\ req.code \in Nat
  /\ req.at = "store" => req.code \in Nat
  /\ req.at = "recheck" => \E e : req = [at |-> "recheck", entry |-> e] /\ ChatAsks(e)
  /\ req.at = "ask" => \E e : /\ req = [at |-> "ask", entry |-> e] /\ ChatAsks(e)
                              /\ ~noted => current = e.chat
  /\ req.at = "write" => /\ ChatAnsweredBy(req.entry, req.target)
                         /\ ~noted => current = req.entry.chat

LEMMA ChatAloneKeeps ==
  ASSUME ChatIInv, NEW t \in Workers, NEW req, ChatAlone(t), task'[t] = req, UNCHANGED posts,
         chatNow' \in Nat, codes' \in Nat, held' \subseteq Nat, ChatPendingInv',
         \A u \in Workers : u # t => \/ chat' = chat /\ (u \in changed => u \in changed')
                                     \/ task[u] # None => u \in changed',
         req # None => ChatSound(req, t \in changed', chat')
  PROVE  ChatIInv'
<1>1. ChatAlone(t) /\ task'[t] = req
  OBVIOUS
<1>2. \A p : Chat!At(t, p)' => req # None /\ req.at = p
  BY <1>1 DEF Chat!At
<1>3. /\ Chat!At(t, "recheck")' => \E e : task'[t] = [at |-> "recheck", entry |-> e] /\ ChatAsks(e)
      /\ Chat!At(t, "ask")' => \E e : /\ task'[t] = [at |-> "ask", entry |-> e] /\ ChatAsks(e)
                                      /\ t \notin changed' => chat' = e.chat
      /\ Chat!At(t, "write")' => /\ ChatAnsweredBy(task'[t].entry, task'[t].target)
                                 /\ t \notin changed' => chat' = task'[t].entry.chat
      /\ Chat!At(t, "deliver")' => /\ DOMAIN task'[t] = {"at", "code", "chat", "shown"}
                                   /\ task'[t].code \in Nat
      /\ Chat!At(t, "store")' => task'[t].code \in Nat
  BY <1>1, <1>2 DEF ChatSound
<1>4. \A e, c : ChatAnsweredBy(e, c)' <=> ChatAnsweredBy(e, c)
  BY <1>1, ChatOthersKept
<1>5. \A u \in Workers :
        /\ Chat!At(u, "recheck")' => \E e : task'[u] = [at |-> "recheck", entry |-> e] /\ ChatAsks(e)
        /\ Chat!At(u, "ask")' => \E e : /\ task'[u] = [at |-> "ask", entry |-> e] /\ ChatAsks(e)
                                        /\ u \notin changed' => chat' = e.chat
        /\ Chat!At(u, "write")' => /\ ChatAnsweredBy(task'[u].entry, task'[u].target)
                                   /\ u \notin changed' => chat' = task'[u].entry.chat
        /\ Chat!At(u, "deliver")' => /\ DOMAIN task'[u] = {"at", "code", "chat", "shown"}
                                     /\ task'[u].code \in Nat
        /\ Chat!At(u, "store")' => task'[u].code \in Nat
  BY <1>1, <1>3, ChatOthersKept
<1>6. \A e : ChatAsks(e)' <=> ChatAsks(e)
  BY DEF ChatAsks, Chat!ActionFor
<1>7. ChatTaskInv'
  <2> SUFFICES ASSUME NEW u \in Workers
               PROVE  (/\ Chat!At(u, "recheck") => \E e : /\ task[u] = [at |-> "recheck", entry |-> e]
                                                          /\ ChatAsks(e)
                       /\ Chat!At(u, "ask") => \E e : /\ task[u] = [at |-> "ask", entry |-> e]
                                                      /\ ChatAsks(e)
                                                      /\ u \notin changed => chat = e.chat
                       /\ Chat!At(u, "write") => /\ ChatAnsweredBy(task[u].entry, task[u].target)
                                                 /\ u \notin changed => chat = task[u].entry.chat)'
    BY DEF ChatTaskInv
  <2>1. ChatAnsweredBy(task[u].entry, task[u].target)' <=> ChatAnsweredBy(task'[u].entry, task'[u].target)
    BY DEF ChatAnsweredBy
  <2> QED BY <1>5, <1>6, <2>1
<1>8. ChatShapes'
  BY <1>1, <1>5 DEF ChatIInv, ChatShapes, ChatAlone
<1> QED BY <1>7, <1>8 DEF ChatIInv

LEMMA ChatGoesKeeps ==
  ASSUME ChatIInv, NEW t \in Workers, NEW req, Chat!Goes(t, req), UNCHANGED posts,
         chatNow' \in Nat, codes' \in Nat, held' \subseteq Nat, ChatPendingInv',
         \A u \in Workers : u # t => \/ chat' = chat /\ (u \in changed => u \in changed')
                                     \/ task[u] # None => u \in changed',
         req # None => ChatSound(req, t \in changed', chat')
  PROVE  ChatIInv'
BY ChatGoesAlone, ChatAloneKeeps

\* A request that ends.
LEMMA ChatEndsKeeps ==
  ASSUME ChatIInv, NEW t \in Workers, Chat!Ends(t), UNCHANGED <<posts, chat>>,
         chatNow' \in Nat, codes' \in Nat, held' \subseteq Nat, ChatPendingInv'
  PROVE  ChatIInv'
<1>1. Chat!Goes(t, None) /\ changed' = changed \ {t}
  BY DEF Chat!Ends
<1> QED BY <1>1, ChatGoesKeeps

LEMMA ChatPendingKept ==
  ASSUME ChatIInv, pending' \in {pending, None}
  PROVE  ChatPendingInv'
BY DEF ChatIInv, ChatPendingInv, ChatAsks, Chat!ActionFor

LEMMA ChatBeginKeeps ==
  ASSUME ChatIInv, NEW t \in Workers, Chat!Begin(t)
  PROVE  ChatIInv'
<1> DEFINE req == [at |-> IF Chat!ActionFor(chat) = Chat!Unlink \/ Chat!ProvenRecently
                          THEN "store" ELSE "deliver",
                   code |-> codes + 1, chat |-> chat, shown |-> TRUE]
<1>1. /\ Chat!Goes(t, req) /\ codes' = codes + 1
      /\ UNCHANGED <<registered, chat, pending, proven, restarts, Chat!outside, changed>>
  BY DEF Chat!Begin
<1>2. /\ codes \in Nat /\ codes' \in Nat /\ chatNow' \in Nat /\ held' \subseteq Nat
  BY <1>1 DEF ChatIInv, ChatShapes, Chat!outside
<1>3. /\ req.at \in {"store", "deliver"} /\ req.code \in Nat
      /\ DOMAIN req = {"at", "code", "chat", "shown"}
  BY <1>2
<1> HIDE DEF req
<1>4. ChatSound(req, t \in changed', chat')
  BY <1>3 DEF ChatSound
<1> QED BY <1>1, <1>2, <1>4, ChatPendingKept, ChatGoesKeeps DEF Chat!outside

LEMMA ChatDeliverKeeps ==
  ASSUME ChatIInv, NEW t \in Workers, Chat!Deliver(t)
  PROVE  ChatIInv'
<1> DEFINE req == [task[t] EXCEPT !.at = "store", !.shown = FALSE]
<1>1. /\ Chat!At(t, "deliver") /\ UNCHANGED <<registered, chat, Chat!inDaemon, chatNow, posts>>
      /\ DOMAIN task[t] = {"at", "code", "chat", "shown"} /\ task[t].code \in Nat
  BY DEF Chat!Deliver, ChatIInv, ChatShapes
<1>2. chatNow' \in Nat /\ codes' \in Nat /\ ChatPendingInv'
  BY <1>1, ChatPendingKept DEF ChatIInv, ChatShapes, Chat!inDaemon
<1>3. CASE Chat!Goes(t, req) /\ held' = held \cup {task[t].code} /\ UNCHANGED changed
  <2>1. req.at = "store" /\ req.code \in Nat
    BY <1>1
  <2>2. held' \subseteq Nat
    BY <1>1, <1>3 DEF ChatIInv, ChatShapes
  <2> HIDE DEF req
  <2>3. ChatSound(req, t \in changed', chat')
    BY <2>1 DEF ChatSound
  <2> QED BY <1>1, <1>2, <1>3, <2>2, <2>3, ChatGoesKeeps
<1>4. CASE Chat!Ends(t) /\ UNCHANGED held
  BY <1>1, <1>2, <1>4, ChatEndsKeeps DEF ChatIInv, ChatShapes
<1> QED BY <1>3, <1>4 DEF Chat!Deliver

LEMMA ChatStoreKeeps ==
  ASSUME ChatIInv, NEW t \in Workers, Chat!Store(t)
  PROVE  ChatIInv'
<1>1. /\ Chat!At(t, "store") /\ pending' = Chat!EntryFor(task[t]) /\ Chat!Ends(t)
      /\ held' \in {held, held \cup {task[t].code}}
      /\ UNCHANGED <<registered, chat, proven, codes, restarts, chatNow, posts>>
  BY DEF Chat!Store
<1>2. chatNow' \in Nat /\ codes' \in Nat /\ held' \subseteq Nat
  BY <1>1 DEF ChatIInv, ChatShapes
<1>3. Chat!EntryFor(task[t]).action = Chat!ActionFor(task[t].chat)
          /\ Chat!EntryFor(task[t]).chat = task[t].chat
  BY DEF Chat!EntryFor
<1>4. ChatPendingInv'
  BY <1>1, <1>3 DEF ChatPendingInv, ChatAsks, Chat!ActionFor
<1> QED BY <1>1, <1>2, <1>4, ChatEndsKeeps

LEMMA ChatClaimKeeps ==
  ASSUME ChatIInv, NEW t \in Workers, Chat!Claim(t)
  PROVE  ChatIInv'
<1>1. pending # None /\ UNCHANGED <<registered, chat, proven, codes, restarts, Chat!outside, changed>>
  BY DEF Chat!Claim
<1>2. chatNow' \in Nat /\ codes' \in Nat /\ held' \subseteq Nat
  BY <1>1 DEF ChatIInv, ChatShapes, Chat!outside
<1>3. CASE Chat!Live(pending)
  <2> DEFINE req == [at |-> "recheck", entry |-> pending]
  <2>1. Chat!Goes(t, req) /\ UNCHANGED pending
    BY <1>3 DEF Chat!Claim
  <2>2. ChatAsks(pending) /\ req.at = "recheck" /\ req = [at |-> "recheck", entry |-> pending]
    BY <1>1 DEF ChatIInv, ChatPendingInv
  <2> HIDE DEF req
  <2>3. ChatSound(req, t \in changed', chat')
    BY <2>2 DEF ChatSound
  <2> QED BY <1>1, <1>2, <2>1, <2>3, ChatPendingKept, ChatGoesKeeps DEF Chat!outside
<1>4. CASE ~Chat!Live(pending)
  <2>1. pending' = None /\ UNCHANGED task
    BY <1>4 DEF Chat!Claim
  <2> QED BY <1>1, <2>1, ChatPendingKept DEF Chat!outside, ChatIInv, ChatShapes,
             ChatTaskInv, Chat!At, ChatAsks, Chat!ActionFor,
             ChatAnsweredBy
<1> QED BY <1>3, <1>4

LEMMA ChatRecheckKeeps ==
  ASSUME ChatIInv, NEW t \in Workers, Chat!Recheck(t)
  PROVE  ChatIInv'
<1>1. Chat!At(t, "recheck") /\ UNCHANGED <<registered, chat, proven, codes, restarts, Chat!outside>>
  BY DEF Chat!Recheck
<1>2. chatNow' \in Nat /\ codes' \in Nat /\ held' \subseteq Nat /\ UNCHANGED posts
  BY <1>1 DEF ChatIInv, ChatShapes, Chat!outside
<1>3. pending' \in {pending, None} /\ ChatPendingInv'
  <2>1. pending' \in {pending, None}
    BY DEF Chat!Recheck
  <2> QED BY <2>1, ChatPendingKept
<1>4. PICK e : task[t] = [at |-> "recheck", entry |-> e] /\ ChatAsks(e)
  BY <1>1 DEF ChatIInv, ChatTaskInv
<1>5. CASE Chat!Ends(t)
  BY <1>1, <1>2, <1>3, <1>5, ChatEndsKeeps
<1>6. ASSUME ~Chat!Changed(task[t].entry), Chat!Goes(t, [task[t] EXCEPT !.at = "ask"]),
             changed' = changed \ {t}
      PROVE  ChatIInv'
  <2> DEFINE req == [at |-> "ask", entry |-> e]
  <2>1. Chat!Goes(t, req)
    BY <1>4, <1>6
  <2>2. chat = e.chat
    BY <1>4, <1>6 DEF Chat!Changed
  <2>3. req.at = "ask" /\ req = [at |-> "ask", entry |-> e]
    OBVIOUS
  <2> HIDE DEF req
  <2>4. ChatSound(req, t \in changed', chat')
    BY <1>1, <1>4, <2>2, <2>3 DEF ChatSound
  <2> QED BY <1>1, <1>2, <1>3, <1>6, <2>1, <2>4, ChatGoesKeeps
<1> QED BY <1>5, <1>6 DEF Chat!Recheck

\* What the bot's inbox is asked, where it has an answer.
LEMMA ChatPostedSinceAnswers ==
  ASSUME ChatIInv, NEW e, Chat!PostedSince(e, e.chat) # None
  PROVE  ChatAnsweredBy(e, Chat!PostedSince(e, e.chat))
<1> DEFINE A == Chat!Answers(e, e.chat)
           newest == CHOOSE i \in A : \A j \in A : j <= i
<1>1. A # {} /\ Chat!PostedSince(e, e.chat) = posts[newest].chat
  BY DEF Chat!PostedSince
<1>2. A \subseteq 0..Len(posts) /\ Len(posts) \in Nat /\ A \subseteq DOMAIN posts
  BY DEF Chat!Answers, ChatIInv, ChatShapes
<1>3. \E i \in A : \A j \in A : j <= i
  BY <1>1, <1>2, Greatest
<1>4. newest \in A
  BY <1>3
<1> HIDE DEF newest
<1>5. /\ newest \in DOMAIN posts /\ posts[newest].code = e.code
      /\ posts[newest].date >= e.since /\ e.chat \in {None, posts[newest].chat}
  BY <1>4 DEF Chat!Answers
<1> QED BY <1>1, <1>5 DEF ChatAnsweredBy

LEMMA ChatAskKeeps ==
  ASSUME ChatIInv, NEW t \in Workers, Chat!Ask(t)
  PROVE  ChatIInv'
<1>1. Chat!At(t, "ask") /\ UNCHANGED <<registered, chat, proven, codes, restarts, Chat!outside>>
  BY DEF Chat!Ask
<1>2. chatNow' \in Nat /\ codes' \in Nat /\ held' \subseteq Nat /\ UNCHANGED posts
  BY <1>1 DEF ChatIInv, ChatShapes, Chat!outside
<1>3. ChatPendingInv'
  <2>1. pending' \in {pending, None}
    BY DEF Chat!Ask
  <2> QED BY <2>1, ChatPendingKept
<1>4. PICK e : /\ task[t] = [at |-> "ask", entry |-> e] /\ ChatAsks(e)
               /\ t \notin changed => chat = e.chat
  BY <1>1 DEF ChatIInv, ChatTaskInv
<1>4a. task[t].entry = e
  BY <1>4
<1>5. CASE Chat!PostedSince(e, e.chat) = None
  <2>1. Chat!Ends(t)
    BY <1>4a, <1>5 DEF Chat!Ask
  <2> QED BY <1>1, <1>2, <1>3, <2>1, ChatEndsKeeps
<1>6. CASE Chat!PostedSince(e, e.chat) # None
  <2> DEFINE post == Chat!PostedSince(e, e.chat)
             target == IF e.action = Chat!Link THEN post ELSE None
             req == [at |-> "write", target |-> target, entry |-> e]
  <2>1. Chat!Goes(t, req) /\ UNCHANGED changed
    BY <1>4a, <1>6 DEF Chat!Ask
  <2>2. ChatAnsweredBy(e, post)
    BY <1>6, ChatPostedSinceAnswers
  <2> HIDE DEF post
  <2>3. ChatAnsweredBy(e, target)
    BY <1>4, <2>2 DEF ChatAnsweredBy, ChatAsks, Chat!ActionFor
  <2> HIDE DEF target
  <2>4. req.at = "write" /\ req.target = target /\ req.entry = e
    OBVIOUS
  <2> HIDE DEF req
  <2>5. ChatSound(req, t \in changed', chat')
    BY <1>1, <1>4, <2>1, <2>3, <2>4 DEF ChatSound
  <2> QED BY <1>1, <1>2, <1>3, <2>1, <2>5, ChatGoesKeeps
<1> QED BY <1>5, <1>6

\* The chat is written by a request that goes on to `request`.
LEMMA ChatSetChatKeeps ==
  ASSUME ChatIInv, NEW t \in Workers, NEW target, Chat!SetChat(t, target), NEW req,
         Chat!Goes(t, req), UNCHANGED <<Chat!inDaemon, Chat!outside>>,
         req # None => req.at = "forget"
  PROVE  ChatIInv'
<1>1. chatNow' \in Nat /\ codes' \in Nat /\ held' \subseteq Nat /\ UNCHANGED posts /\ ChatPendingInv'
  BY ChatPendingKept DEF ChatIInv, ChatShapes, Chat!inDaemon, Chat!outside
<1>2. \A u \in Workers : u # t => \/ chat' = chat /\ (u \in changed => u \in changed')
                                  \/ task[u] # None => u \in changed'
  BY DEF Chat!SetChat
<1>3. req # None => ChatSound(req, t \in changed', chat')
  BY DEF ChatSound
<1> QED BY <1>1, <1>2, <1>3, ChatGoesKeeps

LEMMA ChatWriteKeeps ==
  ASSUME ChatIInv, NEW t \in Workers, Chat!Write(t)
  PROVE  ChatIInv'
<1>1. CASE registered
  BY <1>1, ChatSetChatKeeps DEF Chat!Write
<1>2. CASE ~registered
  <2>1. Chat!Ends(t) /\ UNCHANGED <<chat, Chat!inDaemon, Chat!outside>>
    BY <1>2 DEF Chat!Write
  <2>2. chatNow' \in Nat /\ codes' \in Nat /\ held' \subseteq Nat /\ UNCHANGED posts /\ ChatPendingInv'
    BY <2>1, ChatPendingKept DEF ChatIInv, ChatShapes, Chat!inDaemon, Chat!outside
  <2> QED BY <2>1, <2>2, ChatEndsKeeps
<1> QED BY <1>1, <1>2

\* Sign-ins and deletions.
LEMMA ChatOwnerKeeps ==
  ASSUME ChatIInv, NEW t \in Workers,
         Chat!SignIn(t) \/ Chat!Record(t) \/ Chat!DeleteAccount(t) \/ Chat!ForgetAccount(t)
             \/ Chat!ForceUnlink(t)
  PROVE  ChatIInv'
<1>1. CASE Chat!SignIn(t)
  <2> DEFINE req == [at |-> "record"]
  <2>1. Chat!Goes(t, req) /\ UNCHANGED <<chat, Chat!inDaemon, Chat!outside, changed>>
    BY <1>1 DEF Chat!SignIn
  <2>2. req.at = "record"
    OBVIOUS
  <2> HIDE DEF req
  <2>3. ChatSound(req, t \in changed', chat')
    BY <2>2 DEF ChatSound
  <2>4. chatNow' \in Nat /\ codes' \in Nat /\ held' \subseteq Nat /\ UNCHANGED posts /\ ChatPendingInv'
    BY <2>1, ChatPendingKept DEF ChatIInv, ChatShapes, Chat!inDaemon, Chat!outside
  <2> QED BY <2>1, <2>3, <2>4, ChatGoesKeeps
<1>2. CASE Chat!Record(t) \/ Chat!ForgetAccount(t)
  <2>1. /\ Chat!Ends(t) /\ UNCHANGED <<chat, codes, restarts, Chat!outside>>
        /\ pending' \in {pending, None}
    BY <1>2 DEF Chat!Record, Chat!ForgetAccount
  <2>2. chatNow' \in Nat /\ codes' \in Nat /\ held' \subseteq Nat /\ UNCHANGED posts /\ ChatPendingInv'
    BY <2>1, ChatPendingKept DEF ChatIInv, ChatShapes, Chat!outside
  <2> QED BY <2>1, <2>2, ChatEndsKeeps
<1>3. CASE Chat!DeleteAccount(t)
  <2> DEFINE req == [at |-> "forget"]
  <2>1. Chat!SetChat(t, None) /\ Chat!Goes(t, req) /\ UNCHANGED <<Chat!inDaemon, Chat!outside>>
    BY <1>3 DEF Chat!DeleteAccount
  <2>2. req.at = "forget"
    OBVIOUS
  <2> HIDE DEF req
  <2> QED BY <2>1, <2>2, ChatSetChatKeeps
<1>4. CASE Chat!ForceUnlink(t)
  <2>1. Chat!SetChat(t, None) /\ UNCHANGED <<Chat!inDaemon, Chat!outside, task>> /\ task[t] = None
    BY <1>4 DEF Chat!ForceUnlink
  <2>2. ChatAlone(t) /\ task'[t] = None
    BY <2>1 DEF ChatAlone, ChatIInv, ChatShapes
  <2>3. chatNow' \in Nat /\ codes' \in Nat /\ held' \subseteq Nat /\ UNCHANGED posts /\ ChatPendingInv'
    BY <2>1, ChatPendingKept DEF ChatIInv, ChatShapes, Chat!inDaemon, Chat!outside
  <2>4. \A u \in Workers : u # t => \/ chat' = chat /\ (u \in changed => u \in changed')
                                    \/ task[u] # None => u \in changed'
    BY <2>1 DEF Chat!SetChat
  <2> QED BY <2>2, <2>3, <2>4, ChatAloneKeeps
<1> QED BY <1>1, <1>2, <1>3, <1>4

LEMMA ChatPostKeeps ==
  ASSUME ChatIInv, Chat!Post
  PROVE  ChatIInv'
<1>1. PICK code \in held, from \in Chats :
        posts' = Append(posts, [code |-> code, chat |-> from, date |-> chatNow])
  BY DEF Chat!Post
<1>2. UNCHANGED <<registered, chat, Chat!inDaemon, chatNow, held, task, changed>>
  BY DEF Chat!Post
<1>3. [code |-> code, chat |-> from, date |-> chatNow] \in ChatMessages
  BY DEF ChatMessages, ChatIInv, ChatShapes
<1> DEFINE message == [code |-> code, chat |-> from, date |-> chatNow]
<1> HIDE DEF message
<1>4. posts \in Seq(ChatMessages)
  BY DEF ChatIInv, ChatShapes
<1>4a. posts' = Append(posts, message) /\ message \in ChatMessages
  BY <1>1, <1>3 DEF message
<1>5. /\ posts' \in Seq(ChatMessages) /\ \A i \in DOMAIN posts : i \in DOMAIN posts' /\ posts'[i] = posts[i]
  BY <1>4, <1>4a
<1>6. \A e, c : ChatAnsweredBy(e, c) => ChatAnsweredBy(e, c)'
  BY <1>5 DEF ChatAnsweredBy
<1>7. ChatShapes' /\ ChatPendingInv'
  BY <1>2, <1>5, ChatPendingKept DEF ChatIInv, ChatShapes, Chat!At, Chat!inDaemon
<1>8. ChatTaskInv'
  <2> SUFFICES ASSUME NEW u \in Workers
               PROVE  (/\ Chat!At(u, "recheck") => \E e : /\ task[u] = [at |-> "recheck", entry |-> e]
                                                          /\ ChatAsks(e)
                       /\ Chat!At(u, "ask") => \E e : /\ task[u] = [at |-> "ask", entry |-> e]
                                                      /\ ChatAsks(e)
                                                      /\ u \notin changed => chat = e.chat
                       /\ Chat!At(u, "write") => /\ ChatAnsweredBy(task[u].entry, task[u].target)
                                                 /\ u \notin changed => chat = task[u].entry.chat)'
    BY DEF ChatTaskInv
  <2>1. ChatAnsweredBy(task[u].entry, task[u].target) => ChatAnsweredBy(task[u].entry, task[u].target)'
    BY <1>2, <1>5 DEF ChatAnsweredBy
  <2>2. \A p : Chat!At(u, p)' <=> Chat!At(u, p)
    BY <1>2 DEF Chat!At
  <2>3. /\ Chat!At(u, "recheck") => \E e : task[u] = [at |-> "recheck", entry |-> e] /\ ChatAsks(e)
        /\ Chat!At(u, "ask") => \E e : /\ task[u] = [at |-> "ask", entry |-> e] /\ ChatAsks(e)
                                       /\ u \notin changed => chat = e.chat
        /\ Chat!At(u, "write") => /\ ChatAnsweredBy(task[u].entry, task[u].target)
                                  /\ u \notin changed => chat = task[u].entry.chat
    BY DEF ChatIInv, ChatTaskInv
  <2>4. \A e : ChatAsks(e)' <=> ChatAsks(e)
    BY DEF ChatAsks, Chat!ActionFor
  <2> QED BY <1>2, <2>1, <2>2, <2>3, <2>4
<1> QED BY <1>7, <1>8 DEF ChatIInv

\* A daemon that restarts serves nobody; the web tier goes on.
LEMMA ChatRestOfWorldKeeps ==
  ASSUME ChatIInv, Chat!RestartDaemon \/ Chat!Tick
  PROVE  ChatIInv'
<1>1. CASE Chat!Tick
  BY <1>1 DEF Chat!Tick, ChatIInv, ChatShapes, ChatPendingInv, ChatTaskInv, Chat!At,
     ChatAsks, Chat!ActionFor, ChatAnsweredBy, Chat!inDaemon
<1>2. CASE Chat!RestartDaemon
  <2>1. /\ pending' = None /\ UNCHANGED <<registered, chat, codes, Chat!outside>>
        /\ task' = [t \in Workers |-> IF Chat!At(t, "forget") THEN task[t] ELSE None]
    BY <1>2 DEF Chat!RestartDaemon
  <2>2. \A u \in Workers : \A p : Chat!At(u, p)' => p = "forget"
    BY <2>1 DEF Chat!At
  <2>3. \A u \in Workers : /\ ~Chat!At(u, "recheck")' /\ ~Chat!At(u, "ask")' /\ ~Chat!At(u, "write")'
                           /\ ~Chat!At(u, "deliver")' /\ ~Chat!At(u, "store")'
    BY <2>2
  <2>4. DOMAIN task' = Workers
    BY <2>1
  <2>5. ChatShapes'
    BY <2>1, <2>3, <2>4 DEF ChatIInv, ChatShapes, Chat!outside
  <2>6. ChatTaskInv'
    BY <2>3 DEF ChatTaskInv
  <2> QED BY <2>1, <2>5, <2>6 DEF ChatIInv, ChatPendingInv
<1> QED BY <1>1, <1>2

\* The one step that takes a request from its write is the write, and that of
\* another thread or a restart writes no chat.
LEMMA ChatStepAnswered ==
  ASSUME ChatIInv, [Chat!Next]_(Chat!vars)
  PROVE  Chat!ChangeStep
<1> SUFFICES ASSUME NEW t \in Workers, Chat!At(t, "write"), task'[t] = None, chat' # chat
             PROVE  Chat!Answered(t) \/ t \in changed
  BY DEF Chat!ChangeStep, Chat!Writes
<1>0. task[t] # None
  BY DEF Chat!At
<1>1. Chat!Write(t)
  <2>1. ASSUME NEW u \in Workers, Chat!Step(u) PROVE Chat!Write(t)
    <3>1. CASE u = t
      <4>1. \A p : Chat!At(t, p) => p = "write"
        BY DEF Chat!At
      <4> QED BY <1>0, <2>1, <3>1, <4>1 DEF Chat!Step, Chat!Begin, Chat!Deliver,
                 Chat!Store, Chat!Claim, Chat!Recheck, Chat!Ask, Chat!SignIn,
                 Chat!Record, Chat!DeleteAccount, Chat!ForgetAccount, Chat!ForceUnlink
    <3>2. CASE u # t
      <4>1. \A req : Chat!Goes(u, req) => task'[t] = task[t]
        BY <3>2 DEF Chat!Goes, ChatIInv, ChatShapes
      <4>2. CASE Chat!Write(u) \/ Chat!DeleteAccount(u)
        <5>1. Chat!Goes(u, None) \/ Chat!Goes(u, [at |-> "forget"])
          BY <4>2 DEF Chat!Write, Chat!DeleteAccount, Chat!Ends
        <5> QED BY <1>0, <4>1, <5>1
      <4>3. CASE Chat!ForceUnlink(u)
        BY <1>0, <4>3 DEF Chat!ForceUnlink
      <4> QED BY <2>1, <4>2, <4>3 DEF Chat!Step, Chat!Begin, Chat!Deliver, Chat!Store,
                 Chat!Claim, Chat!Recheck, Chat!Ask, Chat!SignIn,
                 Chat!Record, Chat!ForgetAccount
    <3> QED BY <3>1, <3>2
  <2>2. CASE Chat!Post \/ Chat!RestartDaemon \/ Chat!Tick \/ UNCHANGED Chat!vars
    BY <2>2 DEF Chat!Post, Chat!RestartDaemon, Chat!Tick, Chat!vars
  <2> QED BY <2>1, <2>2 DEF Chat!Next
<1>2. registered /\ chat' = task[t].target
  BY <1>1 DEF Chat!Write, Chat!SetChat
<1>3. ASSUME t \notin changed PROVE Chat!Answered(t)
  <2>1. ChatAnsweredBy(task[t].entry, task[t].target) /\ chat = task[t].entry.chat
    BY <1>3 DEF ChatIInv, ChatTaskInv
  <2> QED BY <1>2, <2>1 DEF Chat!Answered, ChatAnsweredBy
<1> QED BY <1>3

LEMMA ChatStepKeeps ==
  ASSUME ChatIInv, [Chat!Next]_(Chat!vars)
  PROVE  ChatIInv' /\ Chat!ChangeStep
<1>1. ASSUME NEW t \in Workers, Chat!Step(t) PROVE ChatIInv'
  BY <1>1, ChatBeginKeeps, ChatDeliverKeeps, ChatStoreKeeps, ChatClaimKeeps,
     ChatRecheckKeeps, ChatAskKeeps, ChatWriteKeeps,
     ChatOwnerKeeps DEF Chat!Step
<1>2. ASSUME UNCHANGED Chat!vars PROVE ChatIInv'
  <2>1. UNCHANGED <<chatNow, codes, held, posts, task, pending, chat, changed>>
    BY <1>2 DEF Chat!vars, Chat!inDaemon, Chat!outside
  <2>2. ChatShapes' /\ ChatPendingInv'
    BY <2>1 DEF ChatIInv, ChatShapes, ChatPendingInv, Chat!At, ChatAsks, Chat!ActionFor
  <2>3. ChatTaskInv'
    <3> SUFFICES ASSUME NEW u \in Workers
                 PROVE  (/\ Chat!At(u, "recheck") => \E e : /\ task[u] = [at |-> "recheck", entry |-> e]
                                                            /\ ChatAsks(e)
                         /\ Chat!At(u, "ask") => \E e : /\ task[u] = [at |-> "ask", entry |-> e]
                                                        /\ ChatAsks(e)
                                                        /\ u \notin changed => chat = e.chat
                         /\ Chat!At(u, "write") => /\ ChatAnsweredBy(task[u].entry, task[u].target)
                                                   /\ u \notin changed => chat = task[u].entry.chat)'
      BY DEF ChatTaskInv
    <3>1. ChatAnsweredBy(task[u].entry, task[u].target) => ChatAnsweredBy(task[u].entry, task[u].target)'
      BY <2>1 DEF ChatAnsweredBy
    <3>2. \A p : Chat!At(u, p)' <=> Chat!At(u, p)
      BY <2>1 DEF Chat!At
    <3>3. \A e : ChatAsks(e)' <=> ChatAsks(e)
      BY DEF ChatAsks, Chat!ActionFor
    <3> QED BY <2>1, <3>1, <3>2, <3>3 DEF ChatIInv, ChatTaskInv
  <2> QED BY <2>2, <2>3 DEF ChatIInv
<1>3. ChatIInv'
  BY <1>1, <1>2, ChatPostKeeps, ChatRestOfWorldKeeps DEF Chat!Next
<1> QED BY <1>3, ChatStepAnswered

-----------------------------------------------------------------------------
\* Where `part` is this component's, its steps are the only ones; elsewhere its
\* variables stand still.
LEMMA ChatIsAPart == Spec => Chat!Spec
<1>1. Init => Chat!Init
  BY DEF Init
<1>2. [Next]_vars => [Chat!Next]_(Chat!vars)
  BY DEF Next, vars, chatVars, Chat!vars, Chat!inDaemon, Chat!outside
<1> QED BY <1>1, <1>2, PTL DEF Spec, Chat!Spec

\* For any chats, codes, requests at once, restarts and deletions: a chat is linked
\* or detached only on its own answer to this very request, except where another
\* request changed the chat after this one compared it (accounts/chat_link.py).
THEOREM ChangesAlwaysAnswered == Spec => ChangeAnswered
<1>1. Chat!Init => ChatIInv
  BY ChatInitIInv
<1>2. ChatIInv /\ [Chat!Next]_(Chat!vars) => ChatIInv'
  BY ChatStepKeeps
<1>3. ChatIInv /\ [Chat!Next]_(Chat!vars) => [part = "chat" => Chat!ChangeStep]_chatVars
  BY ChatStepKeeps
<1> QED BY <1>1, <1>2, <1>3, ChatIsAPart, PTL DEF Chat!Spec, ChangeAnswered

-----------------------------------------------------------------------------
(* AuditTrail (backend/audit.py, daemons/daemon_loop.py).                    *)
(* How old a row may be follows from the daemon's own mark: except while     *)
(* its thread is pruning, no row is further behind that mark than the        *)
(* failures and deaths so far account for (TrailAgeInv).                     *)

\* A change of an account, and its row.
TrailMadeBy == [by : Trail!Threads, source : Sources \cup {None}, ts : Nat \cup {None},
                fate : {"saved", "recorded", "told", "crashed"}]
TrailRow == [change : Nat, ts : Nat, source : Sources \cup {None}]
TrailDue == {"prune?", "prune"}

TrailShapes ==
  /\ trailNow \in Nat /\ lastPass \in Nat /\ faults \in Nat /\ dbCrashes \in Nat
  /\ serves \in [Trail!Threads -> Sources \cup {None}]
  /\ writing \in [Trail!Threads -> [step : {"idle", "record"} \cup TrailDue, now : Nat, change : Nat]]
  /\ lastPrune \in [Trail!Processes -> Nat]
  /\ made \in Seq(TrailMadeBy)
  /\ events \in SUBSET TrailRow

\* The thread carries the address of the request it serves.
TrailOriginInv == origin = serves

\* A thread between two clock readings of one change or one round.
TrailTimesInv ==
  /\ lastPass <= trailNow /\ trailNow <= lastPass + WAKE_POLL
  /\ \A p \in Trail!Processes : lastPrune[p] <= trailNow
  /\ \A t \in Trail!Threads :
       /\ writing[t].step = "idle" => writing[t] = Trail!Idle
       /\ writing[t].step \in TrailDue => writing[t].now = trailNow
       /\ writing[t].step = "prune" => lastPrune[Trail!ProcessOf(t)] = trailNow
  /\ writing[Daemon].step \in TrailDue /\ writing[Daemon].change = 0 => lastPass = trailNow

\* A change that is saved is in the hand of the thread that made it.
TrailSavedInv ==
  /\ \A t \in Trail!Threads : writing[t].step = "record" =>
       /\ writing[t].change \in DOMAIN made
       /\ made[writing[t].change].fate = "saved" /\ made[writing[t].change].by = t
       /\ made[writing[t].change].source = serves[t]
       /\ t # Daemon => serves[t] # None
  /\ \A c \in DOMAIN made : made[c].fate = "saved" =>
       writing[made[c].by].step = "record" /\ writing[made[c].by].change = c

\* A recorded change has its row, or had it for as long as rows are kept.
TrailRecordedInv ==
  \A c \in DOMAIN made : made[c].fate = "recorded" =>
    /\ made[c].ts \in Nat
    /\ \/ \E e \in events : e.change = c /\ e.ts = made[c].ts /\ e.source = made[c].source
       \/ trailNow - made[c].ts > RETENTION

TrailRowsInv == \A e \in events : e.change \in DOMAIN made /\ e.ts <= trailNow

\* How far a row may be behind the mark of the daemon's last prune.
TrailBehindAfter(f, c) == RETENTION + f * (PRUNE_INTERVAL + WAKE_POLL) + c * WAKE_POLL
TrailBehind == TrailBehindAfter(faults, dbCrashes)

\* The daemon's round keeps the rows' age: from its mark, from the end of its
\* last round, and always.
TrailAgeInv ==
  /\ writing[Daemon].step # "prune" => \A e \in events : lastPrune["daemon"] - e.ts <= TrailBehind
  /\ ~(writing[Daemon].step \in TrailDue /\ writing[Daemon].change = 0) =>
       \A e \in events : lastPass - e.ts <= TrailBehind + PRUNE_INTERVAL
  /\ \A e \in events : trailNow - e.ts <= TrailBehind + PRUNE_INTERVAL + WAKE_POLL

TrailIInv ==
  TrailShapes /\ TrailOriginInv /\ TrailTimesInv /\ TrailSavedInv /\ TrailRecordedInv
      /\ TrailRowsInv /\ TrailAgeInv

LEMMA TrailInitIInv ==
  ASSUME Trail!AuditTrailAssumption
  PROVE  Trail!Init => TrailIInv
BY DEF Trail!AuditTrailAssumption, TrailBehind, TrailBehindAfter, Trail!Init,
   TrailIInv, TrailShapes, TrailOriginInv, TrailTimesInv, TrailSavedInv,
   TrailRecordedInv,
   TrailRowsInv, TrailAgeInv, Trail!Idle, Trail!Threads, Trail!Processes, TrailDue,
   Trail!ProcessOf, TrailRow, TrailMadeBy

LEMMA TrailRewritten ==
  ASSUME NEW c \in DOMAIN made, made \in Seq(TrailMadeBy), NEW r \in TrailMadeBy,
         made' = [made EXCEPT ![c] = r]
  PROVE  /\ made' \in Seq(TrailMadeBy) /\ DOMAIN made' = DOMAIN made /\ made'[c] = r
         /\ \A d \in DOMAIN made : d # c => made'[d] = made[d]
<1> HIDE DEF TrailMadeBy
<1> QED OBVIOUS

LEMMA TrailDaemonThread ==
  /\ Daemon \in Trail!Threads /\ Trail!ProcessOf(Daemon) = "daemon"
  /\ \A t \in Trail!Threads : Trail!ProcessOf(t) \in Trail!Processes
BY DEF Trail!Threads, Trail!ProcessOf, Trail!Processes

LEMMA TrailBehindGrows ==
  ASSUME Trail!AuditTrailAssumption, NEW f \in Nat, NEW c \in Nat
  PROVE  /\ TrailBehindAfter(f, c) \in Nat /\ RETENTION <= TrailBehindAfter(f, c)
         /\ TrailBehindAfter(f + 1, c) = TrailBehindAfter(f, c) + PRUNE_INTERVAL + WAKE_POLL
         /\ TrailBehindAfter(f, c + 1) = TrailBehindAfter(f, c) + WAKE_POLL
<1> DEFINE i == PRUNE_INTERVAL
           w == WAKE_POLL
           x == f * (i + w)
           y == c * w
<1>1. i \in Nat /\ w \in Nat /\ RETENTION \in Nat
  BY DEF Trail!AuditTrailAssumption
<1>2. x \in Nat /\ y \in Nat
  BY <1>1
<1>3. (f + 1) * (i + w) = x + i + w /\ (c + 1) * w = y + w
  BY <1>1
<1>4. /\ TrailBehindAfter(f, c) = RETENTION + x + y
      /\ TrailBehindAfter(f + 1, c) = RETENTION + (x + i + w) + y
      /\ TrailBehindAfter(f, c + 1) = RETENTION + x + (y + w)
  BY <1>3 DEF TrailBehindAfter
<1> HIDE DEF i, w, x, y
<1> QED BY <1>1, <1>2, <1>4 DEF i, w

\* Requests come and go without a change in hand.
LEMMA TrailRequestKeeps ==
  ASSUME Trail!AuditTrailAssumption, TrailIInv, NEW t \in Trail!Threads,
         Trail!Request(t) \/ Trail!Respond(t)
  PROVE  TrailIInv'
<1>1. /\ UNCHANGED <<trailNow, writing, events, lastPrune, lastPass, made, faults, dbCrashes>>
      /\ \E s \in Sources \cup {None} :
           /\ serves' = [serves EXCEPT ![t] = s] /\ origin' = [origin EXCEPT ![t] = s]
      /\ writing[t].step # "record"
  BY DEF Trail!Request, Trail!Respond, Trail!SetOrigin, TrailIInv, TrailSavedInv,
     Trail!Idle
<1>2. TrailShapes' /\ TrailOriginInv'
  BY <1>1 DEF TrailIInv, TrailShapes, TrailOriginInv, TrailRow, TrailMadeBy
<1>3. TrailSavedInv'
  BY <1>1 DEF TrailIInv, TrailShapes, TrailSavedInv
<1>4. TrailTimesInv' /\ TrailRecordedInv' /\ TrailRowsInv' /\ TrailAgeInv'
  BY <1>1 DEF TrailIInv, TrailTimesInv, TrailRecordedInv, TrailRowsInv, TrailAgeInv,
     TrailBehind
<1> QED BY <1>2, <1>3, <1>4 DEF TrailIInv

LEMMA TrailChangeKeeps ==
  ASSUME Trail!AuditTrailAssumption, TrailIInv, NEW t \in Trail!Threads, Trail!Change(t)
  PROVE  TrailIInv'
<1> DEFINE n == Len(made) + 1
           new == [by |-> t, source |-> serves[t], ts |-> None, fate |-> "saved"]
<1>1. /\ UNCHANGED <<trailNow, origin, serves, events, lastPrune, lastPass, faults, dbCrashes>>
      /\ writing' = [writing EXCEPT ![t] = [step |-> "record", now |-> 0, change |-> n]]
      /\ made' = Append(made, new) /\ new \in TrailMadeBy /\ writing[t] = Trail!Idle
      /\ t # Daemon => serves[t] # None
  BY DEF Trail!Change, Trail!Becomes, TrailIInv, TrailShapes, TrailMadeBy
<1>2. /\ made' \in Seq(TrailMadeBy) /\ DOMAIN made' = DOMAIN made \cup {n} /\ n \in Nat
      /\ n \notin DOMAIN made /\ made'[n] = new
      /\ \A c \in DOMAIN made : made'[c] = made[c]
  <2> HIDE DEF new
  <2> QED BY <1>1 DEF TrailIInv, TrailShapes
<1>3. TrailShapes' /\ TrailOriginInv'
  BY <1>1, <1>2 DEF TrailIInv, TrailShapes, TrailOriginInv, TrailDue
<1>4. TrailTimesInv'
  BY <1>1 DEF TrailIInv, TrailShapes, TrailTimesInv, TrailDue, Trail!Idle
<1>5. TrailSavedInv'
  BY <1>1, <1>2 DEF TrailIInv, TrailShapes, TrailSavedInv, Trail!Idle, TrailMadeBy
<1>6. TrailRecordedInv' /\ TrailRowsInv'
  <2>1. new.fate # "recorded"
    OBVIOUS
  <2> HIDE DEF new, n
  <2> QED BY <1>1, <1>2, <2>1 DEF TrailIInv, TrailRecordedInv, TrailRowsInv
<1>7. TrailAgeInv'
  BY <1>1, TrailDaemonThread DEF TrailIInv, TrailShapes, TrailAgeInv, TrailBehind,
     Trail!Idle, TrailDue
<1> QED BY <1>3, <1>4, <1>5, <1>6, <1>7 DEF TrailIInv

\* A row is committed with the address its thread carries, which is the
\* request's; or the write fails, and the mutator's caller is told.
LEMMA TrailRecordKeeps ==
  ASSUME Trail!AuditTrailAssumption, TrailIInv, NEW t \in Trail!Threads, Trail!Record(t)
  PROVE  TrailIInv'
<1> DEFINE c == writing[t].change
           entry == [change |-> c, ts |-> trailNow, source |-> origin[t]]
<1>1. /\ UNCHANGED <<trailNow, origin, serves, lastPrune, lastPass, dbCrashes>>
      /\ writing[t].step = "record" /\ c \in DOMAIN made /\ made[c].by = t
      /\ made[c].source = serves[t] /\ origin[t] = serves[t] /\ c \in Nat
      /\ writing[t].change = c
  BY DEF Trail!Record, TrailIInv, TrailShapes, TrailSavedInv, TrailOriginInv
<1>2. CASE /\ events' = events \cup {entry}
           /\ made' = [made EXCEPT ![c].ts = trailNow, ![c].fate = "recorded"]
           /\ writing' = [writing EXCEPT ![t] = [writing[t] EXCEPT !.step = "prune?", !.now = trailNow]]
           /\ UNCHANGED faults
  <2>1. /\ made' \in Seq(TrailMadeBy) /\ DOMAIN made' = DOMAIN made
        /\ \A d \in DOMAIN made : d # c => made'[d] = made[d]
        /\ made'[c].ts = trailNow /\ made'[c].fate = "recorded" /\ made'[c].by = t
        /\ made'[c].source = serves[t]
    <3> DEFINE r == [made[c] EXCEPT !.ts = trailNow, !.fate = "recorded"]
    <3>1. made \in Seq(TrailMadeBy) /\ made[c] \in TrailMadeBy
      BY <1>1 DEF TrailIInv, TrailShapes
    <3>2. /\ r \in TrailMadeBy /\ r.ts = trailNow /\ r.fate = "recorded" /\ r.by = t
          /\ r.source = serves[t]
      BY <1>1, <3>1 DEF TrailIInv, TrailShapes, TrailMadeBy
    <3>3. made' = [made EXCEPT ![c] = r]
      BY <1>1, <1>2, <3>1 DEF TrailMadeBy
    <3> HIDE DEF r, c
    <3> QED BY <1>1, <3>1, <3>2, <3>3, TrailRewritten
  <2>2. /\ entry \in TrailRow /\ entry.change = c /\ entry.ts = trailNow /\ entry.source = serves[t]
    BY <1>1 DEF TrailIInv, TrailShapes, TrailRow
  <2>3. /\ writing'[t].step = "prune?" /\ writing'[t].now = trailNow /\ writing'[t].change = c
        /\ writing' \in [Trail!Threads -> [step : {"idle", "record"} \cup TrailDue, now : Nat, change : Nat]]
        /\ \A u \in Trail!Threads : u # t => writing'[u] = writing[u]
    BY <1>1, <1>2 DEF TrailIInv, TrailShapes, TrailDue
  <2> HIDE DEF c, entry
  <2>4. TrailShapes' /\ TrailOriginInv'
    BY <1>1, <1>2, <2>1, <2>2, <2>3 DEF TrailIInv, TrailShapes, TrailOriginInv
  <2>5. c # 0
    BY <1>1 DEF TrailIInv, TrailShapes
  <2>6. TrailTimesInv'
    BY <1>1, <1>2, <2>3, <2>5, TrailDaemonThread DEF TrailIInv, TrailTimesInv, TrailDue
  <2>7. TrailSavedInv'
    <3>1. ASSUME NEW u \in Trail!Threads, u # t, writing[u].step = "record"
          PROVE  writing[u].change \in DOMAIN made /\ writing[u].change # c
      BY <1>1, <3>1 DEF TrailIInv, TrailSavedInv
    <3>2. ASSUME NEW d \in DOMAIN made, d # c, made[d].fate = "saved"
          PROVE  made[d].by \in Trail!Threads /\ made[d].by # t
      <4>1. made[d] \in TrailMadeBy
        BY DEF TrailIInv, TrailShapes
      <4> QED BY <1>1, <3>2, <4>1 DEF TrailIInv, TrailSavedInv, TrailMadeBy
    <3>3. writing'[t].step # "record" /\ made'[c].fate # "saved"
      BY <2>1, <2>3
    <3>4. \A u \in Trail!Threads : writing'[u].step = "record" =>
            u # t /\ writing'[u] = writing[u] /\ made'[writing[u].change] = made[writing[u].change]
      BY <2>1, <2>3, <3>1, <3>3
    <3>5. \A d \in DOMAIN made' : made'[d].fate = "saved" =>
            d # c /\ made'[d] = made[d] /\ writing'[made[d].by] = writing[made[d].by]
      BY <2>1, <2>3, <3>2, <3>3
    <3> QED BY <1>1, <2>1, <3>1, <3>4, <3>5 DEF TrailIInv, TrailSavedInv
  <2>8. TrailRecordedInv' /\ TrailRowsInv'
    <3>1. events \subseteq events' /\ entry \in events' /\ trailNow \in Nat
      BY <1>2 DEF TrailIInv, TrailShapes
    <3>2. \A d \in DOMAIN made : d # c => made'[d] = made[d]
      BY <2>1
    <3>3. TrailRecordedInv'
      BY <1>1, <2>1, <2>2, <3>1, <3>2 DEF TrailIInv, TrailRecordedInv
    <3>4. TrailRowsInv'
      BY <1>1, <1>2, <2>1, <2>2, <3>1 DEF TrailIInv, TrailRowsInv
    <3> QED BY <3>3, <3>4
  <2>9. TrailAgeInv'
    <3>1. TrailBehind' = TrailBehind /\ TrailBehind \in Nat
      BY <1>1, <1>2, TrailBehindGrows DEF TrailBehind, TrailIInv, TrailShapes,
         Trail!AuditTrailAssumption
    <3>2. /\ lastPrune["daemon"] \in Nat /\ lastPass \in Nat /\ trailNow \in Nat
          /\ lastPrune["daemon"] <= trailNow /\ lastPass <= trailNow
      BY DEF TrailIInv, TrailShapes, TrailTimesInv, Trail!Processes
    <3>3. /\ lastPrune["daemon"] - entry.ts <= TrailBehind
          /\ lastPass - entry.ts <= TrailBehind + PRUNE_INTERVAL
          /\ trailNow - entry.ts <= TrailBehind + PRUNE_INTERVAL + WAKE_POLL
      BY <2>2, <3>1, <3>2 DEF Trail!AuditTrailAssumption
    <3>4. /\ (writing'[Daemon].step = "prune") => (writing[Daemon].step = "prune")
          /\ (writing'[Daemon].step \in TrailDue /\ writing'[Daemon].change = 0) <=>
             (writing[Daemon].step \in TrailDue /\ writing[Daemon].change = 0)
      BY <1>1, <2>3, <2>5, TrailDaemonThread DEF TrailDue
    <3>5. ~(writing'[Daemon].step = "prune") <=> ~(writing[Daemon].step = "prune")
      BY <1>1, <2>3, TrailDaemonThread
    <3> QED BY <1>1, <1>2, <3>1, <3>3, <3>4, <3>5 DEF TrailIInv, TrailAgeInv
  <2> QED BY <2>4, <2>6, <2>7, <2>8, <2>9 DEF TrailIInv
<1>3. CASE Trail!Fault /\ Trail!Fate(c, "told") /\ Trail!Becomes(t, Trail!Idle) /\ UNCHANGED events
  <2>1. /\ made' \in Seq(TrailMadeBy) /\ DOMAIN made' = DOMAIN made
        /\ \A d \in DOMAIN made : d # c => made'[d] = made[d]
        /\ made'[c].fate = "told"
    <3> DEFINE r == [made[c] EXCEPT !.fate = "told"]
    <3>1. made \in Seq(TrailMadeBy) /\ made[c] \in TrailMadeBy
      BY <1>1 DEF TrailIInv, TrailShapes
    <3>2. r \in TrailMadeBy /\ r.fate = "told"
      BY <3>1 DEF TrailMadeBy
    <3>3. made' = [made EXCEPT ![c] = r]
      BY <1>1, <1>3, <3>1 DEF Trail!Fate
    <3> HIDE DEF r, c
    <3> QED BY <1>1, <3>1, <3>2, <3>3, TrailRewritten
  <2>2. /\ writing'[t] = Trail!Idle
        /\ writing' \in [Trail!Threads -> [step : {"idle", "record"} \cup TrailDue, now : Nat, change : Nat]]
        /\ \A u \in Trail!Threads : u # t => writing'[u] = writing[u]
    BY <1>1, <1>3 DEF TrailIInv, TrailShapes, TrailDue, Trail!Becomes, Trail!Idle
  <2>3. faults' = faults + 1 /\ UNCHANGED events
    BY <1>3 DEF Trail!Fault
  <2> HIDE DEF c
  <2>4. TrailShapes' /\ TrailOriginInv'
    BY <1>1, <2>1, <2>2, <2>3 DEF TrailIInv, TrailShapes, TrailOriginInv
  <2>6. TrailTimesInv'
    BY <1>1, <2>2, <2>3, TrailDaemonThread DEF TrailIInv, TrailTimesInv, TrailDue,
       Trail!Idle
  <2>7. TrailSavedInv'
    <3>1. ASSUME NEW u \in Trail!Threads, u # t, writing[u].step = "record"
          PROVE  writing[u].change \in DOMAIN made /\ writing[u].change # c
      BY <1>1, <3>1 DEF TrailIInv, TrailSavedInv
    <3>2. ASSUME NEW d \in DOMAIN made, d # c, made[d].fate = "saved"
          PROVE  made[d].by \in Trail!Threads /\ made[d].by # t
      <4>1. made[d] \in TrailMadeBy
        BY DEF TrailIInv, TrailShapes
      <4> QED BY <1>1, <3>2, <4>1 DEF TrailIInv, TrailSavedInv, TrailMadeBy
    <3>3. writing'[t].step # "record" /\ made'[c].fate # "saved"
      BY <2>1, <2>2 DEF Trail!Idle
    <3>4. \A u \in Trail!Threads : writing'[u].step = "record" =>
            u # t /\ writing'[u] = writing[u] /\ made'[writing[u].change] = made[writing[u].change]
      BY <2>1, <2>2, <3>1, <3>3
    <3>5. \A d \in DOMAIN made' : made'[d].fate = "saved" =>
            d # c /\ made'[d] = made[d] /\ writing'[made[d].by] = writing[made[d].by]
      BY <2>1, <2>2, <3>2, <3>3
    <3> QED BY <1>1, <2>1, <3>1, <3>4, <3>5 DEF TrailIInv, TrailSavedInv
  <2>8. TrailRecordedInv' /\ TrailRowsInv'
    BY <1>1, <2>1, <2>3 DEF TrailIInv, TrailShapes, TrailRecordedInv, TrailRowsInv
  <2>9. TrailAgeInv'
    <3>1. TrailBehind' = TrailBehind + PRUNE_INTERVAL + WAKE_POLL /\ TrailBehind \in Nat
      BY <1>1, <2>3, TrailBehindGrows DEF TrailBehind, TrailIInv, TrailShapes,
         Trail!AuditTrailAssumption
    <3>2. \A e \in events : e.ts \in Nat
      BY DEF TrailIInv, TrailShapes, TrailRow
    <3>3. /\ lastPrune["daemon"] \in Nat /\ lastPass \in Nat /\ trailNow \in Nat
          /\ lastPrune["daemon"] <= trailNow /\ lastPass <= trailNow
      BY DEF TrailIInv, TrailShapes, TrailTimesInv, Trail!Processes
    <3>4. \A e \in events : trailNow - e.ts <= TrailBehind + PRUNE_INTERVAL + WAKE_POLL
      BY DEF TrailIInv, TrailAgeInv
    <3>5. \A e \in events : /\ lastPrune["daemon"] - e.ts <= TrailBehind'
                            /\ lastPass - e.ts <= TrailBehind' + PRUNE_INTERVAL
                            /\ trailNow - e.ts <= TrailBehind' + PRUNE_INTERVAL + WAKE_POLL
      BY <3>1, <3>2, <3>3, <3>4 DEF Trail!AuditTrailAssumption
    <3> QED BY <1>1, <2>3, <3>5 DEF TrailAgeInv
  <2> QED BY <2>4, <2>6, <2>7, <2>8, <2>9 DEF TrailIInv
<1> QED BY <1>2, <1>3 DEF Trail!Record, Trail!Becomes

\* A round of the daemon's loop begins.
LEMMA TrailPassKeeps ==
  ASSUME Trail!AuditTrailAssumption, TrailIInv, Trail!Pass
  PROVE  TrailIInv'
<1> DEFINE due == [step |-> "prune?", now |-> trailNow, change |-> 0]
<1>1. /\ UNCHANGED <<trailNow, origin, serves, events, lastPrune, made, faults, dbCrashes>>
      /\ lastPass' = trailNow /\ writing[Daemon] = Trail!Idle /\ writing' = [writing EXCEPT ![Daemon] = due]
      /\ due \in [step : {"idle", "record"} \cup TrailDue, now : Nat, change : Nat]
  BY DEF Trail!Pass, Trail!Becomes, TrailIInv, TrailShapes, TrailDue
<1>2. TrailShapes' /\ TrailOriginInv' /\ TrailSavedInv' /\ TrailRecordedInv' /\ TrailRowsInv'
  BY <1>1, TrailDaemonThread
     DEF TrailIInv, TrailShapes, TrailOriginInv, TrailSavedInv, TrailRecordedInv,
     TrailRowsInv, Trail!Idle
<1>3. TrailTimesInv'
  BY <1>1, TrailDaemonThread DEF TrailIInv, TrailShapes, TrailTimesInv, Trail!Idle,
     TrailDue, Trail!AuditTrailAssumption
<1>4. TrailAgeInv'
  BY <1>1, TrailDaemonThread DEF TrailIInv, TrailShapes, TrailAgeInv, Trail!Idle,
     TrailDue, TrailBehind
<1> QED BY <1>2, <1>3, <1>4 DEF TrailIInv

\* The prune is due by the mark of the thread's process, or it is not.
LEMMA TrailMaybePruneKeeps ==
  ASSUME Trail!AuditTrailAssumption, TrailIInv, NEW t \in Trail!Threads, Trail!MaybePrune(t)
  PROVE  TrailIInv'
<1> DEFINE p == Trail!ProcessOf(t)
<1>1. /\ UNCHANGED <<trailNow, origin, serves, events, lastPass, made, faults, dbCrashes>>
      /\ writing[t].step = "prune?" /\ writing[t].now = trailNow /\ p \in Trail!Processes
      /\ lastPrune[p] <= trailNow /\ lastPrune \in [Trail!Processes -> Nat] /\ trailNow \in Nat
  BY TrailDaemonThread DEF Trail!MaybePrune, TrailIInv, TrailShapes, TrailTimesInv,
     TrailDue
<1>2. /\ writing' \in [Trail!Threads -> [step : {"idle", "record"} \cup TrailDue, now : Nat, change : Nat]]
      /\ \A u \in Trail!Threads : u # t => writing'[u] = writing[u]
      /\ lastPrune' \in [Trail!Processes -> Nat]
      /\ \A q \in Trail!Processes : lastPrune'[q] = lastPrune[q] \/ lastPrune'[q] = trailNow
  <2>1. CASE writing' = [writing EXCEPT ![t] = Trail!Idle] /\ UNCHANGED lastPrune
    BY <1>1, <2>1 DEF Trail!Idle, TrailIInv, TrailShapes, TrailDue
  <2>2. CASE /\ writing' = [writing EXCEPT ![t].step = "prune"]
             /\ lastPrune' = [lastPrune EXCEPT ![p] = trailNow]
    BY <1>1, <2>2 DEF TrailIInv, TrailShapes, TrailDue
  <2> QED BY <1>1, <2>1, <2>2 DEF Trail!MaybePrune, Trail!Becomes, Trail!GoesTo
<1>3. TrailShapes' /\ TrailOriginInv' /\ TrailRecordedInv' /\ TrailRowsInv'
  BY <1>1, <1>2 DEF TrailIInv, TrailShapes, TrailOriginInv, TrailRecordedInv,
     TrailRowsInv
<1>4. writing'[t].step # "record"
  BY <1>1 DEF Trail!MaybePrune, Trail!Becomes, Trail!GoesTo, Trail!Idle, TrailIInv,
     TrailShapes
<1>5. TrailSavedInv'
  <2>1. \A d \in DOMAIN made : made[d].fate = "saved" => made[d].by \in Trail!Threads
    <3>1. \A d \in DOMAIN made : made[d] \in TrailMadeBy
      BY DEF TrailIInv, TrailShapes
    <3> QED BY <3>1 DEF TrailMadeBy
  <2> QED BY <1>1, <1>2, <1>4, <2>1 DEF TrailIInv, TrailSavedInv
<1>6. CASE trailNow - lastPrune[p] < PRUNE_INTERVAL
  <2>1. writing' = [writing EXCEPT ![t] = Trail!Idle] /\ UNCHANGED lastPrune
    BY <1>1, <1>6 DEF Trail!MaybePrune, Trail!Becomes
  <2>2. TrailTimesInv'
    BY <1>1, <2>1, TrailDaemonThread DEF TrailIInv, TrailShapes, TrailTimesInv,
       Trail!Idle, TrailDue
  <2>3. TrailAgeInv'
    <3>1. UNCHANGED TrailBehind /\ TrailBehind \in Nat
      BY <1>1, TrailBehindGrows DEF TrailBehind, TrailIInv, TrailShapes,
         Trail!AuditTrailAssumption
    <3>2. \A e \in events : e.ts \in Nat
      BY DEF TrailIInv, TrailShapes, TrailRow
    <3>3. t = Daemon => \A e \in events : lastPrune["daemon"] - e.ts <= TrailBehind
      BY <1>1 DEF TrailIInv, TrailAgeInv
    <3>4. t = Daemon => \A e \in events : trailNow - e.ts <= TrailBehind + PRUNE_INTERVAL
      BY <1>1, <1>6, <3>1, <3>2, <3>3, TrailDaemonThread DEF Trail!AuditTrailAssumption
    <3>5. t = Daemon => \A e \in events : lastPass - e.ts <= TrailBehind + PRUNE_INTERVAL
      BY <1>1, <3>1, <3>2, <3>4 DEF TrailIInv, TrailShapes, TrailTimesInv,
         Trail!AuditTrailAssumption
    <3> QED BY <1>1, <2>1, <3>1, <3>3, <3>5, TrailDaemonThread DEF TrailIInv,
               TrailShapes, TrailAgeInv, Trail!Idle, TrailDue
  <2> QED BY <1>3, <1>5, <2>2, <2>3 DEF TrailIInv
<1>7. CASE ~(trailNow - lastPrune[p] < PRUNE_INTERVAL)
  <2>1. /\ writing'[t].step = "prune" /\ writing'[t].now = trailNow /\ writing'[t].change = writing[t].change
        /\ lastPrune' = [lastPrune EXCEPT ![p] = trailNow]
    BY <1>1, <1>7 DEF Trail!MaybePrune, Trail!GoesTo, TrailIInv, TrailShapes
  <2>2. TrailTimesInv'
    <3>1. \A u \in Trail!Threads : u # t /\ writing[u].step = "prune"
              => lastPrune'[Trail!ProcessOf(u)] = trailNow
      BY <1>1, <2>1, TrailDaemonThread DEF TrailIInv, TrailShapes, TrailTimesInv
    <3>2. lastPrune'[Trail!ProcessOf(t)] = trailNow
      BY <1>1, <2>1
    <3> QED BY <1>1, <1>2, <2>1, <3>1, <3>2, TrailDaemonThread DEF TrailIInv,
               TrailTimesInv, TrailDue
  <2>3. TrailAgeInv'
    <3>1. UNCHANGED TrailBehind
      BY <1>1 DEF TrailBehind
    <3>2. CASE t = Daemon
      BY <1>1, <2>1, <3>1, <3>2 DEF TrailIInv, TrailAgeInv, TrailDue
    <3>3. CASE t # Daemon
      <4>1. p # "daemon"
        BY <3>3 DEF Trail!ProcessOf
      <4>2. lastPrune'["daemon"] = lastPrune["daemon"] /\ writing'[Daemon] = writing[Daemon]
        BY <1>1, <1>2, <2>1, <3>3, <4>1, TrailDaemonThread DEF Trail!Processes
      <4> QED BY <1>1, <3>1, <4>2 DEF TrailIInv, TrailAgeInv
    <3> QED BY <3>2, <3>3
  <2> QED BY <1>3, <1>5, <2>2, <2>3 DEF TrailIInv
<1> QED BY <1>6, <1>7

\* Rows past their time are deleted, or nothing is.
LEMMA TrailPruneKeeps ==
  ASSUME Trail!AuditTrailAssumption, TrailIInv, NEW t \in Trail!Threads, Trail!Prune(t)
  PROVE  TrailIInv'
<1>1. /\ UNCHANGED <<trailNow, origin, serves, lastPrune, lastPass, dbCrashes, made>>
      /\ writing[t].step = "prune" /\ writing[t].now = trailNow
             /\ writing' = [writing EXCEPT ![t] = Trail!Idle]
      /\ lastPrune[Trail!ProcessOf(t)] = trailNow
      /\ \/ events' = {e \in events : e.ts >= trailNow - RETENTION} /\ UNCHANGED faults
         \/ events' = events /\ faults' = faults + 1
  BY DEF Trail!Prune, Trail!Becomes, Trail!Fault, TrailIInv, TrailShapes,
     TrailTimesInv, TrailDue
<1>2. /\ trailNow \in Nat /\ lastPass \in Nat /\ lastPass <= trailNow
      /\ lastPrune \in [Trail!Processes -> Nat] /\ \A q \in Trail!Processes : lastPrune[q] <= trailNow
      /\ events \in SUBSET TrailRow /\ \A e \in events : e.ts \in Nat
  BY DEF TrailIInv, TrailShapes, TrailTimesInv, TrailRow
<1>3. TrailShapes' /\ TrailOriginInv'
  BY <1>1 DEF TrailIInv, TrailShapes, TrailOriginInv, Trail!Idle
<1>4. TrailTimesInv'
  BY <1>1, TrailDaemonThread DEF TrailIInv, TrailShapes, TrailTimesInv, Trail!Idle,
     TrailDue
<1>5. TrailSavedInv'
  <2>1. \A d \in DOMAIN made : made[d].by \in Trail!Threads
    <3>1. \A d \in DOMAIN made : made[d] \in TrailMadeBy
      BY DEF TrailIInv, TrailShapes
    <3> QED BY <3>1 DEF TrailMadeBy
  <2>2. writing'[t].step # "record" /\ \A u \in Trail!Threads : u # t => writing'[u] = writing[u]
    BY <1>1 DEF TrailIInv, TrailShapes, Trail!Idle
  <2> QED BY <1>1, <2>1, <2>2 DEF TrailIInv, TrailSavedInv
<1>6. TrailRecordedInv'
  <2>1. \A e \in events : e \in events' \/ trailNow - e.ts > RETENTION
    BY <1>1, <1>2 DEF Trail!AuditTrailAssumption
  <2> QED BY <1>1, <2>1 DEF TrailIInv, TrailRecordedInv
<1>7. TrailRowsInv'
  BY <1>1 DEF TrailIInv, TrailRowsInv
<1>8. TrailAgeInv'
  <2>1. events' \subseteq events
    BY <1>1
  <2>2. TrailBehind \in Nat /\ RETENTION <= TrailBehind
    BY TrailBehindGrows DEF TrailBehind, TrailIInv, TrailShapes,
       Trail!AuditTrailAssumption
  <2>3. CASE events' = {e \in events : e.ts >= trailNow - RETENTION} /\ UNCHANGED faults
    <3>1. UNCHANGED TrailBehind
      BY <1>1, <2>3 DEF TrailBehind
    <3>2. \A e \in events' : trailNow - e.ts <= TrailBehind
      BY <1>2, <2>2, <2>3 DEF Trail!AuditTrailAssumption
    <3>3. \A e \in events' : /\ lastPrune["daemon"] - e.ts <= TrailBehind
                             /\ lastPass - e.ts <= TrailBehind + PRUNE_INTERVAL
                             /\ trailNow - e.ts <= TrailBehind + PRUNE_INTERVAL + WAKE_POLL
      BY <1>2, <2>1, <2>2, <3>2 DEF Trail!AuditTrailAssumption, Trail!Processes
    <3> QED BY <1>1, <3>1, <3>3 DEF TrailAgeInv
  <2>4. CASE events' = events /\ faults' = faults + 1
    <3>1. TrailBehind' = TrailBehind + PRUNE_INTERVAL + WAKE_POLL
      BY <1>1, <2>4, TrailBehindGrows DEF TrailBehind, TrailIInv, TrailShapes,
         Trail!AuditTrailAssumption
    <3>2. \A e \in events : trailNow - e.ts <= TrailBehind + PRUNE_INTERVAL + WAKE_POLL
      BY DEF TrailIInv, TrailAgeInv
    <3>3. \A e \in events : /\ lastPrune["daemon"] - e.ts <= TrailBehind'
                            /\ lastPass - e.ts <= TrailBehind' + PRUNE_INTERVAL
                            /\ trailNow - e.ts <= TrailBehind' + PRUNE_INTERVAL + WAKE_POLL
      BY <1>2, <2>2, <3>1, <3>2 DEF Trail!AuditTrailAssumption, Trail!Processes
    <3> QED BY <1>1, <2>4, <3>3 DEF TrailAgeInv
  <2> QED BY <1>1, <2>3, <2>4
<1> QED BY <1>3, <1>4, <1>5, <1>6, <1>7, <1>8 DEF TrailIInv

\* A process that dies takes its threads' changes and its mark with it.
LEMMA TrailCrashKeeps ==
  ASSUME Trail!AuditTrailAssumption, TrailIInv, NEW p \in Trail!Processes, Trail!Crash(p)
  PROVE  TrailIInv'
<1> DEFINE theirs == {t \in Trail!Threads : Trail!ProcessOf(t) = p}
<1>1. /\ UNCHANGED <<trailNow, events, lastPass, faults>> /\ dbCrashes' = dbCrashes + 1
      /\ writing' = [t \in Trail!Threads |-> IF t \in theirs THEN Trail!Idle ELSE writing[t]]
      /\ serves' = [t \in Trail!Threads |-> IF t \in theirs THEN None ELSE serves[t]]
      /\ origin' = [t \in Trail!Threads |-> IF t \in theirs THEN None ELSE origin[t]]
      /\ lastPrune' = [lastPrune EXCEPT ![p] = 0]
  BY DEF Trail!Crash
<1>2. /\ made' \in Seq(TrailMadeBy) /\ DOMAIN made' = DOMAIN made
      /\ \A c \in DOMAIN made :
           /\ made'[c].by = made[c].by /\ made'[c].source = made[c].source
           /\ made'[c].ts = made[c].ts
           /\ made'[c].fate = IF made[c].by \in theirs /\ made[c].fate = "saved"
                              THEN "crashed" ELSE made[c].fate
  <2> DEFINE After(c) == IF made[c].by \in theirs /\ made[c].fate = "saved"
                         THEN [made[c] EXCEPT !.fate = "crashed"] ELSE made[c]
  <2>1. made' = [c \in DOMAIN made |-> After(c)]
    BY DEF Trail!Crash
  <2>2. \A c \in DOMAIN made : made[c] \in TrailMadeBy
    BY DEF TrailIInv, TrailShapes
  <2>3. ASSUME NEW c \in DOMAIN made
        PROVE  /\ After(c) \in TrailMadeBy
               /\ After(c).by = made[c].by /\ After(c).source = made[c].source
               /\ After(c).ts = made[c].ts
               /\ After(c).fate = IF made[c].by \in theirs /\ made[c].fate = "saved"
                                  THEN "crashed" ELSE made[c].fate
    <3>1. made[c] \in TrailMadeBy
      BY <2>2
    <3> HIDE DEF theirs
    <3> QED BY <3>1 DEF TrailMadeBy
  <2>4. DOMAIN made = 1..Len(made) /\ Len(made) \in Nat
    BY DEF TrailIInv, TrailShapes
  <2> HIDE DEF After, theirs
  <2>5. made' \in [1..Len(made) -> TrailMadeBy]
    BY <2>1, <2>3, <2>4
  <2>6. made' \in Seq(TrailMadeBy)
    BY <2>4, <2>5, SeqDef
  <2> QED BY <2>1, <2>3, <2>6
<1>3. TrailShapes' /\ TrailOriginInv'
  BY <1>1, <1>2 DEF TrailIInv, TrailShapes, TrailOriginInv, Trail!Idle
<1>4. TrailTimesInv'
  BY <1>1, TrailDaemonThread DEF TrailIInv, TrailShapes, TrailTimesInv, Trail!Idle,
     TrailDue
<1>5. TrailSavedInv'
  <2>1. \A d \in DOMAIN made : made[d].by \in Trail!Threads
    <3>1. \A d \in DOMAIN made : made[d] \in TrailMadeBy
      BY DEF TrailIInv, TrailShapes
    <3> QED BY <3>1 DEF TrailMadeBy
  <2>2. \A t \in Trail!Threads : writing'[t].step = "record" =>
          t \notin theirs /\ writing'[t] = writing[t] /\ serves'[t] = serves[t]
    BY <1>1 DEF Trail!Idle
  <2>3. \A d \in DOMAIN made : made'[d].fate = "saved" =>
          made[d].by \notin theirs /\ made[d].fate = "saved" /\ writing'[made[d].by] = writing[made[d].by]
    BY <1>1, <1>2, <2>1
  <2> HIDE DEF theirs
  <2>4. ASSUME NEW t \in Trail!Threads, writing'[t].step = "record"
        PROVE  made'[writing[t].change].fate = made[writing[t].change].fate
    BY <1>2, <2>2, <2>4 DEF TrailIInv, TrailSavedInv
  <2> QED BY <1>2, <2>2, <2>3, <2>4 DEF TrailIInv, TrailSavedInv
<1>6. TrailRecordedInv' /\ TrailRowsInv'
  BY <1>1, <1>2 DEF TrailIInv, TrailRecordedInv, TrailRowsInv
<1>7. TrailAgeInv'
  <2>1. TrailBehind \in Nat /\ TrailBehind' = TrailBehind + WAKE_POLL
    BY <1>1, TrailBehindGrows DEF TrailBehind, TrailIInv, TrailShapes,
       Trail!AuditTrailAssumption
  <2>2. /\ trailNow \in Nat /\ lastPass \in Nat /\ lastPass <= trailNow
        /\ \A e \in events : e.ts \in Nat
    BY DEF TrailIInv, TrailShapes, TrailTimesInv, TrailRow
  <2>3. \A e \in events : trailNow - e.ts <= TrailBehind + PRUNE_INTERVAL + WAKE_POLL
    BY DEF TrailIInv, TrailAgeInv
  <2>4. \A e \in events : /\ lastPass - e.ts <= TrailBehind' + PRUNE_INTERVAL
                          /\ trailNow - e.ts <= TrailBehind' + PRUNE_INTERVAL + WAKE_POLL
    BY <2>1, <2>2, <2>3 DEF Trail!AuditTrailAssumption
  <2>5. writing'[Daemon].step # "prune" => \A e \in events : lastPrune'["daemon"] - e.ts <= TrailBehind'
    <3>1. CASE p = "daemon"
      BY <1>1, <2>1, <2>2, <3>1 DEF TrailIInv, TrailShapes, Trail!AuditTrailAssumption
    <3>2. CASE p # "daemon"
      <4>1. writing'[Daemon] = writing[Daemon] /\ lastPrune'["daemon"] = lastPrune["daemon"]
        BY <1>1, <3>2, TrailDaemonThread DEF TrailIInv, TrailShapes, Trail!Processes
      <4>2. lastPrune["daemon"] \in Nat
        BY DEF TrailIInv, TrailShapes, Trail!Processes
      <4> QED BY <2>1, <2>2, <4>1, <4>2 DEF TrailIInv, TrailAgeInv,
                 Trail!AuditTrailAssumption
    <3> QED BY <3>1, <3>2
  <2> QED BY <1>1, <2>4, <2>5 DEF TrailAgeInv
<1> QED BY <1>3, <1>4, <1>5, <1>6, <1>7 DEF TrailIInv

\* Time passes only between changes and rounds, and no longer than a round takes.
LEMMA TrailTickKeeps ==
  ASSUME Trail!AuditTrailAssumption, TrailIInv, Trail!Tick
  PROVE  TrailIInv'
<1>1. /\ UNCHANGED <<origin, serves, writing, events, lastPrune, lastPass, made, faults, dbCrashes>>
      /\ trailNow' = trailNow + 1 /\ trailNow - lastPass < WAKE_POLL
      /\ \A t \in Trail!Threads : writing[t] = Trail!Idle
      /\ trailNow \in Nat /\ lastPass \in Nat /\ lastPrune \in [Trail!Processes -> Nat]
      /\ \A e \in events : e.ts \in Nat
  BY DEF Trail!Tick, TrailIInv, TrailShapes, TrailRow
<1>2. TrailShapes' /\ TrailOriginInv' /\ TrailSavedInv' /\ TrailRowsInv'
  BY <1>1 DEF TrailIInv, TrailShapes, TrailOriginInv, TrailSavedInv, TrailRowsInv,
     TrailRow
<1>3. TrailTimesInv'
  BY <1>1, TrailDaemonThread DEF TrailIInv, TrailTimesInv, Trail!Idle, TrailDue,
     Trail!AuditTrailAssumption
<1>4. TrailRecordedInv'
  BY <1>1 DEF TrailIInv, TrailRecordedInv, Trail!AuditTrailAssumption
<1>5. TrailAgeInv'
  <2>1. UNCHANGED TrailBehind /\ TrailBehind \in Nat
    BY <1>1, TrailBehindGrows DEF TrailBehind, TrailIInv, TrailShapes,
       Trail!AuditTrailAssumption
  <2>2. \A e \in events : lastPass - e.ts <= TrailBehind + PRUNE_INTERVAL
    BY <1>1, TrailDaemonThread DEF TrailIInv, TrailAgeInv, Trail!Idle, TrailDue
  <2>3. \A e \in events : trailNow' - e.ts <= TrailBehind + PRUNE_INTERVAL + WAKE_POLL
    BY <1>1, <2>1, <2>2 DEF Trail!AuditTrailAssumption
  <2> QED BY <1>1, <2>1, <2>3 DEF TrailIInv, TrailAgeInv
<1> QED BY <1>2, <1>3, <1>4, <1>5 DEF TrailIInv

LEMMA TrailStepIInv ==
  ASSUME Trail!AuditTrailAssumption
  PROVE  TrailIInv /\ [Trail!Next]_(Trail!vars) => TrailIInv'
<1> SUFFICES ASSUME TrailIInv, [Trail!Next]_(Trail!vars) PROVE TrailIInv'
  OBVIOUS
<1>1. CASE UNCHANGED Trail!vars
  BY <1>1 DEF Trail!vars, TrailIInv, TrailShapes, TrailOriginInv, TrailTimesInv,
     TrailSavedInv, TrailRecordedInv, TrailRowsInv, TrailAgeInv, TrailBehind
<1>2. CASE Trail!Next
  BY <1>2, TrailRequestKeeps, TrailChangeKeeps, TrailRecordKeeps, TrailPassKeeps,
     TrailMaybePruneKeeps, TrailPruneKeeps,
     TrailCrashKeeps, TrailTickKeeps DEF Trail!Next
<1> QED BY <1>1, <1>2

LEMMA InvGivesTrailHolds ==
  ASSUME Trail!AuditTrailAssumption
  PROVE  TrailIInv => Trail!TrailHolds
<1> SUFFICES ASSUME TrailIInv PROVE Trail!TrailHolds
  OBVIOUS
<1>1. Trail!ChangesOnRecord
  <2>1. \A d \in DOMAIN made : made[d].by \in Trail!Threads
    <3>1. \A d \in DOMAIN made : made[d] \in TrailMadeBy
      BY DEF TrailIInv, TrailShapes
    <3> QED BY <3>1 DEF TrailMadeBy
  <2> QED BY <2>1 DEF Trail!ChangesOnRecord, TrailIInv, TrailSavedInv, TrailRecordedInv
<1>2. Trail!RowsAge
  <2>1. RETENTION + (faults + 1) * (PRUNE_INTERVAL + WAKE_POLL) + dbCrashes * WAKE_POLL
          = TrailBehind + PRUNE_INTERVAL + WAKE_POLL
    BY TrailBehindGrows DEF TrailBehind, TrailBehindAfter, TrailIInv, TrailShapes,
       Trail!AuditTrailAssumption
  <2> QED BY <2>1 DEF Trail!RowsAge, TrailIInv, TrailAgeInv
<1> QED BY <1>1, <1>2 DEF Trail!TrailHolds

-----------------------------------------------------------------------------
\* Where `part` is this component's, its steps are the only ones; elsewhere its
\* variables stand still.
LEMMA TrailIsAPart == Spec => Trail!Spec
<1>1. Init => Trail!Init
  BY DEF Init
<1>2. [Next]_vars => [Trail!Next]_(Trail!vars)
  BY DEF Next, vars, trailVars, Trail!vars
<1> QED BY <1>1, <1>2, PTL DEF Spec, Trail!Spec

\* Whatever threads change accounts, whatever prunes fail and whoever dies: a saved
\* change has its row, under its own request's address, for as long as rows are
\* kept, and no row outlives that by more than the failures and deaths account for
\* (backend/audit.py, daemons/daemon_loop.py).
THEOREM TrailAlwaysHolds == Spec => []TrailHolds
<1>0. Trail!AuditTrailAssumption
  BY PartsAssumption
<1>1. Trail!Init => TrailIInv
  BY <1>0, TrailInitIInv
<1>2. TrailIInv /\ [Trail!Next]_(Trail!vars) => TrailIInv'
  BY <1>0, TrailStepIInv
<1>3. TrailIInv => TrailHolds
  BY <1>0, InvGivesTrailHolds DEF TrailHolds
<1> QED BY <1>1, <1>2, <1>3, TrailIsAPart, PTL DEF Trail!Spec

-----------------------------------------------------------------------------
(* ContactForm (frontend/web_server.py).                                     *)
(* What a source had accepted over a stretch and what its bucket holds now   *)
(* come to no more than a full bucket and what was refilled in the stretch   *)
(* (ContactAtMost), and to exactly that over the stretch since the bucket    *)
(* was last full (ContactAtLeast).                                           *)

ContactLevel(s) == IF buckets[s] = None THEN Contact!Full ELSE Contact!Refilled(buckets[s])

ContactShapes ==
  /\ formNow \in Nat
  /\ buckets \in [FormSources -> [tokens : 0..Contact!Full, at : 0..formNow] \cup {None}]
  /\ accepted \in [FormSources -> Seq(Nat)]
  /\ \A s \in FormSources : \A i \in DOMAIN accepted[s] : accepted[s][i] <= formNow

\* In units of the clock: what the messages of a stretch cost.
ContactSpent(s, from) == CONTACT_REFILL_SECONDS * Contact!Within(s, from, formNow)

ContactAtMost ==
  \A s \in FormSources : \A from \in 0..formNow :
    ContactSpent(s, from) + ContactLevel(s) <= Contact!Full + (formNow - from)

ContactAtLeast ==
  \A s \in FormSources :
    \/ ContactLevel(s) = Contact!Full
    \/ \E from \in 0..formNow :
         ContactSpent(s, from) + ContactLevel(s) = Contact!Full + (formNow - from)

ContactIInv == ContactShapes /\ ContactAtMost /\ ContactAtLeast

LEMMA ContactSameCount == \A S : Contact!Cardinality(S) = Cardinality(S)
BY DEF Contact!Cardinality, Cardinality

LEMMA ContactMinIs ==
  ASSUME NEW a \in Int, NEW b \in Int
  PROVE  Contact!Min({a, b}) = IF a <= b THEN a ELSE b
BY DEF Contact!Min

LEMMA ContactFullIs ==
  ASSUME Contact!ContactFormAssumption
  PROVE  /\ CONTACT_REFILL_SECONDS \in Nat \ {0} /\ CONTACT_BURST \in Nat
         /\ Contact!Full \in Nat /\ Contact!Full = CONTACT_BURST * CONTACT_REFILL_SECONDS
BY DEF Contact!ContactFormAssumption, Contact!Full

\* What of a sequence of times lies in a stretch, and what one more adds.
LEMMA ContactCounted ==
  ASSUME NEW q \in Seq(Nat), NEW from \in Nat, NEW to \in Nat
  PROVE  /\ IsFiniteSet({i \in DOMAIN q : q[i] \in from..to})
         /\ Cardinality({i \in DOMAIN q : q[i] \in from..to}) \in Nat
<1>1. DOMAIN q = 1..Len(q) /\ Len(q) \in Nat
  OBVIOUS
<1>2. IsFiniteSet(1..Len(q))
  BY <1>1, FS_Interval
<1>3. {i \in DOMAIN q : q[i] \in from..to} \in SUBSET (1..Len(q))
  BY <1>1
<1>4. IsFiniteSet({i \in DOMAIN q : q[i] \in from..to})
  BY <1>2, <1>3, FS_Subset
<1> QED BY <1>4, FS_CardinalityType

LEMMA ContactOneMore ==
  ASSUME NEW q \in Seq(Nat), NEW from \in Nat, NEW to \in Nat, from <= to
  PROVE  Cardinality({i \in DOMAIN Append(q, to) : Append(q, to)[i] \in from..to}) =
           Cardinality({i \in DOMAIN q : q[i] \in from..to}) + 1
<1> DEFINE S == {i \in DOMAIN q : q[i] \in from..to}
           T == {i \in DOMAIN Append(q, to) : Append(q, to)[i] \in from..to}
<1>1. DOMAIN q = 1..Len(q) /\ Len(q) \in Nat
  OBVIOUS
<1>2. /\ DOMAIN Append(q, to) = 1..(Len(q) + 1) /\ Append(q, to)[Len(q) + 1] = to
      /\ \A i \in 1..Len(q) : Append(q, to)[i] = q[i]
  BY <1>1
<1>3. T = S \cup {Len(q) + 1}
  BY <1>1, <1>2
<1>4. Len(q) + 1 \notin S
  BY <1>1
<1>5. IsFiniteSet(S)
  BY ContactCounted
<1> QED BY <1>3, <1>4, <1>5, FS_AddElement

\* A bucket's level is between empty and full.
LEMMA ContactLevelIs ==
  ASSUME Contact!ContactFormAssumption, ContactShapes, NEW s \in FormSources
  PROVE  /\ ContactLevel(s) \in 0..Contact!Full
         /\ buckets[s] # None =>
              LET l == buckets[s].tokens + (formNow - buckets[s].at) IN
              /\ l \in Nat
              /\ Contact!Refilled(buckets[s]) = IF Contact!Full <= l THEN Contact!Full ELSE l
<1>1. Contact!Full \in Nat /\ formNow \in Nat
  BY ContactFullIs DEF ContactShapes
<1>2. CASE buckets[s] = None
  BY <1>1, <1>2 DEF ContactLevel
<1>3. CASE buckets[s] # None
  <2> DEFINE l == buckets[s].tokens + (formNow - buckets[s].at)
  <2>1. buckets[s].tokens \in 0..Contact!Full /\ buckets[s].at \in 0..formNow
    BY <1>3 DEF ContactShapes
  <2>2. l \in Nat
    BY <1>1, <2>1
  <2>3. Contact!Refilled(buckets[s]) = IF Contact!Full <= l THEN Contact!Full ELSE l
    BY <1>1, <2>2, ContactMinIs DEF Contact!Refilled
  <2> QED BY <1>1, <1>3, <2>2, <2>3 DEF ContactLevel
<1> QED BY <1>2, <1>3

LEMMA ContactSpentIs ==
  ASSUME Contact!ContactFormAssumption, ContactShapes, NEW s \in FormSources, NEW from \in Nat
  PROVE  /\ Contact!Within(s, from, formNow) \in Nat
         /\ ContactSpent(s, from) = CONTACT_REFILL_SECONDS * Contact!Within(s, from, formNow)
         /\ ContactSpent(s, from) \in Nat
<1>1. accepted[s] \in Seq(Nat) /\ formNow \in Nat
  BY DEF ContactShapes
<1>2. Contact!Within(s, from, formNow) \in Nat
  BY <1>1, ContactCounted, ContactSameCount DEF Contact!Within
<1> QED BY <1>2, ContactFullIs DEF ContactSpent

-----------------------------------------------------------------------------
LEMMA ContactInitIInv ==
  ASSUME Contact!ContactFormAssumption
  PROVE  Contact!Init => ContactIInv
<1> SUFFICES ASSUME Contact!Init PROVE ContactIInv
  OBVIOUS
<1>1. formNow = 0 /\ \A s \in FormSources : buckets[s] = None /\ accepted[s] = <<>>
  BY DEF Contact!Init
<1>2. ContactShapes
  BY <1>1 DEF Contact!Init, ContactShapes
<1>3. \A s \in FormSources : ContactLevel(s) = Contact!Full
  BY <1>1 DEF ContactLevel
<1>4. \A s \in FormSources : ContactSpent(s, 0) = 0
  <2> SUFFICES ASSUME NEW s \in FormSources PROVE ContactSpent(s, 0) = 0
    OBVIOUS
  <2>1. {i \in DOMAIN accepted[s] : accepted[s][i] \in 0..formNow} = {}
    BY <1>1
  <2>2. Contact!Within(s, 0, formNow) = 0
    BY <2>1, FS_EmptySet, ContactSameCount DEF Contact!Within
  <2> QED BY <2>2, ContactFullIs DEF ContactSpent
<1>5. ContactAtMost
  BY <1>1, <1>3, <1>4, ContactFullIs DEF ContactAtMost
<1> QED BY <1>2, <1>3, <1>5 DEF ContactIInv, ContactAtLeast

\* A second passes: every level rises by one, as far as full.
LEMMA ContactTickKeeps ==
  ASSUME Contact!ContactFormAssumption, ContactIInv, Contact!Tick
  PROVE  ContactIInv'
<1>1. formNow' = formNow + 1 /\ UNCHANGED <<buckets, accepted>> /\ formNow \in Nat /\ formNow' \in Nat
  BY DEF Contact!Tick, ContactIInv, ContactShapes
<1>2. ContactShapes'
  <2>1. 0..formNow \subseteq 0..formNow'
    BY <1>1
  <2>2. buckets \in [FormSources -> [tokens : 0..Contact!Full, at : 0..formNow'] \cup {None}]
    BY <2>1 DEF ContactIInv, ContactShapes
  <2>3. \A s \in FormSources : \A i \in DOMAIN accepted[s] : accepted[s][i] \in Nat /\ accepted[s][i] <= formNow'
    BY <1>1 DEF ContactIInv, ContactShapes
  <2> QED BY <1>1, <2>2, <2>3 DEF ContactIInv, ContactShapes, Contact!Full
<1>3. Contact!Full \in Nat /\ Contact!Full' = Contact!Full
  BY ContactFullIs DEF Contact!Full
<1>4. ASSUME NEW s \in FormSources
      PROVE  /\ ContactLevel(s) \in 0..Contact!Full
             /\ ContactLevel(s)' = IF ContactLevel(s) = Contact!Full THEN Contact!Full ELSE ContactLevel(s) + 1
  <2>1. ContactLevel(s) \in 0..Contact!Full
    BY ContactLevelIs DEF ContactIInv
  <2>2. CASE buckets[s] = None
    BY <1>1, <1>3, <2>1, <2>2 DEF ContactLevel
  <2>3. CASE buckets[s] # None
    <3> DEFINE l == buckets[s].tokens + (formNow - buckets[s].at)
    <3>1. l \in Nat /\ ContactLevel(s) = IF Contact!Full <= l THEN Contact!Full ELSE l
      BY <2>3, ContactLevelIs DEF ContactIInv, ContactLevel
    <3>2. buckets[s].tokens \in Int /\ buckets[s].at \in Int
      BY <1>3, <2>3 DEF ContactIInv, ContactShapes
    <3>3. buckets[s].tokens + (formNow' - buckets[s].at) = l + 1
      BY <1>1, <3>2
    <3>4. ContactLevel(s)' = Contact!Min({Contact!Full, l + 1})
      BY <1>1, <1>3, <2>3, <3>3 DEF ContactLevel, Contact!Refilled
    <3>5. ContactLevel(s)' = IF Contact!Full <= l + 1 THEN Contact!Full ELSE l + 1
      BY <1>3, <3>1, <3>4, ContactMinIs
    <3> QED BY <1>3, <2>1, <3>1, <3>5
  <2> QED BY <2>2, <2>3, <2>1
<1>5. ASSUME NEW s \in FormSources, NEW from \in 0..formNow
      PROVE  ContactSpent(s, from)' = ContactSpent(s, from) /\ ContactSpent(s, from) \in Nat
  <2>1. \A i \in DOMAIN accepted[s] : accepted[s][i] \in 0..formNow
    BY <1>1 DEF ContactIInv, ContactShapes
  <2>2. {i \in DOMAIN accepted[s] : accepted[s][i] \in from..formNow'} =
          {i \in DOMAIN accepted[s] : accepted[s][i] \in from..formNow}
    BY <1>1, <2>1
  <2>3. Contact!Within(s, from, formNow)' = Contact!Within(s, from, formNow)
    BY <1>1, <2>2, ContactSameCount DEF Contact!Within
  <2> QED BY <1>1, <2>3, ContactSpentIs DEF ContactSpent, ContactIInv
<1>6. ASSUME NEW s \in FormSources, NEW n \in Nat, n = formNow' PROVE ContactSpent(s, n)' = 0
  <2>1. \A i \in DOMAIN accepted[s] : accepted[s][i] \in 0..formNow
    BY <1>1 DEF ContactIInv, ContactShapes
  <2>2. {i \in DOMAIN accepted[s] : accepted[s][i] \in n..formNow'} = {}
    BY <1>1, <1>6, <2>1
  <2>3. Contact!Within(s, n, formNow)' = 0
    BY <1>1, <2>2, ContactSameCount, FS_EmptySet DEF Contact!Within
  <2> QED BY <2>3, ContactFullIs DEF ContactSpent
<1>7. ContactAtMost'
  <2> SUFFICES ASSUME NEW s \in FormSources, NEW from \in 0..formNow'
               PROVE  ContactSpent(s, from)' + ContactLevel(s)' <= Contact!Full + (formNow' - from)
    BY <1>3 DEF ContactAtMost
  <2>1. CASE from \in 0..formNow
    <3>1. ContactSpent(s, from) + ContactLevel(s) <= Contact!Full + (formNow - from)
      BY <2>1 DEF ContactIInv, ContactAtMost
    <3> QED BY <1>1, <1>3, <1>4, <1>5, <2>1, <3>1
  <2>2. CASE from = formNow'
    <3>1. ContactSpent(s, from)' = 0
      BY <1>1, <1>6, <2>2
    <3> QED BY <1>1, <1>3, <1>4, <2>2, <3>1
  <2> QED BY <1>1, <2>1, <2>2
<1>8. ContactAtLeast'
  <2> SUFFICES ASSUME NEW s \in FormSources, ContactLevel(s)' # Contact!Full
               PROVE  \E from \in 0..formNow' :
                        ContactSpent(s, from)' + ContactLevel(s)' = Contact!Full + (formNow' - from)
    BY <1>3 DEF ContactAtLeast
  <2>1. ContactLevel(s)' = ContactLevel(s) + 1 /\ ContactLevel(s) # Contact!Full
    BY <1>4
  <2>2. PICK from \in 0..formNow :
          ContactSpent(s, from) + ContactLevel(s) = Contact!Full + (formNow - from)
    BY <2>1 DEF ContactIInv, ContactAtLeast
  <2>3. ContactSpent(s, from)' + ContactLevel(s)' = Contact!Full + (formNow' - from)
    BY <1>1, <1>3, <1>4, <1>5, <2>1, <2>2
  <2> QED BY <1>1, <2>3
<1> QED BY <1>2, <1>7, <1>8 DEF ContactIInv

\* A message, taken or refused, from one source.
ContactAllowed(s) == ContactLevel(s) >= CONTACT_REFILL_SECONDS
ContactLeft(s) == IF ContactAllowed(s) THEN ContactLevel(s) - CONTACT_REFILL_SECONDS ELSE ContactLevel(s)

LEMMA ContactPostIs ==
  ASSUME Contact!ContactFormAssumption, ContactIInv, NEW source \in FormSources, Contact!Post(source)
  PROVE  /\ formNow' = formNow
         /\ buckets'[source] = [tokens |-> ContactLeft(source), at |-> formNow]
         /\ \A s \in FormSources \ {source} :
              /\ accepted'[s] = accepted[s]
              /\ buckets'[s] = buckets[s] \/ (buckets'[s] = None /\ Contact!Spare(buckets[s]))
              /\ buckets'[s] # None => ~Contact!Spare(buckets[s])
         /\ DOMAIN buckets' = FormSources /\ DOMAIN accepted' = FormSources
         /\ ContactAllowed(source) => /\ accepted'[source] = Append(accepted[source], formNow)
                                      /\ refused' = None
         /\ ~ContactAllowed(source) => /\ accepted'[source] = accepted[source]
                                       /\ refused' = [source |-> source, at |-> formNow]
<1> DEFINE swept == [s \in FormSources |-> IF s # source /\ buckets[s] # None /\ Contact!Spare(buckets[s])
                                           THEN None ELSE buckets[s]]
<1>1. DOMAIN buckets = FormSources /\ DOMAIN accepted = FormSources
  BY DEF ContactIInv, ContactShapes
<1>2. formNow' = formNow
  BY DEF Contact!Post
<1>3. buckets' = [swept EXCEPT ![source] = [tokens |-> ContactLeft(source), at |-> formNow]]
  BY DEF Contact!Post, ContactLeft, ContactAllowed, ContactLevel
<1>4. accepted' = IF ContactAllowed(source)
                  THEN [accepted EXCEPT ![source] = Append(@, formNow)] ELSE accepted
  BY DEF Contact!Post, ContactAllowed, ContactLevel
<1>5. refused' = IF ContactAllowed(source) THEN None ELSE [source |-> source, at |-> formNow]
  BY DEF Contact!Post, ContactAllowed, ContactLevel
<1> HIDE DEF swept
<1>6. DOMAIN swept = FormSources
      /\ \A s \in FormSources \ {source} :
           swept[s] = IF buckets[s] # None /\ Contact!Spare(buckets[s]) THEN None ELSE buckets[s]
  BY DEF swept
<1> QED BY <1>1, <1>2, <1>3, <1>4, <1>5, <1>6

LEMMA ContactPostShapes ==
  ASSUME Contact!ContactFormAssumption, ContactIInv, NEW source \in FormSources, Contact!Post(source)
  PROVE  ContactShapes' /\ Contact!Full' = Contact!Full
<1>1. ContactLevel(source) \in 0..Contact!Full /\ Contact!Full \in Nat /\ formNow \in Nat
      /\ CONTACT_REFILL_SECONDS \in Nat
  BY ContactLevelIs, ContactFullIs DEF ContactIInv, ContactShapes
<1>2. ContactLeft(source) \in 0..Contact!Full
  BY <1>1 DEF ContactLeft, ContactAllowed
<1>3. buckets'[source] \in [tokens : 0..Contact!Full, at : 0..formNow]
  <2>1. formNow \in 0..formNow
    BY <1>1
  <2>2. buckets'[source] = [tokens |-> ContactLeft(source), at |-> formNow]
    BY ContactPostIs
  <2> QED BY <1>2, <2>1, <2>2
<1>4. \A s \in FormSources : buckets'[s] \in [tokens : 0..Contact!Full, at : 0..formNow] \cup {None}
  BY <1>3, ContactPostIs DEF ContactIInv, ContactShapes
<1>5. ASSUME NEW s \in FormSources
      PROVE  accepted'[s] \in Seq(Nat) /\ \A i \in DOMAIN accepted'[s] : accepted'[s][i] <= formNow
  <2>1. accepted[s] \in Seq(Nat) /\ \A i \in DOMAIN accepted[s] : accepted[s][i] <= formNow
    BY DEF ContactIInv, ContactShapes
  <2>2. CASE accepted'[s] = accepted[s]
    BY <2>1, <2>2
  <2>3. CASE accepted'[s] = Append(accepted[s], formNow)
    BY <1>1, <2>1, <2>3
  <2> QED BY <2>2, <2>3, ContactPostIs
<1>6. buckets' \in [FormSources -> [tokens : 0..Contact!Full, at : 0..formNow] \cup {None}]
  <2>1. buckets' = [s \in FormSources |-> buckets'[s]]
    BY DEF Contact!Post, ContactIInv, ContactShapes
  <2> QED BY <1>4, <2>1
<1>7. accepted' \in [FormSources -> Seq(Nat)]
  <2>1. accepted' = [s \in FormSources |-> accepted'[s]]
    BY DEF Contact!Post, ContactIInv, ContactShapes
  <2> QED BY <1>5, <2>1
<1> QED BY <1>1, <1>5, <1>6, <1>7, ContactPostIs DEF ContactShapes, Contact!Full

\* Whose message it was has spent what was taken; nobody else notices.
LEMMA ContactPostLevels ==
  ASSUME Contact!ContactFormAssumption, ContactIInv, NEW source \in FormSources, Contact!Post(source)
  PROVE  /\ ContactLevel(source)' = ContactLeft(source)
         /\ \A s \in FormSources \ {source} : ContactLevel(s)' = ContactLevel(s)
<1>1. ContactShapes' /\ Contact!Full' = Contact!Full /\ formNow' = formNow /\ formNow \in Nat
  BY ContactPostShapes, ContactPostIs DEF ContactIInv, ContactShapes
<1>2. Contact!Full \in Nat /\ ContactLevel(source) \in 0..Contact!Full /\ CONTACT_REFILL_SECONDS \in Nat
  BY ContactLevelIs, ContactFullIs DEF ContactIInv
<1>3. ContactLevel(source)' = ContactLeft(source)
  <2>1. ContactLeft(source) \in 0..Contact!Full
    BY <1>2 DEF ContactLeft, ContactAllowed
  <2>2. buckets'[source] = [tokens |-> ContactLeft(source), at |-> formNow] /\ buckets'[source] # None
    <3>1. [tokens |-> ContactLeft(source), at |-> formNow] \in [tokens : Nat, at : Nat]
      BY <1>1, <1>2, <2>1
    <3> QED BY <3>1, ContactPostIs DEF Contact!ContactFormAssumption
  <2>3. ContactLevel(source)' = Contact!Min({Contact!Full, ContactLeft(source) + (formNow - formNow)})
    BY <1>1, <2>2 DEF ContactLevel, Contact!Refilled
  <2> QED BY <1>1, <1>2, <2>1, <2>3, ContactMinIs
<1>4. ASSUME NEW s \in FormSources \ {source} PROVE ContactLevel(s)' = ContactLevel(s)
  <2>1. CASE buckets'[s] = buckets[s]
    BY <1>1, <2>1 DEF ContactLevel, Contact!Refilled
  <2>2. CASE buckets[s] # None /\ buckets'[s] = None /\ Contact!Spare(buckets[s])
    <3>1. Contact!Refilled(buckets[s]) \in 0..Contact!Full
      BY <2>2, ContactLevelIs DEF ContactIInv, ContactLevel
    <3>2. Contact!Refilled(buckets[s]) = Contact!Full
      BY <1>2, <2>2, <3>1 DEF Contact!Spare
    <3> QED BY <1>1, <2>2, <3>2 DEF ContactLevel
  <2> QED BY <2>1, <2>2, ContactPostIs
<1> QED BY <1>3, <1>4

LEMMA ContactPostSpends ==
  ASSUME Contact!ContactFormAssumption, ContactIInv, NEW source \in FormSources, Contact!Post(source),
         NEW s \in FormSources, NEW from \in 0..formNow
  PROVE  ContactSpent(s, from)' = IF s = source /\ ContactAllowed(s)
                                  THEN ContactSpent(s, from) + CONTACT_REFILL_SECONDS
                                  ELSE ContactSpent(s, from)
<1>1. formNow' = formNow /\ formNow \in Nat /\ accepted[s] \in Seq(Nat) /\ from \in Nat /\ from <= formNow
  <2>1. formNow' = formNow
    BY ContactPostIs
  <2> QED BY <2>1 DEF ContactIInv, ContactShapes
<1>2. Contact!Within(s, from, formNow) \in Nat /\ CONTACT_REFILL_SECONDS \in Nat
  BY <1>1, ContactSpentIs, ContactFullIs DEF ContactIInv
<1>3. CASE s = source /\ ContactAllowed(s)
  <2>1. accepted'[s] = Append(accepted[s], formNow)
    BY <1>3, ContactPostIs
  <2>2. Contact!Within(s, from, formNow)' = Contact!Within(s, from, formNow) + 1
    <3>1. Cardinality({i \in DOMAIN Append(accepted[s], formNow) :
                         Append(accepted[s], formNow)[i] \in from..formNow})
            = Cardinality({i \in DOMAIN accepted[s] : accepted[s][i] \in from..formNow}) + 1
      BY <1>1, ContactOneMore
    <3>2. Contact!Within(s, from, formNow) =
            Cardinality({i \in DOMAIN accepted[s] : accepted[s][i] \in from..formNow})
      BY ContactSameCount DEF Contact!Within
    <3>3. Contact!Within(s, from, formNow)' =
            Cardinality({i \in DOMAIN accepted'[s] : accepted'[s][i] \in from..formNow'})
      BY ContactSameCount DEF Contact!Within
    <3>4. Contact!Within(s, from, formNow)' =
            Cardinality({i \in DOMAIN Append(accepted[s], formNow) :
                           Append(accepted[s], formNow)[i] \in from..formNow})
      BY <3>3, <2>1, <1>1
    <3> QED BY <3>1, <3>2, <3>4
  <2> QED BY <1>2, <1>3, <2>2 DEF ContactSpent
<1>4. CASE ~(s = source /\ ContactAllowed(s))
  <2>1. accepted'[s] = accepted[s]
    BY <1>4, ContactPostIs
  <2>2. Contact!Within(s, from, formNow)' = Contact!Within(s, from, formNow)
    BY <1>1, <2>1, ContactSameCount DEF Contact!Within
  <2> QED BY <1>4, <2>2 DEF ContactSpent
<1> QED BY <1>3, <1>4

LEMMA ContactPostKeeps ==
  ASSUME Contact!ContactFormAssumption, ContactIInv, NEW source \in FormSources, Contact!Post(source)
  PROVE  ContactIInv'
<1>1. ContactShapes' /\ Contact!Full' = Contact!Full /\ formNow' = formNow /\ formNow \in Nat
  BY ContactPostShapes, ContactPostIs DEF ContactIInv, ContactShapes
<1>2. /\ Contact!Full \in Nat /\ CONTACT_REFILL_SECONDS \in Nat \ {0}
      /\ \A s \in FormSources : ContactLevel(s) \in 0..Contact!Full
      /\ \A s \in FormSources : \A from \in 0..formNow : ContactSpent(s, from) \in Nat
  BY <1>1, ContactLevelIs, ContactFullIs, ContactSpentIs DEF ContactIInv
<1>3. \A s \in FormSources : ContactLevel(s)' = IF s = source THEN ContactLeft(s) ELSE ContactLevel(s)
  BY ContactPostLevels
<1>4. ContactAtMost'
  <2> SUFFICES ASSUME NEW s \in FormSources, NEW from \in 0..formNow
               PROVE  ContactSpent(s, from)' + ContactLevel(s)' <= Contact!Full + (formNow - from)
    BY <1>1 DEF ContactAtMost
  <2>1. ContactSpent(s, from) + ContactLevel(s) <= Contact!Full + (formNow - from)
    BY DEF ContactIInv, ContactAtMost
  <2> QED BY <1>1, <1>2, <1>3, <2>1, ContactPostSpends DEF ContactLeft
<1>5. ContactAtLeast'
  <2> SUFFICES ASSUME NEW s \in FormSources, ContactLevel(s)' # Contact!Full
               PROVE  \E from \in 0..formNow :
                        ContactSpent(s, from)' + ContactLevel(s)' = Contact!Full + (formNow - from)
    BY <1>1 DEF ContactAtLeast
  <2>1. CASE ContactLevel(s) = Contact!Full
    <3>1. s = source /\ ContactAllowed(s)
      BY <1>3, <2>1 DEF ContactLeft
    <3>2. ContactSpent(s, formNow) = 0
      BY <1>1, <1>2, <2>1 DEF ContactIInv, ContactAtMost
    <3>3. ContactSpent(s, formNow)' = CONTACT_REFILL_SECONDS
      BY <1>1, <1>2, <3>1, <3>2, ContactPostSpends
    <3> QED BY <1>1, <1>2, <1>3, <2>1, <3>1, <3>3 DEF ContactLeft
  <2>2. CASE ContactLevel(s) # Contact!Full
    <3>1. PICK from \in 0..formNow :
            ContactSpent(s, from) + ContactLevel(s) = Contact!Full + (formNow - from)
      BY <2>2 DEF ContactIInv, ContactAtLeast
    <3>2. ContactSpent(s, from)' + ContactLevel(s)' = Contact!Full + (formNow - from)
      BY <1>1, <1>2, <1>3, <3>1, ContactPostSpends DEF ContactLeft
    <3> QED BY <3>2
  <2> QED BY <2>1, <2>2
<1> QED BY <1>1, <1>4, <1>5 DEF ContactIInv

-----------------------------------------------------------------------------
\* What it costs in units of the clock, counted in messages.
LEMMA ContactDivides ==
  ASSUME NEW r \in Nat \ {0}, NEW d \in Nat, NEW w \in Int
  PROVE  /\ r * w <= d => w <= d \div r
         /\ d < r * w => d \div r < w
<1>1. d \div r \in Nat /\ d = r * (d \div r) + (d % r) /\ d % r \in 0..(r - 1)
  OBVIOUS
<1>2. ASSUME r * w <= d, d \div r < w PROVE FALSE
  <2> DEFINE q == d \div r
  <2>1. r * (q + 1) <= r * w
    <3>1. w - (q + 1) \in Nat
      BY <1>1, <1>2
    <3>2. r * (w - (q + 1)) >= 0
      BY <3>1
    <3> QED BY <1>1, <3>2
  <2> QED BY <1>1, <1>2, <2>1
<1>3. ASSUME d < r * w, w <= d \div r PROVE FALSE
  <2> DEFINE q == d \div r
  <2>1. r * w <= r * q
    <3>1. q - w \in Nat
      BY <1>1, <1>3
    <3>2. r * (q - w) >= 0
      BY <3>1
    <3> QED BY <1>1, <3>2
  <2> QED BY <1>1, <1>3, <2>1
<1> QED BY <1>1, <1>2, <1>3

LEMMA ContactInvGivesNeverTooMany ==
  ASSUME Contact!ContactFormAssumption, ContactIInv
  PROVE  Contact!NeverTooMany
<1> SUFFICES ASSUME NEW s \in FormSources, NEW from \in 0..formNow
             PROVE  Contact!Within(s, from, formNow) <= Contact!Allowance(from, formNow)
  BY DEF Contact!NeverTooMany
<1> DEFINE w == Contact!Within(s, from, formNow)
           r == CONTACT_REFILL_SECONDS
           d == formNow - from
<1>1. w \in Nat /\ r \in Nat \ {0} /\ CONTACT_BURST \in Nat /\ d \in Nat
  <2>1. formNow \in Nat /\ from \in Nat
    BY DEF ContactIInv, ContactShapes
  <2>2. w \in Nat
    BY <2>1, ContactSpentIs DEF ContactIInv
  <2> QED BY <2>1, <2>2, ContactFullIs
<1>2. r * w <= CONTACT_BURST * r + d
  <2>1. ContactSpent(s, from) + ContactLevel(s) <= Contact!Full + d
    BY DEF ContactIInv, ContactAtMost
  <2>2. ContactLevel(s) \in Nat /\ ContactSpent(s, from) = r * w /\ Contact!Full = CONTACT_BURST * r
        /\ Contact!Full \in Nat /\ ContactSpent(s, from) \in Nat
    BY ContactLevelIs, ContactSpentIs, ContactFullIs DEF ContactIInv
  <2> HIDE DEF w, d
  <2> QED BY <1>1, <2>1, <2>2
<1> HIDE DEF w, r, d
<1>3. r * (w - CONTACT_BURST) <= d
  BY <1>1, <1>2
<1>4. w - CONTACT_BURST <= d \div r
  <2>1. w - CONTACT_BURST \in Int
    BY <1>1
  <2> QED BY <1>1, <1>3, <2>1, ContactDivides
<1>5. w <= CONTACT_BURST + d \div r
  BY <1>1, <1>4
<1> QED BY <1>5 DEF Contact!Allowance, w, d, r

\* Of a refusal: what the bucket lacked, the source had spent.
LEMMA ContactRefusalIsOwed ==
  ASSUME Contact!ContactFormAssumption, ContactIInv, NEW s \in FormSources, ~ContactAllowed(s)
  PROVE  \E from \in 0..formNow :
           Contact!Within(s, from, formNow) + 1 > Contact!Allowance(from, formNow)
<1> DEFINE r == CONTACT_REFILL_SECONDS
<1>1. r \in Nat \ {0} /\ CONTACT_BURST \in Nat /\ formNow \in Nat
      /\ Contact!Full = CONTACT_BURST * r /\ ContactLevel(s) \in 0..Contact!Full /\ ContactLevel(s) < r
  BY ContactLevelIs, ContactFullIs DEF ContactIInv, ContactShapes, ContactAllowed
<1>2. ASSUME NEW from \in 0..formNow,
             ContactSpent(s, from) + ContactLevel(s) = Contact!Full + (formNow - from)
      PROVE  Contact!Within(s, from, formNow) + 1 > Contact!Allowance(from, formNow)
  <2> DEFINE w == Contact!Within(s, from, formNow)
             d == formNow - from
  <2>1. w \in Nat /\ d \in Nat /\ ContactSpent(s, from) = r * w
    BY <1>1, ContactSpentIs DEF ContactIInv
  <2>2. r * w + ContactLevel(s) = CONTACT_BURST * r + d
    BY <1>1, <1>2, <2>1
  <2> HIDE DEF w, r, d
  <2>3. d < r * (w + 1 - CONTACT_BURST)
    BY <1>1, <2>1, <2>2
  <2>4. d \div r < w + 1 - CONTACT_BURST /\ d \div r \in Nat
    <3>1. w + 1 - CONTACT_BURST \in Int /\ r \in Nat \ {0} /\ d \in Nat
      BY <1>1, <2>1
    <3>2. d \div r < w + 1 - CONTACT_BURST
      BY <2>3, <3>1, ContactDivides
    <3> QED BY <3>1, <3>2
  <2>5. w + 1 > CONTACT_BURST + d \div r
    BY <1>1, <2>1, <2>4
  <2> QED BY <2>5 DEF Contact!Allowance, w, d, r
<1>3. CASE ContactLevel(s) = Contact!Full
  <2>1. ContactSpent(s, formNow) = 0
    BY <1>1, <1>3, ContactSpentIs DEF ContactIInv, ContactAtMost
  <2> QED BY <1>1, <1>2, <1>3, <2>1
<1>4. CASE ContactLevel(s) # Contact!Full
  BY <1>2, <1>4 DEF ContactIInv, ContactAtLeast
<1> QED BY <1>3, <1>4

\* What a step shows beside NeverTooMany, which holds of every state.
ContactRest == Contact!NeverTooFew' /\ Contact!ForgottenWhenFull

LEMMA ContactStepKeeps ==
  ASSUME Contact!ContactFormAssumption, ContactIInv, [Contact!Next]_(Contact!vars)
  PROVE  ContactIInv' /\ (Contact!Next => ContactRest)
<1>1. ASSUME NEW source \in FormSources, Contact!Post(source) PROVE ContactIInv' /\ ContactRest
  <2>1. ContactIInv'
    BY <1>1, ContactPostKeeps
  <2>3. Contact!NeverTooFew'
    <3>1. CASE ContactAllowed(source)
      BY <1>1, <3>1, ContactPostIs DEF Contact!NeverTooFew
    <3>2. CASE ~ContactAllowed(source)
      <4>1. refused' = [source |-> source, at |-> formNow] /\ formNow' = formNow
            /\ accepted'[source] = accepted[source]
        BY <1>1, <3>2, ContactPostIs
      <4>2. PICK from \in 0..formNow :
              Contact!Within(source, from, formNow) + 1 > Contact!Allowance(from, formNow)
        BY <3>2, ContactRefusalIsOwed
      <4>3. Contact!Within(source, from, formNow)' = Contact!Within(source, from, formNow)
        BY <4>1, ContactSameCount DEF Contact!Within
      <4> QED BY <4>1, <4>2, <4>3 DEF Contact!NeverTooFew, Contact!Allowance
    <3> QED BY <3>1, <3>2
  <2>4. Contact!ForgottenWhenFull
    <3> SUFFICES ASSUME NEW s \in FormSources, accepted'[s] = accepted[s], refused' = None,
                        buckets'[s] # None
                 PROVE  ~Contact!Spare(buckets[s])
      BY DEF Contact!ForgottenWhenFull
    <3>1. CASE s = source
      <4>1. CASE ContactAllowed(source)
        <5>1. accepted[source] \in Seq(Nat) /\ formNow \in Nat
          BY DEF ContactIInv, ContactShapes
        <5>2. Len(Append(accepted[source], formNow)) = Len(accepted[source]) + 1 /\ Len(accepted[source]) \in Nat
          BY <5>1
        <5>3. accepted'[source] = Append(accepted[source], formNow)
          BY <1>1, <4>1, ContactPostIs
        <5> QED BY <3>1, <5>2, <5>3
      <4>2. CASE ~ContactAllowed(source)
        <5>1. refused' = [source |-> source, at |-> formNow]
          BY <1>1, <4>2, ContactPostIs
        <5>2. refused' \in [source : FormSources, at : Nat]
          BY <5>1 DEF ContactIInv, ContactShapes
        <5> QED BY <5>2 DEF Contact!ContactFormAssumption
      <4> QED BY <4>1, <4>2
    <3>2. CASE s # source
      BY <1>1, <3>2, ContactPostIs
    <3> QED BY <3>1, <3>2
  <2> QED BY <2>1, <2>3, <2>4 DEF ContactRest
<1>2. ASSUME Contact!Tick PROVE ContactIInv' /\ ContactRest
  <2>1. ContactIInv'
    BY <1>2, ContactTickKeeps
  <2> QED BY <1>2, <2>1 DEF Contact!Tick, ContactRest, Contact!NeverTooFew, Contact!ForgottenWhenFull
<1>3. ASSUME UNCHANGED Contact!vars PROVE ContactIInv'
  BY <1>3 DEF Contact!vars, ContactIInv, ContactShapes, ContactAtMost, ContactAtLeast, ContactSpent,
     ContactLevel, Contact!Refilled, Contact!Within, Contact!Full
<1> QED BY <1>1, <1>2, <1>3 DEF Contact!Next

\* Where `part` is this component's, its steps are the only ones; elsewhere its
\* variables stand still.
LEMMA ContactIsAPart == Spec => Contact!Spec
<1>1. Init => Contact!Init
  BY DEF Init
<1>2. [Next]_vars => [Contact!Next]_(Contact!vars)
  BY DEF Next, vars, contactVars, Contact!vars
<1> QED BY <1>1, <1>2, PTL DEF Spec, Contact!Spec

\* For any sources, burst and rate: over any stretch of time a source has no more
\* messages accepted than the burst and what was refilled in it, though its bucket
\* is forgotten and begun again, and is refused only when one more would break
\* that; nobody but the one just served stays in the table with a full bucket
\* (_contact_allowed in web_server.py).
THEOREM ContactAlwaysHolds == Spec => ContactHolds
<1>0. Contact!ContactFormAssumption
  BY PartsAssumption
<1>1. Contact!Init => ContactIInv
  BY <1>0, ContactInitIInv
<1>2. ContactIInv /\ [Contact!Next]_(Contact!vars) => ContactIInv'
  BY <1>0, ContactStepKeeps
<1>3. ContactIInv => Contact!NeverTooMany
  BY <1>0, ContactInvGivesNeverTooMany
<1>4. ContactIInv /\ [Contact!Next]_(Contact!vars) => [part = "contact" => ContactRest]_contactVars
  BY <1>0, ContactStepKeeps DEF Contact!vars, contactVars
<1>5. Contact!NeverTooMany' /\ [part = "contact" => ContactRest]_contactVars
        => [part = "contact" => Contact!ContactStep]_contactVars
  BY DEF ContactRest, Contact!ContactStep
<1> QED BY <1>1, <1>2, <1>3, <1>4, <1>5, ContactIsAPart, PTL DEF Contact!Spec, ContactHolds

-----------------------------------------------------------------------------
(* PendingValues (frontend/session.py, frontend/web_server.py).              *)
(* In a browser whose requests do not overlap the request on its way carries *)
(* the jar as it is; so the answer sets what the jar has, less what was      *)
(* spent, and what is newest has its place because every entry of a jar is a *)
(* link that is out.                                                         *)

PendingAsked(t)    == request[t] # None /\ request[t].at = "asked"
PendingAnswered(t) == request[t] # None /\ request[t].at = "answered"

\* The entries an answer carries in its link.
PendingGiven == {request[t].entry : t \in {u \in PendingTabs : PendingAnswered(u)}} \ {None}

PendingOf(b, entries) == {e \in entries : begunIn[e.value] = b}

PendingShapes ==
  /\ purpose \in {Pending!CONSENT, Pending!CHECKOUT} /\ webNow \in Nat
  /\ webRing \in Seq(Nat) /\ webRing # <<>>
  /\ begunIn \in Seq(PendingBrowsers) /\ acceptedIn \in Seq(Seq(PendingBrowsers))
  /\ Len(acceptedIn) = Len(begunIn)
  /\ jar \in [PendingBrowsers -> SUBSET Pending!Entries]
  /\ request \in [PendingTabs -> Pending!Sendings \union Pending!Answers \union {None}]
  /\ links \in SUBSET Pending!Entries /\ IsFiniteSet(links)
  /\ cleared \in [PendingBrowsers -> Nat] /\ raced \subseteq PendingBrowsers

\* Values and keys are those minted so far, and no two entries share a value.
PendingMinted ==
  /\ \A e \in links \union PendingGiven :
       e.value \in 1..Len(begunIn) /\ e.key <= Head(webRing)
  /\ \A e, f \in links \union PendingGiven : e.value = f.value => e = f

\* A browser has only what it began, all of it out already but for what an answer
\* on its way brings.
PendingOwn ==
  /\ \A b \in PendingBrowsers : jar[b] \subseteq PendingOf(b, links)
  /\ \A t \in PendingTabs : PendingAsked(t) =>
       /\ request[t].seen \subseteq PendingOf(PendingBrowserOf[t], links)
       /\ request[t].entry # None => request[t].entry \in links
  /\ \A t \in PendingTabs : PendingAnswered(t) =>
       /\ request[t].set \subseteq
            PendingOf(PendingBrowserOf[t], links \union ({request[t].entry} \ {None}))
       /\ request[t].entry # None => begunIn[request[t].entry.value] = PendingBrowserOf[t]

\* Where requests have not overlapped there is one at a time, with the jar as it is.
PendingAlone ==
  \A t \in PendingTabs : PendingBrowserOf[t] \notin raced /\ request[t] # None =>
    /\ \A u \in PendingTabs : PendingBrowserOf[u] = PendingBrowserOf[t] /\ request[u] # None => u = t
    /\ PendingAsked(t) => request[t].seen = jar[PendingBrowserOf[t]]

\* What was accepted is in the jar no more, or will not be when the answer is there.
PendingSpent ==
  /\ \A v \in 1..Len(begunIn) : \A i \in DOMAIN acceptedIn[v] : acceptedIn[v][i] = begunIn[v]
  /\ \A v \in 1..Len(begunIn) : begunIn[v] \notin raced /\ acceptedIn[v] # <<>> =>
       /\ Len(acceptedIn[v]) = 1
       /\ \A t \in PendingTabs : PendingBrowserOf[t] = begunIn[v] /\ PendingAnswered(t) =>
            \A e \in request[t].set : e.value # v
       /\ (\A t \in PendingTabs : PendingBrowserOf[t] = begunIn[v] => ~PendingAnswered(t)) =>
            \A e \in jar[begunIn[v]] : e.value # v

\* What is pending once an answer has arrived is in what it sets.
PendingAwaited(b, c, out) ==
  /\ begunIn[c.value] = b /\ c.value \notin returned /\ c.value > cleared[b]
  /\ Pending!Ours(c)
  /\ Cardinality({e \in out : e.value > c.value /\ begunIn[e.value] = b}) < MaxPending

PendingOut(t) == links \union ({request[t].entry} \ {None})

PendingThere ==
  \A b \in PendingBrowsers \ raced : \A c \in links : PendingAwaited(b, c, links) => c \in jar[b]

PendingToCome ==
  \A t \in PendingTabs :
    PendingBrowserOf[t] \notin raced /\ PendingAnswered(t) /\ ~request[t].drops =>
      \A c \in PendingOut(t) :
        PendingAwaited(PendingBrowserOf[t], c, PendingOut(t)) => c \in request[t].set

PendingIInv ==
  /\ PendingShapes /\ PendingMinted /\ PendingOwn /\ PendingAlone /\ PendingSpent
  /\ PendingThere /\ PendingToCome

LEMMA PendingSameCount == \A S : Pending!Cardinality(S) = Cardinality(S)
BY DEF Pending!Cardinality, Cardinality

LEMMA PendingFacts ==
  ASSUME Pending!PendingValuesAssumption
  PROVE  /\ PendingBrowserOf \in [PendingTabs -> PendingBrowsers]
         /\ MaxPending \in Nat \ {0} /\ ValueTTL \in Nat
         /\ None \notin Pending!Entries /\ None \notin Pending!Sendings
         /\ None \notin Pending!Answers
BY DEF Pending!PendingValuesAssumption

LEMMA PendingRequestIs ==
  ASSUME Pending!PendingValuesAssumption, PendingShapes, NEW t \in PendingTabs
  PROVE  /\ request[t] # None => PendingAsked(t) \/ PendingAnswered(t)
         /\ ~(PendingAsked(t) /\ PendingAnswered(t))
         /\ PendingAsked(t) => /\ request[t].entry \in Pending!Entries \union {None}
                               /\ request[t].seen \subseteq Pending!Entries
         /\ PendingAnswered(t) => /\ request[t].entry \in Pending!Entries \union {None}
                                  /\ request[t].set \subseteq Pending!Entries
                                  /\ request[t].drops \in BOOLEAN
<1>1. request[t] \in Pending!Sendings \union Pending!Answers \union {None}
  BY DEF PendingShapes
<1>2. CASE request[t] \in Pending!Sendings
  BY <1>2, PendingFacts DEF Pending!Sendings, PendingAsked, PendingAnswered
<1>3. CASE request[t] \in Pending!Answers
  BY <1>3, PendingFacts DEF Pending!Answers, PendingAsked, PendingAnswered
<1>4. CASE request[t] = None
  BY <1>4 DEF PendingAsked, PendingAnswered
<1> QED BY <1>1, <1>2, <1>3, <1>4

LEMMA PendingFewer ==
  ASSUME NEW A, NEW B, A \subseteq B, IsFiniteSet(B),
         Cardinality(B) < MaxPending, MaxPending \in Nat
  PROVE  Cardinality(A) < MaxPending
<1>1. A \in SUBSET B
  OBVIOUS
<1>2. IsFiniteSet(A) /\ Cardinality(A) <= Cardinality(B)
  BY <1>1, FS_Subset
<1>3. Cardinality(A) \in Nat /\ Cardinality(B) \in Nat
  BY <1>2, FS_CardinalityType
<1> QED BY <1>2, <1>3

\* An entry of a cookie stays when fewer than MAX_PENDING are newer.
LEMMA PendingRoom ==
  ASSUME Pending!PendingValuesAssumption, NEW S, NEW c \in S, NEW T, IsFiniteSet(T),
         Cardinality(T) < MaxPending, \A f \in S : f.value > c.value => f \in T
  PROVE  c \in Pending!Render(S)
<1>1. {f \in S : f.value > c.value} \subseteq T
  OBVIOUS
<1>2. Cardinality({f \in S : f.value > c.value}) < MaxPending
  BY <1>1, PendingFewer, PendingFacts
<1> QED BY <1>2, PendingSameCount DEF Pending!Render

LEMMA PendingRendered == \A S : Pending!Render(S) \subseteq S
BY DEF Pending!Render

\* Nothing is awaited later on that was not before.
LEMMA PendingStillAwaited ==
  ASSUME Pending!PendingValuesAssumption, NEW b, NEW c, NEW out, NEW out2, IsFiniteSet(out2),
         PendingAwaited(b, c, out2)', NEW m \in Nat, c.value \in 1..m,
         out \subseteq out2, \A e \in out : e.value \in 1..m,
         \A v \in 1..m : begunIn'[v] = begunIn[v],
         returned \subseteq returned', cleared'[b] >= cleared[b],
         cleared'[b] \in Nat, cleared[b] \in Nat,
         Pending!Ours(c)' => Pending!Ours(c)
  PROVE  PendingAwaited(b, c, out)
<1> DEFINE A == {e \in out : e.value > c.value /\ begunIn[e.value] = b}
           B == {e \in out2 : e.value > c.value /\ begunIn'[e.value] = b}
<1>1. A \subseteq B
  OBVIOUS
<1>2. B \in SUBSET out2
  OBVIOUS
<1>3. IsFiniteSet(B)
  BY <1>2, FS_Subset
<1>4. Cardinality(B) < MaxPending
  BY DEF PendingAwaited
<1>5. Cardinality(A) < MaxPending
  BY <1>1, <1>3, <1>4, PendingFewer, PendingFacts
<1> HIDE DEF A, B
<1>6. begunIn[c.value] = b /\ c.value \notin returned /\ c.value > cleared[b] /\ Pending!Ours(c)
  BY DEF PendingAwaited
<1> QED BY <1>5, <1>6 DEF PendingAwaited, A

LEMMA PendingOutIs ==
  ASSUME Pending!PendingValuesAssumption, PendingShapes, PendingMinted, NEW t \in PendingTabs,
         PendingAnswered(t)
  PROVE  /\ IsFiniteSet(PendingOut(t)) /\ PendingOut(t) \subseteq Pending!Entries
         /\ links \subseteq PendingOut(t) /\ PendingOut(t) \subseteq links \union PendingGiven
<1>1. request[t].entry \in Pending!Entries \union {None}
  BY PendingRequestIs
<1>2. CASE request[t].entry = None
  <2>1. PendingOut(t) = links
    BY <1>2 DEF PendingOut
  <2> QED BY <2>1 DEF PendingShapes
<1>3. CASE request[t].entry # None
  <2>1. PendingOut(t) = links \union {request[t].entry}
    BY <1>3 DEF PendingOut
  <2>2. IsFiniteSet(PendingOut(t))
    <3>1. IsFiniteSet(links)
      BY DEF PendingShapes
    <3>2. IsFiniteSet(links \union {request[t].entry})
      BY <3>1, FS_AddElement
    <3> QED BY <2>1, <3>2
  <2>3. request[t].entry \in PendingGiven
    BY <1>3 DEF PendingGiven
  <2> QED BY <1>1, <1>3, <2>1, <2>2, <2>3 DEF PendingShapes
<1> QED BY <1>2, <1>3

LEMMA PendingInitIInv ==
  ASSUME Pending!PendingValuesAssumption, Pending!Init
  PROVE  PendingIInv
<1>1. PendingShapes
  BY FS_EmptySet DEF Pending!Init, PendingShapes
<1>2. PendingGiven = {} /\ links = {}
  BY DEF Pending!Init, PendingGiven, PendingAnswered
<1>3. PendingMinted
  BY <1>2 DEF PendingMinted
<1>4. PendingOwn /\ PendingAlone
  BY DEF Pending!Init, PendingOwn, PendingAlone, PendingAsked, PendingAnswered, PendingOf
<1>5. PendingSpent
  BY DEF Pending!Init, PendingSpent
<1>6. PendingThere /\ PendingToCome
  BY <1>2 DEF Pending!Init, PendingThere, PendingToCome, PendingAnswered
<1> QED BY <1>1, <1>3, <1>4, <1>5, <1>6 DEF PendingIInv

\* With time and a change of the key entries close, and none opens.
LEMMA PendingClocks ==
  ASSUME Pending!PendingValuesAssumption, PendingIInv, Pending!Tick \/ Pending!Rotate
  PROVE  PendingIInv'
<1>0. /\ PendingShapes /\ PendingMinted /\ PendingOwn /\ PendingAlone /\ PendingSpent
      /\ PendingThere /\ PendingToCome
  BY DEF PendingIInv
<1>1. UNCHANGED <<purpose, jar, sent, request, links, begunIn, acceptedIn, returned,
                  cleared, raced>>
  BY DEF Pending!Tick, Pending!Rotate, Pending!past
<1>2. webNow' \in Nat /\ webNow <= webNow' /\ webNow \in Nat
  BY <1>0 DEF PendingShapes, Pending!Tick, Pending!Rotate
<1>3. Head(webRing) \in Nat /\ Head(webRing) \in {webRing[i] : i \in DOMAIN webRing}
  BY <1>0 DEF PendingShapes
<1>4. /\ webRing' \in Seq(Nat) /\ webRing' # <<>> /\ Head(webRing') >= Head(webRing)
      /\ \A i \in DOMAIN webRing' : webRing'[i] <= Head(webRing) =>
                                      webRing'[i] \in {webRing[k] : k \in DOMAIN webRing}
  <2>1. CASE Pending!Tick
    BY <2>1, <1>0, <1>3 DEF Pending!Tick, PendingShapes
  <2>2. CASE Pending!Rotate
    <3>1. webRing' = <<Head(webRing) + 1, Head(webRing)>>
      BY <2>2 DEF Pending!Rotate, Pending!Rotated
    <3>2. Head(webRing') = Head(webRing) + 1 /\ webRing' \in Seq(Nat) /\ webRing' # <<>>
      BY <3>1, <1>3
    <3>3. \A i \in DOMAIN webRing' : webRing'[i] \in {Head(webRing) + 1, Head(webRing)}
      BY <3>1
    <3> QED BY <3>2, <3>3, <1>3
  <2> QED BY <2>1, <2>2
<1>5. \A c \in links \union PendingGiven : c \in Pending!Entries
  <2>1. \A c \in PendingGiven : c \in Pending!Entries
    BY <1>0, PendingRequestIs DEF PendingGiven
  <2> QED BY <2>1, <1>0 DEF PendingShapes
<1>6. ASSUME NEW c \in links \union PendingGiven, Pending!Ours(c)'
      PROVE  Pending!Ours(c)
  <2>1. /\ c # None /\ c.purpose = purpose /\ webNow' - c.iat <= ValueTTL
        /\ c.key \in {webRing'[i] : i \in DOMAIN webRing'}
    BY <1>6, <1>1 DEF Pending!Ours, Pending!Opens, Pending!Range
  <2>2. c.iat \in Nat /\ c.key \in Nat /\ c.key <= Head(webRing)
    BY <1>0, <1>5 DEF PendingMinted, Pending!Entries
  <2>3. c.key \in {webRing[k] : k \in DOMAIN webRing}
    BY <2>1, <2>2, <1>4
  <2>4. webNow - c.iat <= ValueTTL
    BY <2>1, <2>2, <1>2, PendingFacts
  <2> QED BY <2>1, <2>3, <2>4 DEF Pending!Ours, Pending!Opens, Pending!Range
<1>7. PendingShapes'
  BY <1>0, <1>1, <1>2, <1>4 DEF PendingShapes
<1>8. PendingGiven' = PendingGiven /\ \A t \in PendingTabs : PendingOut(t)' = PendingOut(t)
  BY <1>1 DEF PendingGiven, PendingAnswered, PendingOut
<1>9. PendingMinted'
  <2>1. Head(webRing) \in Nat /\ Head(webRing') \in Nat
    BY <1>3, <1>4
  <2>2. \A e \in links \union PendingGiven : e.key \in Nat
    BY <1>5 DEF Pending!Entries
  <2> QED BY <2>1, <2>2, <1>0, <1>1, <1>4, <1>8 DEF PendingMinted
<1>10. PendingOwn' /\ PendingAlone' /\ PendingSpent'
  BY <1>0, <1>1 DEF PendingOwn, PendingAlone, PendingSpent, PendingOf, PendingAsked, PendingAnswered
<1>11. PendingThere'
  <2> SUFFICES ASSUME NEW b \in PendingBrowsers \ raced, NEW c \in links,
                      PendingAwaited(b, c, links)'
               PROVE  c \in jar[b]
    BY <1>1 DEF PendingThere, PendingAwaited
  <2>1. PendingAwaited(b, c, links)
    BY <1>1, <1>6 DEF PendingAwaited
  <2> QED BY <2>1, <1>0 DEF PendingThere
<1>12. PendingToCome'
  <2> SUFFICES ASSUME NEW t \in PendingTabs, PendingBrowserOf[t] \notin raced,
                      PendingAnswered(t), ~request[t].drops, NEW c \in PendingOut(t),
                      PendingAwaited(PendingBrowserOf[t], c, PendingOut(t))'
               PROVE  c \in request[t].set
    BY <1>1, <1>8 DEF PendingToCome, PendingAnswered
  <2>1. Pending!Ours(c)
    BY <1>0, <1>6, PendingOutIs DEF PendingAwaited
  <2>2. PendingAwaited(PendingBrowserOf[t], c, PendingOut(t))
    BY <2>1, <1>1, <1>8 DEF PendingAwaited
  <2> QED BY <2>2, <1>0 DEF PendingToCome
<1> QED BY <1>7, <1>9, <1>10, <1>11, <1>12 DEF PendingIInv

LEMMA PendingSend ==
  ASSUME Pending!PendingValuesAssumption, PendingIInv, NEW t \in PendingTabs, Pending!Send(t)
  PROVE  PendingIInv'
<1> DEFINE b == PendingBrowserOf[t]
<1>0. /\ PendingShapes /\ PendingMinted /\ PendingOwn /\ PendingAlone /\ PendingSpent
      /\ PendingThere /\ PendingToCome
  BY DEF PendingIInv
<1>1. /\ request[t] = None
      /\ raced' = IF \E u \in PendingTabs : PendingBrowserOf[u] = b /\ request[u] # None
                  THEN raced \union {b} ELSE raced
      /\ UNCHANGED <<purpose, webNow, webRing, jar, links, begunIn, acceptedIn, returned, cleared>>
  BY DEF Pending!Send
<1>2. PICK c \in links \union {None} :
        request' = [request EXCEPT ![t] = [at |-> "asked", entry |-> c, seen |-> jar[b]]]
  BY DEF Pending!Send
<1>3. b \in PendingBrowsers /\ jar[b] \subseteq Pending!Entries
  BY <1>0, PendingFacts DEF PendingShapes
<1>4. request'[t] = [at |-> "asked", entry |-> c, seen |-> jar[b]] /\ request'[t] \in Pending!Sendings
  BY <1>0, <1>2, <1>3 DEF PendingShapes, Pending!Sendings
<1>5. \A u \in PendingTabs : u # t => request'[u] = request[u]
  BY <1>0, <1>2 DEF PendingShapes
<1>6. /\ request'[t] # None /\ request'[t].at = "asked" /\ request'[t].entry = c
      /\ request'[t].seen = jar[b]
  BY <1>4, PendingFacts
<1>7. PendingShapes'
  <2>1. request' \in [PendingTabs -> Pending!Sendings \union Pending!Answers \union {None}]
    BY <1>0, <1>2, <1>4 DEF PendingShapes
  <2> QED BY <2>1, <1>0, <1>1, <1>3 DEF PendingShapes
<1>8. \A u \in PendingTabs : PendingAnswered(u)' <=> u # t /\ PendingAnswered(u)
  BY <1>5, <1>6 DEF PendingAnswered
<1>9. \A u \in PendingTabs : PendingAnswered(u)' => PendingAnswered(u) /\ request'[u] = request[u]
  BY <1>5, <1>8
<1>10. PendingMinted'
  <2>1. PendingGiven' \subseteq PendingGiven
    BY <1>9 DEF PendingGiven
  <2> QED BY <2>1, <1>0, <1>1 DEF PendingMinted
<1>11. PendingOwn'
  BY <1>0, <1>1, <1>3, <1>5, <1>6, <1>9 DEF PendingOwn, PendingOf, PendingAsked
<1>12. PendingAlone'
  <2> SUFFICES ASSUME NEW u \in PendingTabs, PendingBrowserOf[u] \notin raced', request'[u] # None
               PROVE  /\ \A x \in PendingTabs :
                           PendingBrowserOf[x] = PendingBrowserOf[u] /\ request'[x] # None => x = u
                      /\ PendingAsked(u)' => request'[u].seen = jar[PendingBrowserOf[u]]
    BY <1>1 DEF PendingAlone
  <2>1. PendingBrowserOf[u] \notin raced
    BY <1>1
  <2>2. CASE PendingBrowserOf[u] = b
    <3>1. \A x \in PendingTabs : PendingBrowserOf[x] = b => request[x] = None
      BY <1>1, <2>2
    <3> QED BY <3>1, <2>2, <1>5, <1>6
  <2>3. CASE PendingBrowserOf[u] # b
    BY <2>1, <2>3, <1>0, <1>5 DEF PendingAlone, PendingAsked
  <2> QED BY <2>2, <2>3
<1>13. PendingSpent'
  <2>1. \A v : begunIn[v] \notin raced' => begunIn[v] \notin raced
    BY <1>1
  <2>2. \A v \in 1..Len(begunIn) :
          (\A u \in PendingTabs : PendingBrowserOf[u] = begunIn[v] => ~PendingAnswered(u)')
            => (\A u \in PendingTabs : PendingBrowserOf[u] = begunIn[v] => ~PendingAnswered(u))
    BY <1>1, <1>8 DEF PendingAnswered
  <2> QED BY <2>1, <2>2, <1>0, <1>1, <1>9 DEF PendingSpent
<1>14. PendingThere'
  BY <1>0, <1>1 DEF PendingThere, PendingAwaited, Pending!Ours
<1>15. PendingToCome'
  <2> SUFFICES ASSUME NEW u \in PendingTabs, PendingBrowserOf[u] \notin raced',
                      PendingAnswered(u)', ~request'[u].drops, NEW e \in PendingOut(u)',
                      PendingAwaited(PendingBrowserOf[u], e, PendingOut(u))'
               PROVE  e \in request'[u].set
    BY DEF PendingToCome
  <2>1. PendingAnswered(u) /\ request'[u] = request[u] /\ PendingBrowserOf[u] \notin raced
    BY <1>1, <1>9
  <2>2. PendingOut(u)' = PendingOut(u)
    BY <2>1, <1>1 DEF PendingOut
  <2>3. PendingAwaited(PendingBrowserOf[u], e, PendingOut(u))
    BY <2>2, <1>1 DEF PendingAwaited, Pending!Ours
  <2> QED BY <2>1, <2>2, <2>3, <1>0 DEF PendingToCome
<1> QED BY <1>7, <1>10, <1>11, <1>12, <1>13, <1>14, <1>15 DEF PendingIInv

LEMMA PendingServeBegin ==
  ASSUME Pending!PendingValuesAssumption, PendingIInv, NEW t \in PendingTabs, Pending!ServeBegin(t)
  PROVE  PendingIInv'
<1> DEFINE b == PendingBrowserOf[t]
           n == Len(begunIn) + 1
           c == Pending!Sign(purpose, n, webNow, webRing)
           S == {c} \union Pending!Live(request[t].seen)
<1>0. /\ PendingShapes /\ PendingMinted /\ PendingOwn /\ PendingAlone /\ PendingSpent
      /\ PendingThere /\ PendingToCome
  BY DEF PendingIInv
<1>1. /\ PendingAsked(t)
      /\ request' = [request EXCEPT ![t] = [at |-> "answered", entry |-> c,
                                            set |-> Pending!Render(S), drops |-> FALSE]]
      /\ begunIn' = Append(begunIn, b) /\ acceptedIn' = Append(acceptedIn, <<>>)
      /\ UNCHANGED <<purpose, webNow, webRing, jar, links, returned, cleared, raced>>
  BY DEF Pending!ServeBegin, Pending!Answer, Pending!WithEntry, Pending!Asked, PendingAsked
<1>2. /\ c.value = n /\ c.key = Head(webRing) /\ c \in Pending!Entries /\ c # None
      /\ n \in Nat \ {0} /\ Len(begunIn) \in Nat /\ Head(webRing) \in Nat
  <2>1. /\ Len(begunIn) \in Nat /\ Head(webRing) \in Nat /\ webNow \in Nat
        /\ purpose \in {Pending!CONSENT, Pending!CHECKOUT}
    BY <1>0 DEF PendingShapes
  <2>2. c \in Pending!Entries /\ c.value = n /\ c.key = Head(webRing)
    BY <2>1 DEF Pending!Sign, Pending!Entries
  <2> QED BY <2>1, <2>2, PendingFacts
<1>3. b \in PendingBrowsers /\ request[t].seen \subseteq Pending!Entries
      /\ request[t].seen \subseteq PendingOf(b, links)
  BY <1>0, <1>1, PendingFacts, PendingRequestIs DEF PendingOwn
<1> HIDE DEF c
<1>4. Pending!Live(request[t].seen) = {e \in request[t].seen : Pending!Ours(e)}
  BY DEF Pending!Live
<1>5. Pending!Render(S) \subseteq S /\ S \subseteq {c} \union request[t].seen
  BY <1>4, PendingRendered
<1>6. request'[t] = [at |-> "answered", entry |-> c, set |-> Pending!Render(S), drops |-> FALSE]
      /\ request'[t] \in Pending!Answers
  BY <1>0, <1>1, <1>2, <1>3, <1>5 DEF PendingShapes, Pending!Answers
<1>7. /\ request'[t] # None /\ request'[t].at = "answered" /\ request'[t].entry = c
      /\ request'[t].set = Pending!Render(S) /\ request'[t].drops = FALSE
  <2>1. request'[t] # None
    BY <1>6, PendingFacts
  <2> HIDE DEF S
  <2> QED BY <1>6, <2>1
<1>8. \A u \in PendingTabs : u # t => request'[u] = request[u]
  BY <1>0, <1>1 DEF PendingShapes
<1> HIDE DEF S
<1>9. /\ \A v \in 1..Len(begunIn) : begunIn'[v] = begunIn[v] /\ acceptedIn'[v] = acceptedIn[v]
      /\ begunIn'[n] = b /\ acceptedIn'[n] = <<>>
      /\ Len(begunIn') = n /\ Len(acceptedIn') = n
      /\ begunIn' \in Seq(PendingBrowsers) /\ acceptedIn' \in Seq(Seq(PendingBrowsers))
  <2>1. /\ begunIn \in Seq(PendingBrowsers) /\ acceptedIn \in Seq(Seq(PendingBrowsers))
        /\ Len(acceptedIn) = Len(begunIn) /\ <<>> \in Seq(PendingBrowsers)
    BY <1>0 DEF PendingShapes
  <2> QED BY <2>1, <1>1, <1>3
<1>10. PendingShapes'
  <2>1. request' \in [PendingTabs -> Pending!Sendings \union Pending!Answers \union {None}]
    BY <1>0, <1>1, <1>6 DEF PendingShapes
  <2> QED BY <2>1, <1>0, <1>1, <1>9 DEF PendingShapes
<1>11. \A u \in PendingTabs : u # t => /\ PendingAnswered(u)' <=> PendingAnswered(u)
                                       /\ PendingAsked(u)' <=> PendingAsked(u)
  BY <1>8 DEF PendingAnswered, PendingAsked
<1>12. PendingAnswered(t)' /\ ~PendingAsked(t)' /\ ~PendingAnswered(t)
  BY <1>0, <1>1, <1>7, PendingRequestIs DEF PendingAnswered, PendingAsked
<1>13. PendingGiven' \subseteq PendingGiven \union {c}
  BY <1>7, <1>8, <1>11 DEF PendingGiven
<1>14. \A e \in links \union PendingGiven : e.value \in 1..Len(begunIn) /\ e.key <= Head(webRing)
  BY <1>0 DEF PendingMinted
<1>15. PendingMinted'
  <2>1. \A e \in links' \union PendingGiven' : e = c \/ e \in links \union PendingGiven
    BY <1>1, <1>13
  <2>2. \A e \in links' \union PendingGiven' : e.value \in 1..Len(begunIn') /\ e.key <= Head(webRing')
    BY <2>1, <1>1, <1>2, <1>9, <1>14
  <2>3. \A e \in links \union PendingGiven : e.value # c.value
    BY <1>2, <1>14
  <2>4. \A e, f \in links' \union PendingGiven' : e.value = f.value => e = f
    BY <2>1, <2>3, <1>0 DEF PendingMinted
  <2> QED BY <2>2, <2>4 DEF PendingMinted
<1>17. \A x : \A e \in links \union PendingGiven : begunIn'[e.value] = x <=> begunIn[e.value] = x
  BY <1>9, <1>14
<1>18. \A x : PendingOf(x, links) \subseteq PendingOf(x, links)'
  BY <1>1, <1>17 DEF PendingOf
<1>19. PendingOwn'
  <2>1. \A x \in PendingBrowsers : jar'[x] \subseteq PendingOf(x, links)'
    BY <1>0, <1>1, <1>18 DEF PendingOwn
  <2>2. ASSUME NEW u \in PendingTabs, PendingAsked(u)'
        PROVE  /\ request'[u].seen \subseteq PendingOf(PendingBrowserOf[u], links)'
               /\ request'[u].entry # None => request'[u].entry \in links'
    BY <2>2, <1>0, <1>1, <1>8, <1>11, <1>12, <1>18 DEF PendingOwn
  <2>3. ASSUME NEW u \in PendingTabs, u # t, PendingAnswered(u)'
        PROVE  /\ request'[u].set \subseteq PendingOf(PendingBrowserOf[u], PendingOut(u))'
               /\ request'[u].entry # None => begunIn'[request'[u].entry.value] = PendingBrowserOf[u]
    <3>1. PendingAnswered(u) /\ request'[u] = request[u] /\ PendingOut(u)' = PendingOut(u)
      BY <2>3, <1>1, <1>8, <1>11 DEF PendingOut
    <3>2. PendingOut(u) \subseteq links \union PendingGiven
      BY <3>1, <1>0, PendingOutIs
    <3>3. request[u].set \subseteq PendingOf(PendingBrowserOf[u], PendingOut(u))
      BY <3>1, <1>0 DEF PendingOwn, PendingOut
    <3>4. request[u].entry # None => request[u].entry \in PendingGiven
      BY <3>1 DEF PendingGiven
    <3>5. request'[u].set \subseteq PendingOf(PendingBrowserOf[u], PendingOut(u))'
      BY <3>1, <3>2, <3>3, <1>17 DEF PendingOf
    <3>6. request[u].entry # None => begunIn[request[u].entry.value] = PendingBrowserOf[u]
      BY <3>1, <1>0 DEF PendingOwn
    <3> QED BY <3>1, <3>4, <3>5, <3>6, <1>17
  <2>4. /\ request'[t].set \subseteq PendingOf(b, PendingOut(t))'
        /\ begunIn'[request'[t].entry.value] = b
    <3>1. PendingOut(t)' = links \union {c}
      BY <1>1, <1>2, <1>7 DEF PendingOut
    <3>2. \A e \in request[t].seen : e \in links /\ begunIn'[e.value] = b
      BY <1>3, <1>17 DEF PendingOf
    <3> QED BY <3>1, <3>2, <1>2, <1>5, <1>7, <1>9 DEF PendingOf
  <2> QED BY <2>1, <2>2, <2>3, <2>4 DEF PendingOwn, PendingOut
<1>20. PendingAlone'
  <2>1. \A u \in PendingTabs : request'[u] # None <=> request[u] # None
    BY <1>1, <1>7, <1>8 DEF PendingAsked
  <2>2. \A u \in PendingTabs : PendingAsked(u)' => PendingAsked(u) /\ request'[u] = request[u]
    BY <1>8, <1>11, <1>12
  <2> QED BY <2>1, <2>2, <1>0, <1>1 DEF PendingAlone
<1>21. PendingSpent'
  <2>1. \A v \in 1..Len(begunIn') : v \in 1..Len(begunIn) \/ v = n
    BY <1>2, <1>9
  <2>2. \A v \in 1..Len(begunIn') : \A i \in DOMAIN acceptedIn'[v] : acceptedIn'[v][i] = begunIn'[v]
    BY <2>1, <1>0, <1>9 DEF PendingSpent
  <2>3. ASSUME NEW v \in 1..Len(begunIn'), begunIn'[v] \notin raced', acceptedIn'[v] # <<>>
        PROVE  /\ Len(acceptedIn'[v]) = 1
               /\ \A u \in PendingTabs : PendingBrowserOf[u] = begunIn'[v] /\ PendingAnswered(u)' =>
                    \A e \in request'[u].set : e.value # v
               /\ (\A u \in PendingTabs : PendingBrowserOf[u] = begunIn'[v] => ~PendingAnswered(u)') =>
                    \A e \in jar'[begunIn'[v]] : e.value # v
    <3>1. /\ v \in 1..Len(begunIn) /\ begunIn'[v] = begunIn[v] /\ acceptedIn'[v] = acceptedIn[v]
          /\ begunIn[v] \notin raced
      BY <2>1, <2>3, <1>1, <1>9
    <3>2. /\ Len(acceptedIn[v]) = 1
          /\ \A u \in PendingTabs : PendingBrowserOf[u] = begunIn[v] /\ PendingAnswered(u) =>
               \A e \in request[u].set : e.value # v
          /\ (\A u \in PendingTabs : PendingBrowserOf[u] = begunIn[v] => ~PendingAnswered(u)) =>
               \A e \in jar[begunIn[v]] : e.value # v
      BY <3>1, <2>3, <1>0 DEF PendingSpent
    <3>3. CASE begunIn[v] # b
      BY <3>1, <3>2, <3>3, <1>1, <1>8, <1>11
    <3>4. CASE begunIn[v] = b
      <4>1. /\ \A u \in PendingTabs : PendingBrowserOf[u] = b /\ request[u] # None => u = t
            /\ request[t].seen = jar[b]
        BY <3>1, <3>4, <1>0, <1>1 DEF PendingAlone, PendingAsked
      <4>2. \A u \in PendingTabs : PendingBrowserOf[u] = b => ~PendingAnswered(u)
        BY <4>1, <1>12 DEF PendingAnswered
      <4>3. \A e \in request[t].seen : e.value # v
        BY <4>1, <4>2, <3>2, <3>4
      <4>4. \A e \in request'[t].set : e.value # v
        BY <4>3, <3>1, <1>2, <1>5, <1>7
      <4>5. \A u \in PendingTabs : PendingBrowserOf[u] = b /\ PendingAnswered(u)' => u = t
        BY <4>2, <1>11
      <4> QED BY <4>4, <4>5, <3>1, <3>2, <3>4, <1>12
    <3> QED BY <3>3, <3>4
  <2> QED BY <2>2, <2>3 DEF PendingSpent
<1>22. \A e : Pending!Ours(e)' <=> Pending!Ours(e)
  BY <1>1 DEF Pending!Ours
<1>23. \A x \in PendingBrowsers : cleared[x] \in Nat
  BY <1>0 DEF PendingShapes
<1>24. PendingThere'
  <2> SUFFICES ASSUME NEW x \in PendingBrowsers \ raced, NEW d \in links,
                      PendingAwaited(x, d, links)'
               PROVE  d \in jar[x]
    BY <1>1 DEF PendingThere
  <2>3. PendingAwaited(x, d, links)
    <3>1. {e \in links : e.value > d.value /\ begunIn'[e.value] = x}
            = {e \in links : e.value > d.value /\ begunIn[e.value] = x}
      BY <1>17
    <3> QED BY <3>1, <1>1, <1>17, <1>22 DEF PendingAwaited
  <2> QED BY <2>3, <1>0 DEF PendingThere
<1>25. PendingToCome'
  <2> SUFFICES ASSUME NEW u \in PendingTabs, PendingBrowserOf[u] \notin raced,
                      PendingAnswered(u)', ~request'[u].drops, NEW d \in PendingOut(u)',
                      PendingAwaited(PendingBrowserOf[u], d, PendingOut(u))'
               PROVE  d \in request'[u].set
    BY <1>1 DEF PendingToCome
  <2>1. CASE u # t
    <3>1. PendingAnswered(u) /\ request'[u] = request[u] /\ PendingOut(u)' = PendingOut(u)
      BY <2>1, <1>1, <1>8, <1>11 DEF PendingOut
    <3>2. PendingOut(u) \subseteq links \union PendingGiven
      BY <3>1, <1>0, PendingOutIs
    <3>3. PendingAwaited(PendingBrowserOf[u], d, PendingOut(u))
      <4> DEFINE x == PendingBrowserOf[u]
      <4>1. {e \in PendingOut(u) : e.value > d.value /\ begunIn'[e.value] = x}
              = {e \in PendingOut(u) : e.value > d.value /\ begunIn[e.value] = x}
        BY <3>2, <1>17
      <4>2. d \in PendingOut(u) /\ (begunIn'[d.value] = x <=> begunIn[d.value] = x)
        BY <3>1, <3>2, <1>17
      <4> QED BY <4>1, <4>2, <3>1, <1>1, <1>22 DEF PendingAwaited
    <3> QED BY <3>1, <3>3, <1>0 DEF PendingToCome
  <2>2. CASE u = t
    <3> DEFINE out == links \union {c}
    <3>1. PendingOut(t)' = out /\ IsFiniteSet(out) /\ IsFiniteSet(links)
      <4>1. PendingOut(t)' = out
        BY <1>1, <1>2, <1>7 DEF PendingOut
      <4>2. IsFiniteSet(links)
        BY <1>0 DEF PendingShapes
      <4> QED BY <4>1, <4>2, FS_AddElement
    <3>2. /\ begunIn'[d.value] = b /\ d.value \notin returned /\ d.value > cleared[b]
          /\ Pending!Ours(d)
          /\ Cardinality({e \in out : e.value > d.value /\ begunIn'[e.value] = b}) < MaxPending
      BY <2>2, <3>1, <1>1, <1>22 DEF PendingAwaited
    <3>3. d \in S
      <4>1. SUFFICES ASSUME d \in links PROVE d \in S
        BY <3>1, <2>2 DEF S
      <4>2. {e \in links : e.value > d.value /\ begunIn[e.value] = b}
              \subseteq {e \in out : e.value > d.value /\ begunIn'[e.value] = b}
        BY <1>17
      <4>3. IsFiniteSet({e \in out : e.value > d.value /\ begunIn'[e.value] = b})
        <5>1. {e \in out : e.value > d.value /\ begunIn'[e.value] = b} \in SUBSET out
          OBVIOUS
        <5> QED BY <5>1, <3>1, FS_Subset
      <4>4. Cardinality({e \in links : e.value > d.value /\ begunIn[e.value] = b}) < MaxPending
        BY <4>2, <4>3, <3>2, PendingFewer, PendingFacts
      <4>5. PendingAwaited(b, d, links)
        BY <4>1, <4>4, <3>2, <1>17 DEF PendingAwaited
      <4>6. d \in jar[b]
        BY <4>1, <4>5, <2>2, <1>0, <1>3 DEF PendingThere
      <4>7. request[t].seen = jar[b]
        BY <2>2, <1>0, <1>1 DEF PendingAlone, PendingAsked
      <4> QED BY <4>6, <4>7, <3>2, <1>4 DEF S
    <3>4. S \subseteq {e \in out : begunIn'[e.value] = b}
      BY <1>2, <1>3, <1>5, <1>9, <1>17 DEF PendingOf
    <3>5. d \in Pending!Render(S)
      <4> DEFINE T == {e \in out : e.value > d.value /\ begunIn'[e.value] = b}
      <4>1. T \in SUBSET out
        OBVIOUS
      <4>2. IsFiniteSet(T)
        BY <4>1, <3>1, FS_Subset
      <4>3. Cardinality(T) < MaxPending
        BY <3>2
      <4>4. \A f \in S : f.value > d.value => f \in T
        BY <3>4
      <4> HIDE DEF T
      <4> QED BY <3>3, <4>2, <4>3, <4>4, PendingRoom
    <3> QED BY <3>5, <2>2, <1>7
  <2> QED BY <2>1, <2>2
<1> QED BY <1>10, <1>15, <1>19, <1>20, <1>21, <1>24, <1>25 DEF PendingIInv

\* An answer without a cookie leaves all as it was, the request aside.
LEMMA PendingServeNothing ==
  ASSUME Pending!PendingValuesAssumption, PendingIInv, NEW t \in PendingTabs, Pending!ServeNothing(t)
  PROVE  PendingIInv'
<1>0. /\ PendingShapes /\ PendingMinted /\ PendingOwn /\ PendingAlone /\ PendingSpent
      /\ PendingThere /\ PendingToCome
  BY DEF PendingIInv
<1>1. /\ PendingAsked(t) /\ request' = [request EXCEPT ![t] = None]
      /\ UNCHANGED <<purpose, webNow, webRing, jar, links, begunIn, acceptedIn, returned,
                     cleared, raced>>
  BY DEF Pending!ServeNothing, Pending!Asked, PendingAsked, Pending!past
<1>2. /\ request'[t] = None
      /\ \A u \in PendingTabs : u # t => request'[u] = request[u]
  BY <1>0, <1>1 DEF PendingShapes
<1>3. \A u \in PendingTabs : request'[u] # None => request[u] # None /\ request'[u] = request[u]
  BY <1>2
<1>4. \A u \in PendingTabs : PendingAnswered(u)' <=> PendingAnswered(u)
  BY <1>0, <1>1, <1>2, PendingRequestIs DEF PendingAnswered
<1>5. \A u \in PendingTabs : PendingAnswered(u)' => request'[u] = request[u]
  BY <1>3 DEF PendingAnswered
<1>6. PendingShapes'
  <2>1. request' \in [PendingTabs -> Pending!Sendings \union Pending!Answers \union {None}]
    BY <1>0, <1>1 DEF PendingShapes
  <2> QED BY <2>1, <1>0, <1>1 DEF PendingShapes
<1>7. PendingMinted'
  <2>1. PendingGiven' = PendingGiven
    BY <1>4, <1>5 DEF PendingGiven
  <2> QED BY <2>1, <1>0, <1>1 DEF PendingMinted
<1>8. PendingOwn' /\ PendingAlone'
  BY <1>0, <1>1, <1>3, <1>4, <1>5 DEF PendingOwn, PendingOf, PendingAlone, PendingAsked
<1>9. PendingSpent'
  BY <1>0, <1>1, <1>4, <1>5 DEF PendingSpent
<1>10. PendingThere'
  BY <1>0, <1>1 DEF PendingThere, PendingAwaited, Pending!Ours
<1>11. PendingToCome'
  <2> SUFFICES ASSUME NEW u \in PendingTabs, PendingBrowserOf[u] \notin raced,
                      PendingAnswered(u)', ~request'[u].drops, NEW e \in PendingOut(u)',
                      PendingAwaited(PendingBrowserOf[u], e, PendingOut(u))'
               PROVE  e \in request'[u].set
    BY <1>1 DEF PendingToCome
  <2>1. PendingAnswered(u) /\ request'[u] = request[u]
    BY <1>4, <1>5
  <2>2. PendingOut(u)' = PendingOut(u)
    BY <2>1, <1>1 DEF PendingOut
  <2>3. PendingAwaited(PendingBrowserOf[u], e, PendingOut(u))
    BY <2>2, <1>1 DEF PendingAwaited, Pending!Ours
  <2> QED BY <2>1, <2>2, <2>3, <1>0 DEF PendingToCome
<1> QED BY <1>6, <1>7, <1>8, <1>9, <1>10, <1>11 DEF PendingIInv

LEMMA PendingServeReturn ==
  ASSUME Pending!PendingValuesAssumption, PendingIInv, NEW t \in PendingTabs, Pending!ServeReturn(t)
  PROVE  PendingIInv'
<1> DEFINE b == PendingBrowserOf[t]
           c == request[t].entry
           mine == request[t].seen
           ours == Pending!IsOurs(c, mine)
<1>0. /\ PendingShapes /\ PendingMinted /\ PendingOwn /\ PendingAlone /\ PendingSpent
      /\ PendingThere /\ PendingToCome
  BY DEF PendingIInv
<1>1. /\ PendingAsked(t) /\ c # None
      /\ acceptedIn' = IF ours THEN [acceptedIn EXCEPT ![c.value] = Append(@, b)] ELSE acceptedIn
      /\ returned' = returned \union {c.value}
      /\ UNCHANGED <<purpose, webNow, webRing, jar, links, begunIn, cleared, raced>>
  BY DEF Pending!ServeReturn, Pending!Asked, PendingAsked
<1>2. PICK set \in {{}, Pending!Without(c, mine)} : \E drops \in BOOLEAN :
        /\ request' = [request EXCEPT ![t] = [at |-> "answered", entry |-> None,
                                              set |-> set, drops |-> drops]]
        /\ ~drops => set = Pending!Without(c, mine)
  BY DEF Pending!ServeReturn, Pending!Answer
<1>3. PICK drops \in BOOLEAN :
        /\ request' = [request EXCEPT ![t] = [at |-> "answered", entry |-> None,
                                              set |-> set, drops |-> drops]]
        /\ ~drops => set = Pending!Without(c, mine)
  BY <1>2
<1>4. /\ b \in PendingBrowsers /\ mine \subseteq Pending!Entries
      /\ mine \subseteq PendingOf(b, links) /\ c \in links
  BY <1>0, <1>1, PendingFacts, PendingRequestIs DEF PendingOwn
<1>5. /\ Pending!Live(mine) = {e \in mine : Pending!Ours(e)}
      /\ ours => c \in Pending!Live(mine)
  BY DEF Pending!Live, Pending!IsOurs
<1>6. set \subseteq Pending!Live(mine) \ {c}
  BY <1>2, PendingRendered DEF Pending!Without
<1> HIDE DEF c, mine, ours
<1>7. /\ request'[t] = [at |-> "answered", entry |-> None, set |-> set, drops |-> drops]
      /\ request'[t] \in Pending!Answers
  BY <1>0, <1>3, <1>4, <1>5, <1>6 DEF PendingShapes, Pending!Answers
<1>8. /\ request'[t] # None /\ request'[t].at = "answered" /\ request'[t].entry = None
      /\ request'[t].set = set /\ request'[t].drops = drops
  <2>1. request'[t] # None
    BY <1>7, PendingFacts
  <2> QED BY <1>7, <2>1
<1>9. \A u \in PendingTabs : u # t => request'[u] = request[u]
  BY <1>0, <1>3 DEF PendingShapes
<1>10. \A u \in PendingTabs : u # t => /\ PendingAnswered(u)' <=> PendingAnswered(u)
                                       /\ PendingAsked(u)' <=> PendingAsked(u)
  BY <1>9 DEF PendingAnswered, PendingAsked
<1>11. PendingAnswered(t)' /\ ~PendingAsked(t)' /\ ~PendingAnswered(t)
  BY <1>0, <1>1, <1>8, PendingRequestIs DEF PendingAnswered, PendingAsked
<1>12. c.value \in 1..Len(begunIn) /\ Len(begunIn) \in Nat
  BY <1>0, <1>4 DEF PendingMinted, PendingShapes
<1>13. /\ acceptedIn' \in Seq(Seq(PendingBrowsers)) /\ Len(acceptedIn') = Len(begunIn)
       /\ \A v \in 1..Len(begunIn) : v # c.value \/ ~ours => acceptedIn'[v] = acceptedIn[v]
       /\ ours => acceptedIn'[c.value] = Append(acceptedIn[c.value], b)
       /\ \A v \in 1..Len(begunIn) : acceptedIn[v] \in Seq(PendingBrowsers)
  <2>1. acceptedIn \in Seq(Seq(PendingBrowsers)) /\ Len(acceptedIn) = Len(begunIn)
    BY <1>0 DEF PendingShapes
  <2>2. \A v \in 1..Len(begunIn) : acceptedIn[v] \in Seq(PendingBrowsers)
    BY <2>1
  <2>3. Append(acceptedIn[c.value], b) \in Seq(PendingBrowsers)
    BY <2>2, <1>4, <1>12
  <2>4. CASE ours
    BY <2>1, <2>2, <2>3, <2>4, <1>1, <1>12
  <2>5. CASE ~ours
    BY <2>1, <2>2, <2>5, <1>1
  <2> QED BY <2>4, <2>5
<1>14. PendingShapes'
  <2>1. request' \in [PendingTabs -> Pending!Sendings \union Pending!Answers \union {None}]
    BY <1>0, <1>3, <1>7 DEF PendingShapes
  <2> QED BY <2>1, <1>0, <1>1, <1>13 DEF PendingShapes
<1>15. PendingMinted'
  <2>1. PendingGiven' \subseteq PendingGiven
    BY <1>8, <1>9, <1>10 DEF PendingGiven
  <2> QED BY <2>1, <1>0, <1>1 DEF PendingMinted
<1>16. PendingOwn'
  <2>1. set \subseteq PendingOf(b, links)
    BY <1>4, <1>5, <1>6
  <2>2. \A u \in PendingTabs : PendingAsked(u)' => PendingAsked(u) /\ request'[u] = request[u]
    BY <1>9, <1>10, <1>11
  <2>3. \A u \in PendingTabs : u # t /\ PendingAnswered(u)'
          => PendingAnswered(u) /\ request'[u] = request[u]
    BY <1>9, <1>10
  <2>4. \A x \in PendingBrowsers : jar'[x] \subseteq PendingOf(x, links)'
    BY <1>0, <1>1 DEF PendingOwn, PendingOf
  <2>5. ASSUME NEW u \in PendingTabs, PendingAsked(u)'
        PROVE  /\ request'[u].seen \subseteq PendingOf(PendingBrowserOf[u], links)'
               /\ request'[u].entry # None => request'[u].entry \in links'
    BY <2>2, <2>5, <1>0, <1>1 DEF PendingOwn, PendingOf
  <2>6. ASSUME NEW u \in PendingTabs, PendingAnswered(u)'
        PROVE  /\ request'[u].set \subseteq
                    PendingOf(PendingBrowserOf[u], links \union ({request[u].entry} \ {None}))'
               /\ request'[u].entry # None => begunIn'[request'[u].entry.value] = PendingBrowserOf[u]
    <3>1. CASE u = t
      BY <3>1, <2>1, <1>1, <1>8 DEF PendingOf
    <3>2. CASE u # t
      BY <3>2, <2>3, <2>6, <1>0, <1>1 DEF PendingOwn, PendingOf
    <3> QED BY <3>1, <3>2
  <2> QED BY <2>4, <2>5, <2>6 DEF PendingOwn
<1>17. PendingAlone'
  <2>1. \A u \in PendingTabs : request'[u] # None <=> request[u] # None
    BY <1>1, <1>8, <1>9 DEF PendingAsked
  <2>2. \A u \in PendingTabs : PendingAsked(u)' => PendingAsked(u) /\ request'[u] = request[u]
    BY <1>9, <1>10, <1>11
  <2> QED BY <2>1, <2>2, <1>0, <1>1 DEF PendingAlone
<1>18. b \notin raced => /\ mine = jar[b]
                         /\ \A u \in PendingTabs : PendingBrowserOf[u] = b => ~PendingAnswered(u)
                         /\ \A u \in PendingTabs :
                              PendingBrowserOf[u] = b /\ PendingAnswered(u)' => u = t
  <2> SUFFICES ASSUME b \notin raced
               PROVE  /\ mine = jar[b]
                      /\ \A u \in PendingTabs : PendingBrowserOf[u] = b => ~PendingAnswered(u)
                      /\ \A u \in PendingTabs :
                           PendingBrowserOf[u] = b /\ PendingAnswered(u)' => u = t
    OBVIOUS
  <2>1. /\ \A u \in PendingTabs : PendingBrowserOf[u] = b /\ request[u] # None => u = t
        /\ mine = jar[b]
    BY <1>0, <1>1 DEF PendingAlone, PendingAsked, mine
  <2>2. \A u \in PendingTabs : PendingBrowserOf[u] = b => ~PendingAnswered(u)
    BY <2>1, <1>11 DEF PendingAnswered
  <2> QED BY <2>1, <2>2, <1>10
<1>19. PendingSpent'
  <2>1. ours => /\ begunIn[c.value] = b /\ c \in mine
    BY <1>4, <1>5 DEF PendingOf
  <2>2. \A v \in 1..Len(begunIn') : \A i \in DOMAIN acceptedIn'[v] : acceptedIn'[v][i] = begunIn'[v]
    <3> SUFFICES ASSUME NEW v \in 1..Len(begunIn), NEW i \in DOMAIN acceptedIn'[v]
                 PROVE  acceptedIn'[v][i] = begunIn[v]
      BY <1>1
    <3>1. CASE v # c.value \/ ~ours
      BY <3>1, <1>0, <1>13 DEF PendingSpent
    <3>2. CASE v = c.value /\ ours
      <4>1. acceptedIn'[v] = Append(acceptedIn[v], b) /\ acceptedIn[v] \in Seq(PendingBrowsers)
        BY <3>2, <1>13
      <4>2. \A k \in DOMAIN acceptedIn[v] : acceptedIn[v][k] = begunIn[v]
        BY <1>0 DEF PendingSpent
      <4> QED BY <4>1, <4>2, <3>2, <2>1
    <3> QED BY <3>1, <3>2
  <2>3. ASSUME NEW v \in 1..Len(begunIn), begunIn[v] \notin raced, acceptedIn'[v] # <<>>
        PROVE  /\ Len(acceptedIn'[v]) = 1
               /\ \A u \in PendingTabs : PendingBrowserOf[u] = begunIn[v] /\ PendingAnswered(u)' =>
                    \A e \in request'[u].set : e.value # v
               /\ (\A u \in PendingTabs : PendingBrowserOf[u] = begunIn[v] => ~PendingAnswered(u)') =>
                    \A e \in jar[begunIn[v]] : e.value # v
    <3>1. acceptedIn[v] # <<>> =>
            /\ Len(acceptedIn[v]) = 1
            /\ \A u \in PendingTabs : PendingBrowserOf[u] = begunIn[v] /\ PendingAnswered(u) =>
                 \A e \in request[u].set : e.value # v
            /\ (\A u \in PendingTabs : PendingBrowserOf[u] = begunIn[v] => ~PendingAnswered(u)) =>
                 \A e \in jar[begunIn[v]] : e.value # v
      BY <2>3, <1>0 DEF PendingSpent
    <3>2. CASE begunIn[v] # b
      <4>1. acceptedIn'[v] = acceptedIn[v]
        BY <3>2, <2>1, <1>13
      <4> QED BY <4>1, <3>1, <3>2, <2>3, <1>9, <1>10
    <3>3. CASE begunIn[v] = b /\ (v # c.value \/ ~ours)
      <4>1. acceptedIn'[v] = acceptedIn[v]
        BY <3>3, <1>13
      <4>2. \A e \in mine : e.value # v
        BY <4>1, <3>1, <3>3, <2>3, <1>18
      <4>3. \A e \in set : e.value # v
        BY <4>2, <1>5, <1>6
      <4> QED BY <4>1, <4>3, <3>1, <3>3, <2>3, <1>8, <1>11, <1>18
    <3>4. CASE begunIn[v] = b /\ v = c.value /\ ours
      <4>1. acceptedIn[v] = <<>>
        BY <3>1, <3>4, <2>1, <2>3, <1>18
      <4>2. Len(acceptedIn'[v]) = 1
        <5>1. acceptedIn'[v] = Append(<<>>, b)
          BY <4>1, <3>4, <1>13
        <5>2. Len(Append(<<>>, b)) = 1
          OBVIOUS
        <5> QED BY <5>1, <5>2
      <4>3. \A e \in set : e.value # v
        <5>1. \A e \in set : e \in links /\ e # c
          BY <1>4, <1>5, <1>6 DEF PendingOf
        <5> QED BY <5>1, <3>4, <1>0, <1>4 DEF PendingMinted
      <4> QED BY <4>2, <4>3, <3>4, <2>3, <1>8, <1>11, <1>18
    <3> QED BY <3>2, <3>3, <3>4
  <2> QED BY <2>2, <2>3, <1>1 DEF PendingSpent
<1>20. \A e : Pending!Ours(e)' <=> Pending!Ours(e)
  BY <1>1 DEF Pending!Ours
<1>22. PendingThere'
  <2> SUFFICES ASSUME NEW x \in PendingBrowsers \ raced, NEW d \in links,
                      PendingAwaited(x, d, links)'
               PROVE  d \in jar[x]
    BY <1>1 DEF PendingThere
  <2>1. PendingAwaited(x, d, links)
    BY <1>1, <1>20 DEF PendingAwaited
  <2> QED BY <2>1, <1>0 DEF PendingThere
<1>23. PendingToCome'
  <2> SUFFICES ASSUME NEW u \in PendingTabs, PendingBrowserOf[u] \notin raced,
                      PendingAnswered(u)', ~request'[u].drops, NEW d \in PendingOut(u)',
                      PendingAwaited(PendingBrowserOf[u], d, PendingOut(u))'
               PROVE  d \in request'[u].set
    BY <1>1 DEF PendingToCome
  <2>1. CASE u # t
    <3>1. PendingAnswered(u) /\ request'[u] = request[u] /\ PendingOut(u)' = PendingOut(u)
      BY <2>1, <1>1, <1>9, <1>10 DEF PendingOut
    <3>2. PendingAwaited(PendingBrowserOf[u], d, PendingOut(u))
      BY <3>1, <1>1, <1>20 DEF PendingAwaited
    <3> QED BY <3>1, <3>2, <1>0 DEF PendingToCome
  <2>2. CASE u = t
    <3>1. PendingOut(t)' = links
      BY <1>1, <1>8 DEF PendingOut
    <3>2. /\ PendingAwaited(b, d, links) /\ Pending!Ours(d) /\ d.value # c.value
          /\ Cardinality({e \in links : e.value > d.value /\ begunIn[e.value] = b}) < MaxPending
      BY <2>2, <3>1, <1>1, <1>20 DEF PendingAwaited
    <3>3. d \in Pending!Live(mine) \ {c}
      BY <2>2, <3>1, <3>2, <1>0, <1>4, <1>5, <1>18 DEF PendingThere
    <3> DEFINE T == {e \in links : e.value > d.value /\ begunIn[e.value] = b}
               S == Pending!Live(mine) \ {c}
    <3>4. T \in SUBSET links
      OBVIOUS
    <3>5. IsFiniteSet(T)
      <4>1. IsFiniteSet(links)
        BY <1>0 DEF PendingShapes
      <4> QED BY <4>1, <3>4, FS_Subset
    <3>6. Cardinality(T) < MaxPending
      BY <3>2
    <3>7. \A f \in S : f.value > d.value => f \in T
      BY <1>4, <1>5 DEF PendingOf
    <3>8. d \in Pending!Render(S)
      <4> HIDE DEF T, S
      <4>1. d \in S
        BY <3>3 DEF S
      <4> QED BY <4>1, <3>5, <3>6, <3>7, PendingRoom
    <3>9. set = Pending!Render(S)
      BY <2>2, <1>3, <1>8 DEF Pending!Without
    <3> QED BY <3>8, <3>9, <2>2, <1>8
  <2> QED BY <2>1, <2>2
<1> QED BY <1>14, <1>15, <1>16, <1>17, <1>19, <1>22, <1>23 DEF PendingIInv

LEMMA PendingDeliver ==
  ASSUME Pending!PendingValuesAssumption, PendingIInv, NEW t \in PendingTabs, Pending!Deliver(t)
  PROVE  PendingIInv'
<1> DEFINE b == PendingBrowserOf[t]
           r == request[t]
<1>0. /\ PendingShapes /\ PendingMinted /\ PendingOwn /\ PendingAlone /\ PendingSpent
      /\ PendingThere /\ PendingToCome
  BY DEF PendingIInv
<1>1. /\ PendingAnswered(t)
      /\ jar' = [jar EXCEPT ![b] = r.set]
      /\ links' = IF r.entry = None THEN links ELSE links \union {r.entry}
      /\ cleared' = IF r.drops THEN [cleared EXCEPT ![b] = Len(begunIn)] ELSE cleared
      /\ request' = [request EXCEPT ![t] = None]
      /\ UNCHANGED <<purpose, webNow, webRing, begunIn, acceptedIn, returned, raced>>
  BY DEF Pending!Deliver, PendingAnswered
<1>2. /\ b \in PendingBrowsers /\ r.set \subseteq Pending!Entries /\ r.drops \in BOOLEAN
      /\ r.set \subseteq PendingOf(b, PendingOut(t))
      /\ r.entry # None => begunIn[r.entry.value] = b
  BY <1>0, <1>1, PendingFacts, PendingRequestIs DEF PendingOwn, PendingOut
<1>3. links' = PendingOut(t)
  BY <1>1 DEF PendingOut
<1>4. /\ IsFiniteSet(links') /\ links' \subseteq Pending!Entries /\ links \subseteq links'
      /\ links' \subseteq links \union PendingGiven
  BY <1>0, <1>1, <1>3, PendingOutIs
<1>5. \A e \in links' : e \notin links => begunIn[e.value] = b
  BY <1>1, <1>2
<1>6. /\ request'[t] = None
      /\ \A u \in PendingTabs : u # t => request'[u] = request[u]
  BY <1>0, <1>1 DEF PendingShapes
<1>7. \A u \in PendingTabs : request'[u] # None => u # t /\ request[u] # None /\ request'[u] = request[u]
  BY <1>6
<1>8. \A u \in PendingTabs : PendingAnswered(u)' => u # t /\ PendingAnswered(u) /\ request'[u] = request[u]
  BY <1>6 DEF PendingAnswered
<1>9. \A u \in PendingTabs : u # t => (PendingAnswered(u)' <=> PendingAnswered(u))
  BY <1>6 DEF PendingAnswered
<1>10. \A u \in PendingTabs : PendingAsked(u)' => PendingAsked(u) /\ request'[u] = request[u]
  BY <1>6 DEF PendingAsked
<1>11. /\ jar'[b] = r.set /\ \A x \in PendingBrowsers : x # b => jar'[x] = jar[x]
       /\ r.drops => cleared'[b] = Len(begunIn)
       /\ ~r.drops => cleared' = cleared
       /\ \A x \in PendingBrowsers : x # b => cleared'[x] = cleared[x]
       /\ Len(begunIn) \in Nat
  BY <1>0, <1>1, <1>2 DEF PendingShapes
<1> HIDE DEF r
<1>12. PendingShapes'
  <2>1. request' \in [PendingTabs -> Pending!Sendings \union Pending!Answers \union {None}]
    BY <1>0, <1>1 DEF PendingShapes
  <2>2. jar' \in [PendingBrowsers -> SUBSET Pending!Entries] /\ cleared' \in [PendingBrowsers -> Nat]
    BY <1>0, <1>1, <1>2, <1>11 DEF PendingShapes
  <2>3. links' \in SUBSET Pending!Entries /\ IsFiniteSet(links')
    BY <1>4
  <2> QED BY <2>1, <2>2, <2>3, <1>0, <1>1 DEF PendingShapes
<1>13. links' \union PendingGiven' \subseteq links \union PendingGiven
  <2>1. PendingGiven' \subseteq PendingGiven
    BY <1>8 DEF PendingGiven
  <2> QED BY <2>1, <1>4
<1>14. PendingMinted'
  BY <1>0, <1>1, <1>13 DEF PendingMinted
<1>15. \A x : PendingOf(x, links) \subseteq PendingOf(x, links)'
  BY <1>1, <1>4 DEF PendingOf
<1>16. PendingOwn'
  <2>1. \A x \in PendingBrowsers : jar'[x] \subseteq PendingOf(x, links)'
    <3>1. jar'[b] \subseteq PendingOf(b, links)'
      BY <1>1, <1>2, <1>3, <1>11 DEF PendingOf
    <3>2. \A x \in PendingBrowsers : x # b => jar'[x] \subseteq PendingOf(x, links)'
      BY <1>0, <1>11, <1>15 DEF PendingOwn
    <3> QED BY <3>1, <3>2
  <2>2. \A u \in PendingTabs : PendingAsked(u)' =>
          /\ request'[u].seen \subseteq PendingOf(PendingBrowserOf[u], links)'
          /\ request'[u].entry # None => request'[u].entry \in links'
    BY <1>0, <1>4, <1>10, <1>15 DEF PendingOwn
  <2>3. \A u \in PendingTabs : PendingAnswered(u)' =>
          /\ request'[u].set \subseteq
               PendingOf(PendingBrowserOf[u], links \union ({request[u].entry} \ {None}))'
          /\ request'[u].entry # None => begunIn'[request'[u].entry.value] = PendingBrowserOf[u]
    <3> SUFFICES ASSUME NEW u \in PendingTabs, PendingAnswered(u)'
                 PROVE  /\ request'[u].set \subseteq
                             PendingOf(PendingBrowserOf[u], links \union ({request[u].entry} \ {None}))'
                        /\ request'[u].entry # None
                             => begunIn'[request'[u].entry.value] = PendingBrowserOf[u]
      OBVIOUS
    <3>1. PendingAnswered(u) /\ request'[u] = request[u]
      BY <1>8
    <3>2. /\ request[u].set \subseteq
               PendingOf(PendingBrowserOf[u], links \union ({request[u].entry} \ {None}))
          /\ request[u].entry # None => begunIn[request[u].entry.value] = PendingBrowserOf[u]
      BY <3>1, <1>0 DEF PendingOwn
    <3> QED BY <3>1, <3>2, <1>1, <1>4 DEF PendingOf
  <2> QED BY <2>1, <2>2, <2>3 DEF PendingOwn
<1>17. \A u \in PendingTabs : PendingBrowserOf[u] \notin raced /\ u # t /\ request[u] # None
         => PendingBrowserOf[u] # b
  BY <1>0, <1>1 DEF PendingAlone, PendingAnswered
<1>18. PendingAlone'
  <2> SUFFICES ASSUME NEW u \in PendingTabs, PendingBrowserOf[u] \notin raced, request'[u] # None
               PROVE  /\ \A x \in PendingTabs :
                           PendingBrowserOf[x] = PendingBrowserOf[u] /\ request'[x] # None => x = u
                      /\ PendingAsked(u)' => request'[u].seen = jar'[PendingBrowserOf[u]]
    BY <1>1 DEF PendingAlone
  <2>1. PendingBrowserOf[u] # b /\ PendingBrowserOf[u] \in PendingBrowsers
    BY <1>7, <1>17, PendingFacts
  <2>2. /\ \A x \in PendingTabs :
             PendingBrowserOf[x] = PendingBrowserOf[u] /\ request[x] # None => x = u
        /\ PendingAsked(u) => request[u].seen = jar[PendingBrowserOf[u]]
    BY <1>0, <1>7 DEF PendingAlone
  <2> QED BY <2>1, <2>2, <1>7, <1>10, <1>11
<1>19. PendingSpent'
  <2>1. \A v \in 1..Len(begunIn) : \A i \in DOMAIN acceptedIn[v] : acceptedIn[v][i] = begunIn[v]
    BY <1>0 DEF PendingSpent
  <2>2. ASSUME NEW v \in 1..Len(begunIn), begunIn[v] \notin raced, acceptedIn[v] # <<>>
        PROVE  /\ Len(acceptedIn[v]) = 1
               /\ \A u \in PendingTabs : PendingBrowserOf[u] = begunIn[v] /\ PendingAnswered(u)' =>
                    \A e \in request'[u].set : e.value # v
               /\ (\A u \in PendingTabs : PendingBrowserOf[u] = begunIn[v] => ~PendingAnswered(u)') =>
                    \A e \in jar'[begunIn[v]] : e.value # v
    <3>1. /\ Len(acceptedIn[v]) = 1
          /\ \A u \in PendingTabs : PendingBrowserOf[u] = begunIn[v] /\ PendingAnswered(u) =>
               \A e \in request[u].set : e.value # v
          /\ (\A u \in PendingTabs : PendingBrowserOf[u] = begunIn[v] => ~PendingAnswered(u)) =>
               \A e \in jar[begunIn[v]] : e.value # v
      BY <2>2, <1>0 DEF PendingSpent
    <3>2. CASE begunIn[v] = b
      <4>1. \A e \in jar'[b] : e.value # v
        BY <3>1, <3>2, <1>1, <1>11 DEF r
      <4> QED BY <4>1, <3>1, <3>2, <1>8
    <3>3. CASE begunIn[v] # b
      <4>1. begunIn[v] \in PendingBrowsers
        BY <1>0 DEF PendingShapes
      <4>2. jar'[begunIn[v]] = jar[begunIn[v]]
        BY <4>1, <3>3, <1>11
      <4>3. \A u \in PendingTabs : PendingBrowserOf[u] = begunIn[v] => u # t
        BY <3>3
      <4> QED BY <4>2, <4>3, <3>1, <1>8, <1>9
    <3> QED BY <3>2, <3>3
  <2> QED BY <2>1, <2>2, <1>1 DEF PendingSpent
<1>20. \A e : Pending!Ours(e)' <=> Pending!Ours(e)
  BY <1>1 DEF Pending!Ours
<1>21. \A e \in links \union PendingGiven : e.value \in 1..Len(begunIn)
  BY <1>0 DEF PendingMinted
<1>22. \A x \in PendingBrowsers : cleared[x] \in Nat
  BY <1>0 DEF PendingShapes
<1>23. PendingThere'
  <2> SUFFICES ASSUME NEW x \in PendingBrowsers \ raced, NEW d \in links',
                      PendingAwaited(x, d, links)'
               PROVE  d \in jar'[x]
    BY <1>1 DEF PendingThere
  <2>1. d.value \in 1..Len(begunIn) /\ begunIn[d.value] = x
    BY <1>1, <1>4, <1>21 DEF PendingAwaited
  <2>2. CASE x = b
    <3>1. ~r.drops
      BY <2>1, <2>2, <1>11 DEF PendingAwaited
    <3>2. PendingAwaited(b, d, PendingOut(t))
      BY <2>2, <3>1, <1>1, <1>3, <1>11, <1>20 DEF PendingAwaited
    <3> QED BY <2>2, <3>1, <3>2, <1>0, <1>1, <1>3, <1>11 DEF PendingToCome, r
  <2>3. CASE x # b
    <3>1. d \in links
      BY <2>1, <2>3, <1>5
    <3>2. cleared'[x] = cleared[x] /\ cleared[x] \in Nat /\ jar'[x] = jar[x]
      BY <2>3, <1>11, <1>22
    <3>4. {e \in links' : e.value > d.value /\ begunIn[e.value] = x}
            = {e \in links : e.value > d.value /\ begunIn[e.value] = x}
      BY <2>3, <1>4, <1>5
    <3>5. PendingAwaited(x, d, links)
      BY <3>2, <3>4, <1>1, <1>20 DEF PendingAwaited
    <3> QED BY <3>1, <3>2, <3>5, <1>0 DEF PendingThere
  <2> QED BY <2>2, <2>3
<1>24. PendingToCome'
  <2> SUFFICES ASSUME NEW u \in PendingTabs, PendingBrowserOf[u] \notin raced,
                      PendingAnswered(u)', ~request'[u].drops, NEW d \in PendingOut(u)',
                      PendingAwaited(PendingBrowserOf[u], d, PendingOut(u))'
               PROVE  d \in request'[u].set
    BY <1>1 DEF PendingToCome
  <2> DEFINE x == PendingBrowserOf[u]
  <2>1. PendingAnswered(u) /\ request'[u] = request[u] /\ x # b /\ x \in PendingBrowsers
    BY <1>8, <1>17, PendingFacts DEF PendingAnswered
  <2>2. PendingOut(u) \subseteq PendingOut(u)' /\ PendingOut(u)' \subseteq PendingOut(u) \union links'
    BY <2>1, <1>4 DEF PendingOut
  <2>3. links \subseteq PendingOut(u)
    BY DEF PendingOut
  <2>4. \A e \in PendingOut(u)' : begunIn[e.value] = x => e \in PendingOut(u)
    BY <2>1, <2>2, <2>3, <1>5
  <2>5. {e \in PendingOut(u)' : e.value > d.value /\ begunIn[e.value] = x}
          = {e \in PendingOut(u) : e.value > d.value /\ begunIn[e.value] = x}
    BY <2>2, <2>4
  <2>6. begunIn[d.value] = x /\ d \in PendingOut(u)
    BY <2>4, <1>1 DEF PendingAwaited
  <2>7. cleared'[x] = cleared[x]
    BY <2>1, <1>11
  <2>8. PendingAwaited(x, d, PendingOut(u))
    BY <2>5, <2>7, <1>1, <1>20 DEF PendingAwaited
  <2> QED BY <2>1, <2>6, <2>8, <1>0 DEF PendingToCome
<1> QED BY <1>12, <1>14, <1>16, <1>18, <1>19, <1>23, <1>24 DEF PendingIInv

LEMMA PendingStepIInv ==
  ASSUME Pending!PendingValuesAssumption, PendingIInv, [Pending!Next]_(Pending!vars)
  PROVE  PendingIInv'
<1>1. ASSUME NEW t \in PendingTabs, Pending!Send(t) PROVE PendingIInv'
  BY <1>1, PendingSend
<1>2. ASSUME NEW t \in PendingTabs, Pending!ServeBegin(t) PROVE PendingIInv'
  BY <1>2, PendingServeBegin
<1>3. ASSUME NEW t \in PendingTabs, Pending!ServeNothing(t) PROVE PendingIInv'
  BY <1>3, PendingServeNothing
<1>4. ASSUME NEW t \in PendingTabs, Pending!ServeReturn(t) PROVE PendingIInv'
  BY <1>4, PendingServeReturn
<1>5. ASSUME NEW t \in PendingTabs, Pending!Deliver(t) PROVE PendingIInv'
  BY <1>5, PendingDeliver
<1>6. CASE Pending!Tick \/ Pending!Rotate
  BY <1>6, PendingClocks
<1>7. CASE UNCHANGED Pending!vars
  <2>1. UNCHANGED <<purpose, webNow, webRing, jar, request, links, begunIn, acceptedIn, returned,
                    cleared, raced>>
    BY <1>7 DEF Pending!vars, Pending!past
  <2>2. PendingShapes' /\ PendingAlone' /\ PendingSpent'
    BY <2>1 DEF PendingIInv, PendingShapes, PendingAlone, PendingSpent, PendingAsked, PendingAnswered
  <2>3. PendingMinted' /\ PendingOwn'
    BY <2>1 DEF PendingIInv, PendingMinted, PendingGiven, PendingOwn, PendingOf, PendingAsked,
                PendingAnswered
  <2>4. PendingThere' /\ PendingToCome'
    BY <2>1 DEF PendingIInv, PendingThere, PendingToCome, PendingAwaited, PendingOut,
                PendingAnswered, Pending!Ours
  <2> QED BY <2>2, <2>3, <2>4 DEF PendingIInv
<1> QED BY <1>1, <1>2, <1>3, <1>4, <1>5, <1>6, <1>7 DEF Pending!Next

LEMMA PendingInvGives ==
  ASSUME Pending!PendingValuesAssumption, PendingIInv
  PROVE  Pending!PendingValuesHold
<1>1. Pending!OneShot
  <2> SUFFICES ASSUME NEW v \in 1..Len(begunIn)
               PROVE  /\ Pending!Range(acceptedIn[v]) \subseteq {begunIn[v]}
                      /\ begunIn[v] \in raced \/ Len(acceptedIn[v]) <= 1
    BY DEF Pending!OneShot
  <2>1. Pending!Range(acceptedIn[v]) \subseteq {begunIn[v]}
    BY DEF PendingIInv, PendingSpent, Pending!Range
  <2>2. begunIn[v] \in raced \/ acceptedIn[v] = <<>> \/ Len(acceptedIn[v]) = 1
    BY DEF PendingIInv, PendingSpent
  <2>3. Len(<<>>) <= 1
    OBVIOUS
  <2>4. begunIn[v] \in raced \/ Len(acceptedIn[v]) <= 1
    <3>1. CASE acceptedIn[v] = <<>>
      BY <3>1, <2>3, Zenon
    <3>2. CASE Len(acceptedIn[v]) = 1
      BY <3>2
    <3> QED BY <3>1, <3>2, <2>2
  <2> QED BY <2>1, <2>4
<1>2. Pending!PendingKept
  <2> SUFFICES ASSUME NEW b \in PendingBrowsers \ raced, NEW c \in links, Pending!Pending(b, c)
               PROVE  c \in jar[b]
    BY DEF Pending!PendingKept
  <2>1. PendingAwaited(b, c, links)
    BY PendingSameCount DEF Pending!Pending, PendingAwaited
  <2> QED BY <2>1 DEF PendingIInv, PendingThere
<1> QED BY <1>1, <1>2 DEF Pending!PendingValuesHold

LEMMA PendingIsAPart == Spec => Pending!Spec
<1>1. Init => Pending!Init
  BY DEF Init
<1>2. [Next]_vars => [Pending!Next]_(Pending!vars)
  BY DEF Next, vars, pendingVars, Pending!vars, Pending!past
<1> QED BY <1>1, <1>2, PTL DEF Spec, Pending!Spec

\* For any browsers, tabs, sign-ins, checkouts and rotations: a value opens only in
\* the browser that began it and once, and until then a newer one does not push it
\* out while there is room, except where two requests of the browser overlap
\* (PendingValues in frontend/session.py).
THEOREM PendingValuesAlwaysHold == Spec => []PendingValuesHold
<1>0. Pending!PendingValuesAssumption
  BY PartsAssumption
<1>1. Pending!Init => PendingIInv
  BY <1>0, PendingInitIInv
<1>2. PendingIInv /\ [Pending!Next]_(Pending!vars) => PendingIInv'
  BY <1>0, PendingStepIInv
<1>3. PendingIInv => PendingValuesHold
  BY <1>0, PendingInvGives DEF PendingValuesHold
<1> QED BY <1>1, <1>2, <1>3, PendingIsAPart, PTL DEF Pending!Spec
-----------------------------------------------------------------------------
(* The shapes of these parts' variables.                                     *)
(* Each part's invariant has most of its TypeOK; what it lacks is inductive  *)
(* beside it.                                                                *)

LEMMA TrailTyped == TrailIInv => Trail!TypeOK
<1> SUFFICES ASSUME TrailIInv PROVE Trail!TypeOK
  OBVIOUS
<1>1. \A e \in events : e.change \in DOMAIN made /\ e.ts <= trailNow
  BY DEF TrailIInv, TrailRowsInv
<1>2. \A t \in Trail!Threads : writing[t].step \in {"idle", "record", "prune?", "prune"}
  BY DEF TrailIInv, TrailShapes, TrailDue
<1>3. \A t \in Trail!Threads : lastPrune[Trail!ProcessOf(t)] <= trailNow
  BY DEF TrailIInv, TrailTimesInv, Trail!ProcessOf, Trail!Processes
<1> QED BY <1>1, <1>2, <1>3 DEF Trail!TypeOK

LEMMA ContactTyped ==
  ASSUME Contact!ContactFormAssumption, ContactIInv
  PROVE  Contact!TypeOK
<1> SUFFICES ASSUME NEW s \in FormSources, buckets[s] # None
             PROVE  buckets[s].tokens \in 0..Contact!Full /\ buckets[s].at <= formNow
  BY DEF Contact!TypeOK
<1>1. buckets[s] \in [tokens : 0..Contact!Full, at : 0..formNow]
  BY DEF ContactIInv, ContactShapes
<1> QED BY <1>1 DEF ContactIInv, ContactShapes

-----------------------------------------------------------------------------
\* The listener is at one of its steps, and admits the accounts there are.
HandoffListening ==
  /\ step \in {"down", "unlink", "bind", "chmod", "listen", "serving", "dead"}
  /\ admits \subseteq Handoffs!Uids /\ deaths \in 0..MaxDeaths

LEMMA HandoffListeningKept ==
  ASSUME Handoffs!HandoffAssumption, HandoffListening, [Handoffs!Next]_(Handoffs!vars)
  PROVE  HandoffListening'
<1>1. CASE Handoffs!ListenerStep
  BY <1>1 DEF Handoffs!ListenerStep, Handoffs!Start, Handoffs!Unlink, Handoffs!Bind,
     Handoffs!Chmod, Handoffs!Listen, HandoffListening, Handoffs!Uids
<1>2. CASE Handoffs!Deafen
  BY <1>2 DEF Handoffs!Deafen, HandoffListening
<1>3. CASE Handoffs!Die
  BY <1>3 DEF Handoffs!Die, HandoffListening, Handoffs!HandoffAssumption
<1>4. ASSUME NEW k \in HandoffCalls,
             \/ \E o \in Ops, u \in Handoffs!Uids : Handoffs!Call(k, o, u)
             \/ Handoffs!GiveUp(k) \/ Handoffs!Accept(k) \/ Handoffs!ReadLine(k)
             \/ Handoffs!Act(k) \/ Handoffs!Return(k) \/ Handoffs!Refuse(k) \/ Handoffs!Fail(k)
      PROVE  HandoffListening'
  <2>1. UNCHANGED Handoffs!listener
    BY <1>4 DEF Handoffs!Call, Handoffs!GiveUp, Handoffs!Accept, Handoffs!ReadLine,
       Handoffs!Act, Handoffs!Return, Handoffs!Refuse, Handoffs!Fail
  <2> QED BY <2>1 DEF Handoffs!listener, HandoffListening
<1>5. CASE UNCHANGED Handoffs!vars
  BY <1>5 DEF Handoffs!vars, Handoffs!listener, HandoffListening
<1> QED BY <1>1, <1>2, <1>3, <1>4, <1>5 DEF Handoffs!Next

LEMMA HandoffTyped == HandoffIInv /\ HandoffListening => Handoffs!TypeOK
BY DEF HandoffIInv, HandoffShapes, HandoffListening, Handoffs!TypeOK

-----------------------------------------------------------------------------
\* A cookie is rendered with no more than there is room for: of the entries kept
\* the oldest has all the others before it.
LEMMA PendingFits ==
  ASSUME Pending!PendingValuesAssumption, NEW E, IsFiniteSet(E),
         \A e \in E : e.value \in Nat, \A e, f \in E : e.value = f.value => e = f
  PROVE  /\ IsFiniteSet(Pending!Render(E)) /\ Cardinality(Pending!Render(E)) <= MaxPending
         /\ \A S \in SUBSET Pending!Render(E) : IsFiniteSet(S) /\ Cardinality(S) <= MaxPending
<1> DEFINE R == Pending!Render(E)
           T == {e.value : e \in R}
<1>0. MaxPending \in Nat \ {0}
  BY PendingFacts
<1>1. R \in SUBSET E /\ IsFiniteSet(R)
  BY PendingRendered, FS_Subset
<1>2. Cardinality(R) <= MaxPending
  <2>1. CASE R = {}
    BY <1>0, <2>1, FS_EmptySet
  <2>2. CASE R # {}
    <3>1. T \subseteq Nat /\ T # {}
      BY <1>1, <2>2
    <3>2. PICK n \in T : \A m \in T : n <= m
      BY <3>1, Least
    <3>3. PICK e \in R : e.value = n
      BY <3>2
    <3> DEFINE N == {f \in E : f.value > e.value}
    <3>4. R \ {e} \subseteq N
      <4> SUFFICES ASSUME NEW f \in R, f # e PROVE f \in N
        OBVIOUS
      <4>1. f \in E /\ e \in E /\ f.value # e.value /\ f.value \in Nat /\ e.value \in Nat
        BY <1>1
      <4>2. n <= f.value
        BY <3>2
      <4> QED BY <4>1, <4>2, <3>3
    <3>5. N \in SUBSET E /\ IsFiniteSet(N)
      BY FS_Subset
    <3>6. Cardinality(N) < MaxPending
      BY <3>3, PendingSameCount DEF Pending!Render
    <3> HIDE DEF N, R
    <3>7. Cardinality(R \ {e}) < MaxPending
      BY <3>4, <3>5, <3>6, <1>0, PendingFewer
    <3>8. Cardinality(R \ {e}) = Cardinality(R) - 1
      BY <1>1, <3>3, FS_RemoveElement
    <3>9. Cardinality(R) \in Nat
      BY <1>1, FS_CardinalityType
    <3> QED BY <3>7, <3>8, <3>9, <1>0
  <2> QED BY <2>1, <2>2
<1>3. \A S \in SUBSET R : IsFiniteSet(S) /\ Cardinality(S) <= MaxPending
  <2> HIDE DEF R
  <2> SUFFICES ASSUME NEW S \in SUBSET R PROVE IsFiniteSet(S) /\ Cardinality(S) <= MaxPending
    OBVIOUS
  <2>1. IsFiniteSet(S) /\ Cardinality(S) <= Cardinality(R)
    BY <1>1, FS_Subset
  <2>2. Cardinality(S) \in Nat /\ Cardinality(R) \in Nat
    BY <1>1, <2>1, FS_CardinalityType
  <2> QED BY <2>1, <2>2, <1>0, <1>2
<1> QED BY <1>1, <1>2, <1>3

-----------------------------------------------------------------------------
\* What is out was signed here for this cookie, no later than now.
PendingTimes ==
  /\ webNow <= LastTimes.pending /\ Head(webRing) \in 1..PendingRotations + 1
  /\ \A e \in links \union PendingGiven :
       e.purpose = purpose /\ e.iat <= webNow /\ e.key >= 1

PendingAsking == {t \in PendingTabs : PendingAsked(t)}

\* A value is begun by a request, and returned with once it was begun.
PendingCounted ==
  /\ sent \in 0..MaxRequests /\ IsFiniteSet(PendingAsking)
  /\ Len(begunIn) + Cardinality(PendingAsking) <= sent
  /\ returned \subseteq 1..Len(begunIn)
  /\ \A b \in PendingBrowsers : cleared[b] <= Len(begunIn)

\* No cookie, and none on its way, has more entries than there is room for.
PendingSmall ==
  /\ \A b \in PendingBrowsers : Cardinality(jar[b]) <= MaxPending
  /\ \A t \in PendingTabs : PendingAnswered(t) => Cardinality(request[t].set) <= MaxPending

PendingBounds == /\ LastTimes.pending \in Nat /\ MaxRequests \in Nat /\ PendingRotations \in Nat

\* What a step does to the requests on their way.
LEMMA PendingMoves ==
  ASSUME Pending!PendingValuesAssumption, PendingIInv, NEW t \in PendingTabs, NEW r,
         request' = [request EXCEPT ![t] = r]
  PROVE  /\ request'[t] = r /\ \A u \in PendingTabs : u # t => request'[u] = request[u]
         /\ r = None \/ r.at # "answered" => PendingGiven' \subseteq PendingGiven
         /\ r # None => PendingGiven' \subseteq PendingGiven \union ({r.entry} \ {None})
         /\ r = None \/ r.at # "asked" => PendingAsking' = PendingAsking \ {t}
         /\ r # None /\ r.at = "asked" => PendingAsking' = PendingAsking \union {t}
<1>1. request'[t] = r /\ \A u \in PendingTabs : u # t => request'[u] = request[u]
  BY DEF PendingIInv, PendingShapes
<1>2. \A u \in PendingTabs : u # t => /\ PendingAnswered(u)' = PendingAnswered(u)
                                      /\ PendingAsked(u)' = PendingAsked(u)
  BY <1>1 DEF PendingAnswered, PendingAsked
<1>3. \A e \in PendingGiven' : \/ e \in PendingGiven
                               \/ PendingAnswered(t)' /\ e = r.entry /\ e # None
  <2> SUFFICES ASSUME NEW e \in PendingGiven'
               PROVE  e \in PendingGiven \/ (PendingAnswered(t)' /\ e = r.entry /\ e # None)
    OBVIOUS
  <2>1. PICK u \in PendingTabs : PendingAnswered(u)' /\ e = request'[u].entry /\ e # None
    BY DEF PendingGiven
  <2>2. CASE u = t
    BY <2>1, <2>2, <1>1
  <2>3. CASE u # t
    BY <2>1, <2>3, <1>1, <1>2 DEF PendingGiven
  <2> QED BY <2>2, <2>3
<1>4. PendingAnswered(t)' = (r # None /\ r.at = "answered")
  BY <1>1 DEF PendingAnswered
<1>5. PendingAsked(t)' = (r # None /\ r.at = "asked")
  BY <1>1 DEF PendingAsked
<1>6. r = None \/ r.at # "answered" => PendingGiven' \subseteq PendingGiven
  BY <1>3, <1>4
<1>7. r # None => PendingGiven' \subseteq PendingGiven \union ({r.entry} \ {None})
  BY <1>3
<1>8. r = None \/ r.at # "asked" => PendingAsking' = PendingAsking \ {t}
  BY <1>2, <1>5 DEF PendingAsking
<1>9. r # None /\ r.at = "asked" => PendingAsking' = PendingAsking \union {t}
  BY <1>2, <1>5 DEF PendingAsking
<1> QED BY <1>1, <1>6, <1>7, <1>8, <1>9

LEMMA PendingTimesKept ==
  ASSUME Pending!PendingValuesAssumption, PendingBounds, PendingIInv, PendingTimes,
         [Pending!Next]_(Pending!vars)
  PROVE  PendingTimes'
<1>0. /\ webNow \in Nat /\ webRing \in Seq(Nat) /\ webRing # <<>> /\ Head(webRing) \in Nat
      /\ LastTimes.pending \in Nat /\ PendingRotations \in Nat
  BY DEF PendingIInv, PendingShapes, PendingBounds
<1>1. ASSUME NEW t \in PendingTabs, Pending!Send(t) PROVE PendingTimes'
  <2>1. PICK c \in links \union {None} :
          request' = [request EXCEPT ![t] = [at |-> "asked", entry |-> c, seen |-> jar[PendingBrowserOf[t]]]]
    BY <1>1 DEF Pending!Send
  <2> DEFINE r == [at |-> "asked", entry |-> c, seen |-> jar[PendingBrowserOf[t]]]
  <2>2. r.at # "answered"
    OBVIOUS
  <2>3. request' = [request EXCEPT ![t] = r]
    BY <2>1
  <2> HIDE DEF r
  <2>4. PendingGiven' \subseteq PendingGiven
    BY <2>2, <2>3, PendingMoves
  <2>5. UNCHANGED <<purpose, webNow, webRing, links>>
    BY <1>1 DEF Pending!Send
  <2> QED BY <2>4, <2>5 DEF PendingTimes
<1>2. ASSUME NEW t \in PendingTabs, Pending!ServeBegin(t) PROVE PendingTimes'
  <2> DEFINE c == Pending!Sign(purpose, Len(begunIn) + 1, webNow, webRing)
             w == Pending!WithEntry(c, request[t].seen)
             r == [at |-> "answered", entry |-> c, set |-> w, drops |-> FALSE]
  <2>1. request' = [request EXCEPT ![t] = r] /\ UNCHANGED <<purpose, webNow, webRing, links>>
    BY <1>2 DEF Pending!ServeBegin, Pending!Answer
  <2>2. c.purpose = purpose /\ c.iat = webNow /\ c.key = Head(webRing)
    BY DEF Pending!Sign
  <2>3. r.entry = c /\ r \in [at : {"answered"}, entry : {c}, set : {w}, drops : {FALSE}]
    OBVIOUS
  <2>4. c \in Pending!Entries
    <3>1. Len(begunIn) + 1 \in Nat /\ purpose \in {Pending!CONSENT, Pending!CHECKOUT}
      BY DEF PendingIInv, PendingShapes
    <3> QED BY <3>1, <1>0 DEF Pending!Sign, Pending!Entries
  <2>5. r # None
    <3>1. r \in Pending!Answers \/ ~(w \subseteq Pending!Entries)
      BY <2>4 DEF Pending!Answers
    <3>2. w \subseteq Pending!Entries
      <4>1. request[t].seen \subseteq Pending!Entries
        BY <1>2, PendingRequestIs DEF Pending!ServeBegin, Pending!Asked, PendingAsked, PendingIInv
      <4>2. w \subseteq {c} \union request[t].seen
        BY PendingRendered DEF Pending!WithEntry, Pending!Live
      <4> QED BY <4>1, <4>2, <2>4
    <3> QED BY <3>1, <3>2, PendingFacts
  <2> HIDE DEF c, r, w
  <2>6. PendingGiven' \subseteq PendingGiven \union {c}
    BY <2>1, <2>3, <2>5, PendingMoves
  <2> QED BY <2>1, <2>2, <2>6, <1>0 DEF PendingTimes
<1>3. ASSUME NEW t \in PendingTabs, Pending!ServeNothing(t) PROVE PendingTimes'
  <2>1. request' = [request EXCEPT ![t] = None] /\ UNCHANGED <<purpose, webNow, webRing, links>>
    BY <1>3 DEF Pending!ServeNothing
  <2>2. PendingGiven' \subseteq PendingGiven
    BY <2>1, PendingMoves
  <2> QED BY <2>1, <2>2 DEF PendingTimes
<1>4. ASSUME NEW t \in PendingTabs, Pending!ServeReturn(t) PROVE PendingTimes'
  <2>1. UNCHANGED <<purpose, webNow, webRing, links>>
    BY <1>4 DEF Pending!ServeReturn
  <2>2. \E s : \E d :
          request' = [request EXCEPT ![t] = [at |-> "answered", entry |-> None, set |-> s, drops |-> d]]
    BY <1>4 DEF Pending!ServeReturn, Pending!Answer
  <2>3. PICK s : \E d :
          request' = [request EXCEPT ![t] = [at |-> "answered", entry |-> None, set |-> s, drops |-> d]]
    BY <2>2
  <2>4. PICK d :
          request' = [request EXCEPT ![t] = [at |-> "answered", entry |-> None, set |-> s, drops |-> d]]
    BY <2>3
  <2> DEFINE r == [at |-> "answered", entry |-> None, set |-> s, drops |-> d]
  <2>5. r.entry = None /\ request' = [request EXCEPT ![t] = r]
    BY <2>4
  <2> HIDE DEF r
  <2>6. PendingGiven' \subseteq PendingGiven
    <3>1. CASE r = None
      BY <3>1, <2>5, PendingMoves
    <3>2. CASE r # None
      BY <3>2, <2>5, PendingMoves
    <3> QED BY <3>1, <3>2
  <2> QED BY <2>1, <2>6 DEF PendingTimes
<1>5. ASSUME NEW t \in PendingTabs, Pending!Deliver(t) PROVE PendingTimes'
  <2>1. /\ request' = [request EXCEPT ![t] = None] /\ UNCHANGED <<purpose, webNow, webRing>>
        /\ links' = IF request[t].entry = None THEN links ELSE links \union {request[t].entry}
        /\ PendingAnswered(t)
    BY <1>5 DEF Pending!Deliver, PendingAnswered
  <2>2. PendingGiven' \subseteq PendingGiven
    BY <2>1, PendingMoves
  <2>3. request[t].entry # None => request[t].entry \in PendingGiven
    BY <2>1 DEF PendingGiven
  <2>4. links' \subseteq links \union PendingGiven
    BY <2>1, <2>3
  <2> QED BY <2>1, <2>2, <2>4 DEF PendingTimes
<1>6. CASE Pending!Tick
  <2>1. webNow' = webNow + 1 /\ webNow < LastTimes.pending /\ UNCHANGED <<purpose, webRing, request, links>>
    BY <1>6 DEF Pending!Tick
  <2>2. PendingGiven' = PendingGiven
    BY <2>1 DEF PendingGiven, PendingAnswered
  <2>3. \A e \in links \union PendingGiven : e.iat \in Nat
    <3>1. \A e \in links : e.iat \in Nat
      BY DEF PendingIInv, PendingShapes, Pending!Entries
    <3>2. \A e \in PendingGiven : e.iat \in Nat
      <4> SUFFICES ASSUME NEW e \in PendingGiven PROVE e.iat \in Nat
        OBVIOUS
      <4>1. PICK u \in PendingTabs : PendingAnswered(u) /\ e = request[u].entry /\ e # None
        BY DEF PendingGiven
      <4>2. e \in Pending!Entries
        BY <4>1, PendingRequestIs DEF PendingIInv
      <4> QED BY <4>2 DEF Pending!Entries
    <3> QED BY <3>1, <3>2
  <2> QED BY <2>1, <2>2, <2>3, <1>0 DEF PendingTimes
<1>7. CASE Pending!Rotate
  <2>1. /\ webRing' = <<Head(webRing) + 1, Head(webRing)>> /\ Head(webRing) <= PendingRotations
        /\ UNCHANGED <<purpose, webNow, request, links>>
    BY <1>7 DEF Pending!Rotate, Pending!Rotated
  <2>2. PendingGiven' = PendingGiven
    BY <2>1 DEF PendingGiven, PendingAnswered
  <2>3. Head(webRing') = Head(webRing) + 1
    BY <2>1
  <2> QED BY <2>1, <2>2, <2>3, <1>0 DEF PendingTimes
<1>8. CASE UNCHANGED Pending!vars
  <2>1. UNCHANGED <<purpose, webNow, webRing, request, links>>
    BY <1>8 DEF Pending!vars
  <2> QED BY <2>1 DEF PendingTimes, PendingGiven, PendingAnswered
<1> QED BY <1>1, <1>2, <1>3, <1>4, <1>5, <1>6, <1>7, <1>8 DEF Pending!Next

LEMMA PendingCountedKept ==
  ASSUME Pending!PendingValuesAssumption, PendingBounds, PendingIInv, PendingCounted,
         [Pending!Next]_(Pending!vars)
  PROVE  PendingCounted'
<1>0. /\ sent \in Nat /\ Len(begunIn) \in Nat /\ MaxRequests \in Nat /\ IsFiniteSet(PendingAsking)
      /\ Cardinality(PendingAsking) \in Nat
      /\ cleared \in [PendingBrowsers -> Nat] /\ begunIn \in Seq(PendingBrowsers)
  BY FS_CardinalityType DEF PendingIInv, PendingShapes, PendingCounted, PendingBounds
<1>1. ASSUME NEW t \in PendingTabs, Pending!Send(t) PROVE PendingCounted'
  <2>1. PICK c \in links \union {None} :
          request' = [request EXCEPT ![t] = [at |-> "asked", entry |-> c, seen |-> jar[PendingBrowserOf[t]]]]
    BY <1>1 DEF Pending!Send
  <2> DEFINE r == [at |-> "asked", entry |-> c, seen |-> jar[PendingBrowserOf[t]]]
  <2>2. r.at = "asked" /\ request' = [request EXCEPT ![t] = r]
    BY <2>1
  <2>3. r # None
    <3>1. jar[PendingBrowserOf[t]] \subseteq Pending!Entries /\ c \in Pending!Entries \union {None}
      BY PendingFacts DEF PendingIInv, PendingShapes
    <3>2. r \in Pending!Sendings
      BY <3>1 DEF Pending!Sendings
    <3> QED BY <3>2, PendingFacts
  <2> HIDE DEF r
  <2>4. PendingAsking' = PendingAsking \union {t}
    BY <2>2, <2>3, PendingMoves
  <2>5. t \notin PendingAsking
    BY <1>1 DEF Pending!Send, PendingAsking, PendingAsked
  <2>6. IsFiniteSet(PendingAsking') /\ Cardinality(PendingAsking') = Cardinality(PendingAsking) + 1
    BY <1>0, <2>4, <2>5, FS_AddElement
  <2>7. sent' = sent + 1 /\ sent < MaxRequests /\ UNCHANGED <<begunIn, returned, cleared>>
    BY <1>1 DEF Pending!Send
  <2> QED BY <1>0, <2>6, <2>7 DEF PendingCounted
<1>2. ASSUME NEW t \in PendingTabs, Pending!ServeBegin(t) PROVE PendingCounted'
  <2> DEFINE c == Pending!Sign(purpose, Len(begunIn) + 1, webNow, webRing)
             w == Pending!WithEntry(c, request[t].seen)
             r == [at |-> "answered", entry |-> c, set |-> w, drops |-> FALSE]
  <2>1. request' = [request EXCEPT ![t] = r] /\ UNCHANGED <<sent, returned, cleared>>
        /\ begunIn' = Append(begunIn, PendingBrowserOf[t])
    BY <1>2 DEF Pending!ServeBegin, Pending!Answer
  <2>2. r.at # "asked"
    OBVIOUS
  <2> HIDE DEF r
  <2>3. PendingAsking' = PendingAsking \ {t}
    BY <2>1, <2>2, PendingMoves
  <2>4. t \in PendingAsking
    BY <1>2 DEF Pending!ServeBegin, Pending!Asked, PendingAsked, PendingAsking
  <2>5. IsFiniteSet(PendingAsking') /\ Cardinality(PendingAsking') = Cardinality(PendingAsking) - 1
    BY <1>0, <2>3, <2>4, FS_RemoveElement
  <2>6. Len(begunIn') = Len(begunIn) + 1
    BY <1>0, <2>1, PendingFacts
  <2> QED BY <1>0, <2>1, <2>5, <2>6 DEF PendingCounted
<1>3. ASSUME NEW t \in PendingTabs, Pending!ServeNothing(t) PROVE PendingCounted'
  <2>1. request' = [request EXCEPT ![t] = None] /\ UNCHANGED <<sent, begunIn, returned, cleared>>
    BY <1>3 DEF Pending!ServeNothing, Pending!past
  <2>2. PendingAsking' = PendingAsking \ {t} /\ t \in PendingAsking
    BY <1>3, <2>1, PendingMoves DEF Pending!ServeNothing, Pending!Asked, PendingAsked, PendingAsking
  <2>3. IsFiniteSet(PendingAsking') /\ Cardinality(PendingAsking') = Cardinality(PendingAsking) - 1
    BY <1>0, <2>2, FS_RemoveElement
  <2> QED BY <1>0, <2>1, <2>3 DEF PendingCounted
<1>4. ASSUME NEW t \in PendingTabs, Pending!ServeReturn(t) PROVE PendingCounted'
  <2>1. /\ UNCHANGED <<sent, begunIn, cleared>> /\ returned' = returned \union {request[t].entry.value}
        /\ request[t].entry # None
    BY <1>4 DEF Pending!ServeReturn
  <2>2. \E s : \E d :
          request' = [request EXCEPT ![t] = [at |-> "answered", entry |-> None, set |-> s, drops |-> d]]
    BY <1>4 DEF Pending!ServeReturn, Pending!Answer
  <2>3. PICK s : \E d :
          request' = [request EXCEPT ![t] = [at |-> "answered", entry |-> None, set |-> s, drops |-> d]]
    BY <2>2
  <2>4. PICK d :
          request' = [request EXCEPT ![t] = [at |-> "answered", entry |-> None, set |-> s, drops |-> d]]
    BY <2>3
  <2> DEFINE r == [at |-> "answered", entry |-> None, set |-> s, drops |-> d]
  <2>5. r.at # "asked" /\ request' = [request EXCEPT ![t] = r]
    BY <2>4
  <2> HIDE DEF r
  <2>6. PendingAsking' = PendingAsking \ {t}
    BY <2>5, PendingMoves
  <2>7. t \in PendingAsking /\ PendingAsked(t)
    BY <1>4 DEF Pending!ServeReturn, Pending!Asked, PendingAsked, PendingAsking
  <2>8. IsFiniteSet(PendingAsking') /\ Cardinality(PendingAsking') = Cardinality(PendingAsking) - 1
    BY <1>0, <2>6, <2>7, FS_RemoveElement
  <2>9. request[t].entry.value \in 1..Len(begunIn)
    BY <2>1, <2>7 DEF PendingIInv, PendingOwn, PendingMinted
  <2>10. returned' \subseteq 1..Len(begunIn')
    BY <2>1, <2>9 DEF PendingCounted
  <2>11. Len(begunIn') + Cardinality(PendingAsking') <= sent'
    BY <1>0, <2>1, <2>8 DEF PendingCounted
  <2>12. sent' \in 0..MaxRequests /\ \A b \in PendingBrowsers : cleared'[b] <= Len(begunIn')
    BY <2>1 DEF PendingCounted
  <2> QED BY <2>8, <2>10, <2>11, <2>12 DEF PendingCounted
<1>5. ASSUME NEW t \in PendingTabs, Pending!Deliver(t) PROVE PendingCounted'
  <2>1. /\ request' = [request EXCEPT ![t] = None] /\ UNCHANGED <<sent, begunIn, returned>>
        /\ cleared' = IF request[t].drops THEN [cleared EXCEPT ![PendingBrowserOf[t]] = Len(begunIn)] ELSE cleared
    BY <1>5 DEF Pending!Deliver
  <2>2. PendingAsking' = PendingAsking \ {t} /\ t \notin PendingAsking
    BY <1>5, <2>1, PendingMoves DEF Pending!Deliver, PendingAsked, PendingAsking
  <2>3. PendingAsking' = PendingAsking
    BY <2>2
  <2>4. \A b \in PendingBrowsers : cleared'[b] <= Len(begunIn)
    BY <1>0, <2>1 DEF PendingCounted
  <2> QED BY <1>0, <2>1, <2>3, <2>4 DEF PendingCounted
<1>6. CASE Pending!Tick \/ Pending!Rotate \/ UNCHANGED Pending!vars
  <2>1. UNCHANGED <<request, sent, begunIn, returned, cleared>>
    BY <1>6 DEF Pending!Tick, Pending!Rotate, Pending!vars, Pending!past
  <2> QED BY <2>1 DEF PendingCounted, PendingAsking, PendingAsked
<1> QED BY <1>1, <1>2, <1>3, <1>4, <1>5, <1>6 DEF Pending!Next

LEMMA PendingSmallKept ==
  ASSUME Pending!PendingValuesAssumption, PendingIInv, PendingSmall, [Pending!Next]_(Pending!vars)
  PROVE  PendingSmall'
<1>0. /\ jar \in [PendingBrowsers -> SUBSET Pending!Entries] /\ MaxPending \in Nat \ {0}
      /\ PendingBrowserOf \in [PendingTabs -> PendingBrowsers]
  BY PendingFacts DEF PendingIInv, PendingShapes
<1>1. ASSUME NEW t \in PendingTabs, NEW r, request' = [request EXCEPT ![t] = r], UNCHANGED jar,
             r = None \/ r.at # "answered" \/ Cardinality(r.set) <= MaxPending
      PROVE  PendingSmall'
  <2>1. request'[t] = r /\ \A u \in PendingTabs : u # t => request'[u] = request[u]
    BY <1>1, PendingMoves
  <2> QED BY <1>1, <2>1 DEF PendingSmall, PendingAnswered
<1>2. ASSUME NEW t \in PendingTabs, Pending!Send(t) PROVE PendingSmall'
  <2>1. PICK c \in links \union {None} :
          request' = [request EXCEPT ![t] = [at |-> "asked", entry |-> c, seen |-> jar[PendingBrowserOf[t]]]]
    BY <1>2 DEF Pending!Send
  <2> DEFINE r == [at |-> "asked", entry |-> c, seen |-> jar[PendingBrowserOf[t]]]
  <2>2. r.at # "answered" /\ request' = [request EXCEPT ![t] = r] /\ UNCHANGED jar
    BY <1>2, <2>1 DEF Pending!Send
  <2> HIDE DEF r
  <2> QED BY <1>1, <2>2
<1>3. ASSUME NEW t \in PendingTabs, Pending!Asked(t)
      PROVE  /\ IsFiniteSet(request[t].seen) /\ request[t].seen \subseteq links
             /\ \A e \in request[t].seen : e.value \in 1..Len(begunIn)
             /\ \A e, f \in request[t].seen : e.value = f.value => e = f
  <2>1. request[t].seen \subseteq links
    BY <1>3 DEF Pending!Asked, PendingAsked, PendingIInv, PendingOwn, PendingOf
  <2>2. IsFiniteSet(request[t].seen)
    BY <2>1, FS_Subset DEF PendingIInv, PendingShapes
  <2> QED BY <2>1, <2>2 DEF PendingIInv, PendingMinted
<1>4. ASSUME NEW t \in PendingTabs, Pending!ServeBegin(t) PROVE PendingSmall'
  <2> DEFINE c == Pending!Sign(purpose, Len(begunIn) + 1, webNow, webRing)
             E == {c} \union Pending!Live(request[t].seen)
             r == [at |-> "answered", entry |-> c, set |-> Pending!Render(E), drops |-> FALSE]
  <2>1. request' = [request EXCEPT ![t] = r] /\ UNCHANGED jar /\ Pending!Asked(t)
    BY <1>4 DEF Pending!ServeBegin, Pending!Answer, Pending!WithEntry
  <2>2. r.set = Pending!Render(E)
    OBVIOUS
  <2>3. c.value = Len(begunIn) + 1 /\ Len(begunIn) \in Nat
    BY DEF Pending!Sign, PendingIInv, PendingShapes
  <2> HIDE DEF c
  <2>4. Pending!Live(request[t].seen) \in SUBSET request[t].seen
    BY DEF Pending!Live
  <2>5. IsFiniteSet(E)
    BY <1>3, <2>1, <2>4, FS_Subset, FS_AddElement
  <2>6. \A e \in E : e.value \in Nat
    BY <1>3, <2>1, <2>3, <2>4
  <2>7. \A e, f \in E : e.value = f.value => e = f
    BY <1>3, <2>1, <2>3, <2>4
  <2> HIDE DEF E
  <2>8. Cardinality(Pending!Render(E)) <= MaxPending
    BY <2>5, <2>6, <2>7, PendingFits
  <2> HIDE DEF r
  <2> QED BY <1>1, <2>1, <2>2, <2>8
<1>5. ASSUME NEW t \in PendingTabs, Pending!ServeNothing(t) PROVE PendingSmall'
  <2>1. request' = [request EXCEPT ![t] = None] /\ UNCHANGED jar
    BY <1>5 DEF Pending!ServeNothing
  <2> QED BY <1>1, <2>1
<1>6. ASSUME NEW t \in PendingTabs, Pending!ServeReturn(t) PROVE PendingSmall'
  <2> DEFINE c == request[t].entry
             L == Pending!Live(request[t].seen) \ {c}
             w == Pending!Without(c, request[t].seen)
  <2>1. UNCHANGED jar /\ Pending!Asked(t)
    BY <1>6 DEF Pending!ServeReturn
  <2>2. \/ request' = [request EXCEPT ![t] = [at |-> "answered", entry |-> None, set |-> {}, drops |-> TRUE]]
        \/ request' = [request EXCEPT ![t] = [at |-> "answered", entry |-> None, set |-> w, drops |-> FALSE]]
    BY <1>6 DEF Pending!ServeReturn, Pending!Answer
  <2>3. L \in SUBSET request[t].seen
    BY DEF Pending!Live
  <2>4. /\ IsFiniteSet(L) /\ \A e \in L : e.value \in Nat
        /\ \A e, f \in L : e.value = f.value => e = f
    BY <1>3, <2>1, <2>3, FS_Subset
  <2>5. w = Pending!Render(L)
    BY DEF Pending!Without
  <2> HIDE DEF L, w
  <2>6. Cardinality(w) <= MaxPending
    BY <2>4, <2>5, PendingFits
  <2>7. CASE request' = [request EXCEPT ![t] = [at |-> "answered", entry |-> None, set |-> {}, drops |-> TRUE]]
    <3> DEFINE r == [at |-> "answered", entry |-> None, set |-> {}, drops |-> TRUE]
    <3>1. Cardinality(r.set) <= MaxPending /\ request' = [request EXCEPT ![t] = r]
      BY <2>7, <1>0, FS_EmptySet
    <3> HIDE DEF r
    <3> QED BY <1>1, <2>1, <3>1
  <2>8. CASE request' = [request EXCEPT ![t] = [at |-> "answered", entry |-> None, set |-> w, drops |-> FALSE]]
    <3> DEFINE r == [at |-> "answered", entry |-> None, set |-> w, drops |-> FALSE]
    <3>1. r.set = w /\ request' = [request EXCEPT ![t] = r]
      BY <2>8
    <3> HIDE DEF r
    <3> QED BY <1>1, <2>1, <2>6, <3>1
  <2> QED BY <2>2, <2>7, <2>8
<1>7. ASSUME NEW t \in PendingTabs, Pending!Deliver(t) PROVE PendingSmall'
  <2>1. /\ request' = [request EXCEPT ![t] = None] /\ PendingAnswered(t)
        /\ jar' = [jar EXCEPT ![PendingBrowserOf[t]] = request[t].set]
    BY <1>7 DEF Pending!Deliver, PendingAnswered
  <2>2. request'[t] = None /\ \A u \in PendingTabs : u # t => request'[u] = request[u]
    BY <2>1, PendingMoves
  <2>3. Cardinality(request[t].set) <= MaxPending
    BY <2>1 DEF PendingSmall
  <2>4. \A b \in PendingBrowsers : jar'[b] \in {jar[b], request[t].set}
    BY <1>0, <2>1
  <2>5. \A b \in PendingBrowsers : Cardinality(jar'[b]) <= MaxPending
    BY <2>3, <2>4 DEF PendingSmall
  <2> QED BY <2>2, <2>5 DEF PendingSmall, PendingAnswered
<1>8. CASE Pending!Tick \/ Pending!Rotate \/ UNCHANGED Pending!vars
  <2>1. UNCHANGED <<request, jar>>
    BY <1>8 DEF Pending!Tick, Pending!Rotate, Pending!vars
  <2> QED BY <2>1 DEF PendingSmall, PendingAnswered
<1> QED BY <1>2, <1>4, <1>5, <1>6, <1>7, <1>8 DEF Pending!Next

LEMMA PendingTyped ==
  ASSUME Pending!PendingValuesAssumption, PendingBounds, PendingIInv, PendingTimes, PendingCounted,
         PendingSmall
  PROVE  Pending!TypeOK
<1>1. /\ purpose \in {Pending!CONSENT, Pending!CHECKOUT} /\ webNow \in 0..LastTimes.pending
      /\ sent \in 0..MaxRequests /\ raced \subseteq PendingBrowsers
  BY DEF PendingIInv, PendingShapes, PendingTimes, PendingCounted, PendingBounds
<1>2. Len(begunIn) \in 0..MaxRequests
  <2>1. Cardinality(PendingAsking) \in Nat /\ Len(begunIn) \in Nat
    BY FS_CardinalityType DEF PendingCounted, PendingIInv, PendingShapes
  <2> QED BY <2>1 DEF PendingCounted, PendingBounds
<1>3. links \subseteq Pending!Entry
  <2> SUFFICES ASSUME NEW e \in links PROVE e \in Pending!Entry
    OBVIOUS
  <2>1. e \in Pending!Entries
    BY DEF PendingIInv, PendingShapes
  <2>2. e.purpose = purpose /\ e.iat <= webNow /\ e.key >= 1
    BY DEF PendingTimes
  <2>3. e.value \in 1..MaxRequests /\ e.key <= Head(webRing)
    BY <1>2 DEF PendingIInv, PendingMinted, PendingBounds
  <2>4. e.key \in 1..PendingRotations + 1
    BY <2>1, <2>2, <2>3 DEF PendingTimes, PendingBounds, Pending!Entries
  <2>5. e.iat \in 0..LastTimes.pending
    BY <1>1, <2>1, <2>2 DEF PendingBounds, Pending!Entries
  <2> QED BY <2>1, <2>2, <2>3, <2>4, <2>5 DEF Pending!Entries, Pending!Entry, Pending!Values
<1>4. \A b \in PendingBrowsers : jar[b] \subseteq Pending!Entry /\ Pending!Cardinality(jar[b]) <= MaxPending
  <2>1. \A b \in PendingBrowsers : jar[b] \subseteq links
    BY DEF PendingIInv, PendingOwn, PendingOf
  <2> QED BY <1>3, <2>1, PendingSameCount DEF PendingSmall
<1>5. returned \subseteq Pending!Values
  BY <1>2 DEF PendingCounted, Pending!Values, PendingBounds
<1>6. cleared \in [PendingBrowsers -> 0..MaxRequests]
  BY <1>2 DEF PendingCounted, PendingIInv, PendingShapes, PendingBounds
<1> QED BY <1>1, <1>3, <1>4, <1>5, <1>6 DEF Pending!TypeOK

LEMMA PendingInitTyped ==
  ASSUME Pending!PendingValuesAssumption, PendingBounds, Pending!Init
  PROVE  PendingTimes /\ PendingCounted /\ PendingSmall
<1>1. /\ webNow = 0 /\ webRing = <<1>> /\ jar = [b \in PendingBrowsers |-> {}] /\ links = {} /\ sent = 0
      /\ begunIn = <<>> /\ returned = {} /\ cleared = [b \in PendingBrowsers |-> 0]
      /\ \A t \in PendingTabs : ~PendingAnswered(t) /\ ~PendingAsked(t)
  BY DEF Pending!Init, PendingAnswered, PendingAsked
<1>2. PendingGiven = {} /\ PendingAsking = {}
  BY <1>1 DEF PendingGiven, PendingAsking
<1>3. PendingTimes
  BY <1>1, <1>2 DEF PendingTimes, PendingBounds
<1>4. PendingCounted
  BY <1>1, <1>2, FS_EmptySet DEF PendingCounted, PendingBounds
<1>5. PendingSmall
  BY <1>1, FS_EmptySet, PendingFacts DEF PendingSmall
<1> QED BY <1>3, <1>4, <1>5

-----------------------------------------------------------------------------
\* A code under way was minted.
ChatMinted ==
  \A t \in Workers : Chat!At(t, "deliver") \/ Chat!At(t, "store") => task[t].code \in 1..codes

ChatTyped == Chat!TypeOK /\ ChatMinted

ChatBounds == LastTimes.chat \in Nat /\ MaxCodes \in Nat

LEMMA ChatRequestIs ==
  ASSUME ChatTyped, NEW t \in Workers, task[t] # None
  PROVE  /\ task[t] \in Chat!Request
         /\ task[t].at \in {"deliver", "store"} =>
              /\ task[t].code \in 1..codes /\ task[t].chat \in Chats \union {None}
              /\ task[t].shown \in BOOLEAN
              /\ task[t] \in [at : {"deliver", "store"}, code : 1..MaxCodes,
                              chat : Chats \union {None}, shown : BOOLEAN]
         /\ task[t].at \in {"recheck", "ask"} =>
              task[t].entry \in Chat!Entry /\ task[t] \in [at : {"recheck", "ask"}, entry : Chat!Entry]
         /\ task[t].at = "write" => task[t].target \in Chats \union {None}
<1>1. task[t] \in Chat!Request
  BY DEF ChatTyped, Chat!TypeOK
<1>2. task[t].at \in {"deliver", "store"} => task[t].code \in 1..codes
  BY DEF ChatTyped, ChatMinted, Chat!At
<1> QED BY <1>1, <1>2 DEF Chat!Request

\* The rest of the daemon is as it was, or no less than it was, and the thread goes
\* on with a request of its own or with none.
LEMMA ChatGoesTyped ==
  ASSUME Chat!ChatLinkAssumption, ChatTyped, NEW t \in Workers, NEW req,
         Chat!Goes(t, req), req \in Chat!Request \union {None},
         req # None /\ req.at \in {"deliver", "store"} => req.code \in 1..codes',
         codes' \in {codes, codes + 1},
         changed' \subseteq {u \in Workers : task[u] # None}, req = None => t \notin changed'
  PROVE  /\ task' \in [Workers -> Chat!Request \union {None}] /\ ChatMinted'
         /\ changed' \subseteq {u \in Workers : task'[u] # None}
<1>0. task \in [Workers -> Chat!Request \union {None}] /\ codes \in Nat
  BY DEF ChatTyped, Chat!TypeOK
<1>1. task' = [task EXCEPT ![t] = req]
  BY DEF Chat!Goes
<1>2. task'[t] = req /\ \A u \in Workers : u # t => task'[u] = task[u]
  BY <1>0, <1>1
<1>3. task' \in [Workers -> Chat!Request \union {None}]
  BY <1>0, <1>1
<1>4. ChatMinted'
  <2> SUFFICES ASSUME NEW u \in Workers, Chat!At(u, "deliver")' \/ Chat!At(u, "store")'
               PROVE  task'[u].code \in 1..codes'
    BY DEF ChatMinted
  <2>1. CASE u = t
    BY <1>2, <2>1 DEF Chat!At
  <2>2. CASE u # t
    <3>1. Chat!At(u, "deliver") \/ Chat!At(u, "store")
      BY <1>2, <2>2 DEF Chat!At
    <3>2. task[u].code \in 1..codes
      BY <3>1 DEF ChatTyped, ChatMinted
    <3> QED BY <1>0, <1>2, <2>2, <3>2
  <2> QED BY <2>1, <2>2
<1>5. changed' \subseteq {u \in Workers : task'[u] # None}
  <2> SUFFICES ASSUME NEW u \in changed' PROVE u \in Workers /\ task'[u] # None
    OBVIOUS
  <2>1. u \in Workers /\ task[u] # None
    OBVIOUS
  <2>2. req # None => req \in Chat!Request
    OBVIOUS
  <2> QED BY <1>2, <2>1, <2>2
<1> QED BY <1>3, <1>4, <1>5

LEMMA ChatEndsTyped ==
  ASSUME Chat!ChatLinkAssumption, ChatTyped, NEW t \in Workers, Chat!Ends(t), UNCHANGED codes
  PROVE  /\ task' \in [Workers -> Chat!Request \union {None}] /\ ChatMinted'
         /\ changed' \subseteq {u \in Workers : task'[u] # None}
<1>1. Chat!Goes(t, None) /\ changed' = changed \ {t}
  BY DEF Chat!Ends
<1>2. changed' \subseteq {u \in Workers : task[u] # None} /\ t \notin changed'
  BY <1>1 DEF ChatTyped, Chat!TypeOK
<1>3. None \in Chat!Request \union {None} /\ codes' \in {codes, codes + 1}
  OBVIOUS
<1> QED BY <1>1, <1>2, <1>3, ChatGoesTyped

\* Who has posted the code is a chat.
LEMMA ChatFoundIsAChat ==
  ASSUME ChatIInv, NEW e, Chat!PostedSince(e, e.chat) # None
  PROVE  Chat!PostedSince(e, e.chat) \in Chats
<1> DEFINE A == Chat!Answers(e, e.chat)
           newest == CHOOSE i \in A : \A j \in A : j <= i
<1>1. A # {} /\ Chat!PostedSince(e, e.chat) = posts[newest].chat
  BY DEF Chat!PostedSince
<1>2. posts \in Seq(ChatMessages) /\ Len(posts) \in Nat
  BY DEF ChatIInv, ChatShapes
<1>3. A \subseteq 0..Len(posts) /\ A \subseteq DOMAIN posts
  BY <1>2 DEF Chat!Answers
<1>4. \E i \in A : \A j \in A : j <= i
  BY <1>1, <1>2, <1>3, Greatest
<1>5. newest \in DOMAIN posts
  BY <1>3, <1>4
<1>6. posts[newest] \in ChatMessages
  BY <1>2, <1>5
<1> QED BY <1>1, <1>6 DEF ChatMessages

LEMMA ChatSetTyped ==
  ASSUME Chat!ChatLinkAssumption, ChatTyped, NEW t \in Workers, NEW target, Chat!SetChat(t, target)
  PROVE  /\ changed' \subseteq {u \in Workers : task[u] # None} /\ t \notin changed'
         /\ chat' = target
BY DEF ChatTyped, Chat!TypeOK, Chat!SetChat

LEMMA ChatStartsTyped ==
  ASSUME Chat!ChatLinkAssumption, ChatBounds, ChatTyped, NEW t \in Workers,
         Chat!Begin(t) \/ Chat!Deliver(t) \/ Chat!Store(t)
  PROVE  ChatTyped'
<1>0. /\ registered \in BOOLEAN /\ chat \in Chats \union {None} /\ codes \in 0..MaxCodes
      /\ chatNow \in 0..LastTimes.chat
      /\ pending \in Chat!Entry \union {None} /\ proven \in (0..LastTimes.chat) \union {None}
      /\ held \subseteq 1..codes /\ LastTimes.chat \in Nat /\ MaxCodes \in Nat
      /\ \A i \in DOMAIN posts : posts[i].code \in held
      /\ changed \subseteq {u \in Workers : task[u] # None}
  BY DEF ChatTyped, Chat!TypeOK, ChatBounds
<1>1. CASE Chat!Begin(t)
  <2> DEFINE req == [at |-> IF Chat!ActionFor(chat) = Chat!Unlink \/ Chat!ProvenRecently
                            THEN "store" ELSE "deliver",
                     code |-> codes + 1, chat |-> chat, shown |-> TRUE]
  <2>1. /\ Chat!Goes(t, req) /\ codes' = codes + 1 /\ codes < MaxCodes /\ task[t] = None
        /\ UNCHANGED <<registered, chat, pending, proven, chatNow, held, posts, changed>>
    BY <1>1 DEF Chat!Begin, Chat!outside
  <2>2. codes' \in 0..MaxCodes /\ codes + 1 \in 1..MaxCodes
    BY <1>0, <2>1
  <2>3. req.code \in 1..codes' /\ req \in Chat!Request
    BY <1>0, <2>1, <2>2 DEF Chat!Request
  <2>4. t \notin changed'
    BY <1>0, <2>1
  <2> HIDE DEF req
  <2>5. /\ task' \in [Workers -> Chat!Request \union {None}] /\ ChatMinted'
        /\ changed' \subseteq {u \in Workers : task'[u] # None}
    BY <1>0, <2>1, <2>3, <2>4, ChatGoesTyped
  <2>6. held' \subseteq 1..codes' /\ \A i \in DOMAIN posts' : posts'[i].code \in held'
    BY <1>0, <2>1
  <2> QED BY <1>0, <2>1, <2>2, <2>5, <2>6 DEF ChatTyped, Chat!TypeOK
<1>2. CASE Chat!Deliver(t)
  <2>1. /\ Chat!At(t, "deliver") /\ UNCHANGED <<registered, chat, pending, proven, codes, chatNow, posts>>
    BY <1>2 DEF Chat!Deliver, Chat!inDaemon
  <2>2. /\ task[t] # None /\ task[t].at = "deliver" /\ task[t].code \in 1..codes
        /\ task[t] \in [at : {"deliver", "store"}, code : 1..MaxCodes, chat : Chats \union {None},
                        shown : BOOLEAN]
    BY <2>1, ChatRequestIs DEF Chat!At
  <2>3. CASE Chat!Goes(t, [task[t] EXCEPT !.at = "store", !.shown = FALSE])
             /\ held' = held \union {task[t].code} /\ UNCHANGED changed
    <3> DEFINE req == [task[t] EXCEPT !.at = "store", !.shown = FALSE]
    <3>1. req \in Chat!Request /\ req.code \in 1..codes'
      BY <2>1, <2>2 DEF Chat!Request
    <3>2. Chat!Goes(t, req)
      BY <2>3
    <3> HIDE DEF req
    <3>3. req # None
      BY <3>1 DEF Chat!ChatLinkAssumption
    <3>4. /\ task' \in [Workers -> Chat!Request \union {None}] /\ ChatMinted'
          /\ changed' \subseteq {u \in Workers : task'[u] # None}
      BY <1>0, <2>1, <2>3, <3>1, <3>2, <3>3, ChatGoesTyped
    <3>5. held' \subseteq 1..codes' /\ \A i \in DOMAIN posts' : posts'[i].code \in held'
      BY <1>0, <2>1, <2>2, <2>3
    <3> QED BY <1>0, <2>1, <3>4, <3>5 DEF ChatTyped, Chat!TypeOK
  <2>4. CASE Chat!Ends(t) /\ UNCHANGED held
    <3>1. /\ task' \in [Workers -> Chat!Request \union {None}] /\ ChatMinted'
          /\ changed' \subseteq {u \in Workers : task'[u] # None}
      BY <2>1, <2>4, ChatEndsTyped
    <3> QED BY <1>0, <2>1, <2>4, <3>1 DEF ChatTyped, Chat!TypeOK
  <2> QED BY <1>2, <2>3, <2>4 DEF Chat!Deliver
<1>3. CASE Chat!Store(t)
  <2>1. /\ Chat!At(t, "store") /\ pending' = Chat!EntryFor(task[t]) /\ Chat!Ends(t)
        /\ held' \in {held, held \union {task[t].code}}
        /\ UNCHANGED <<registered, chat, proven, codes, chatNow, posts>>
    BY <1>3 DEF Chat!Store
  <2>2. task[t].code \in 1..codes /\ task[t].chat \in Chats \union {None}
    BY <2>1, ChatRequestIs DEF Chat!At
  <2>3. pending' \in Chat!Entry
    <3>1. chatNow + PendingTTL \in Nat /\ task[t].code \in 1..MaxCodes
      BY <1>0, <2>2 DEF Chat!ChatLinkAssumption
    <3> QED BY <1>0, <2>1, <2>2, <3>1 DEF Chat!EntryFor, Chat!Entry, Chat!ActionFor
  <2>4. /\ task' \in [Workers -> Chat!Request \union {None}] /\ ChatMinted'
        /\ changed' \subseteq {u \in Workers : task'[u] # None}
    BY <2>1, ChatEndsTyped
  <2>5. held' \subseteq 1..codes' /\ \A i \in DOMAIN posts' : posts'[i].code \in held'
    BY <1>0, <2>1, <2>2
  <2> QED BY <1>0, <2>1, <2>3, <2>4, <2>5 DEF ChatTyped, Chat!TypeOK
<1> QED BY <1>1, <1>2, <1>3

LEMMA ChatFinishesTyped ==
  ASSUME Chat!ChatLinkAssumption, ChatBounds, ChatIInv, ChatTyped, NEW t \in Workers,
         Chat!Claim(t) \/ Chat!Recheck(t) \/ Chat!Ask(t) \/ Chat!Write(t)
  PROVE  ChatTyped'
<1>0. /\ registered \in BOOLEAN /\ chat \in Chats \union {None} /\ codes \in 0..MaxCodes
      /\ chatNow \in 0..LastTimes.chat
      /\ pending \in Chat!Entry \union {None} /\ proven \in (0..LastTimes.chat) \union {None}
      /\ held \subseteq 1..codes
      /\ \A i \in DOMAIN posts : posts[i].code \in held
      /\ task \in [Workers -> Chat!Request \union {None}] /\ ChatMinted
      /\ changed \subseteq {u \in Workers : task[u] # None}
  BY DEF ChatTyped, Chat!TypeOK
<1>1. UNCHANGED <<registered, proven, codes, chatNow, held, posts>>
  BY DEF Chat!Claim, Chat!Recheck, Chat!Ask, Chat!Write, Chat!inDaemon, Chat!outside
<1>2. ASSUME chat' \in Chats \union {None}, pending' \in Chat!Entry \union {None},
             /\ task' \in [Workers -> Chat!Request \union {None}] /\ ChatMinted'
             /\ changed' \subseteq {u \in Workers : task'[u] # None}
      PROVE  ChatTyped'
  BY <1>0, <1>1, <1>2 DEF ChatTyped, Chat!TypeOK
<1>3. CASE Chat!Claim(t)
  <2>1. UNCHANGED <<chat, changed>> /\ task[t] = None /\ pending # None
    BY <1>3 DEF Chat!Claim
  <2>2. CASE Chat!Live(pending)
    <3> DEFINE req == [at |-> "recheck", entry |-> pending]
    <3>1. Chat!Goes(t, req) /\ UNCHANGED pending
      BY <1>3, <2>2 DEF Chat!Claim
    <3>2. req \in Chat!Request /\ req.at = "recheck" /\ t \notin changed'
      BY <1>0, <2>1 DEF Chat!Request
    <3> HIDE DEF req
    <3>3. /\ task' \in [Workers -> Chat!Request \union {None}] /\ ChatMinted'
          /\ changed' \subseteq {u \in Workers : task'[u] # None}
      BY <1>0, <1>1, <2>1, <3>1, <3>2, ChatGoesTyped
    <3> QED BY <1>0, <1>2, <2>1, <3>1, <3>3
  <2>3. CASE ~Chat!Live(pending)
    <3>1. pending' = None /\ UNCHANGED task
      BY <1>3, <2>3 DEF Chat!Claim
    <3>2. ChatMinted'
      BY <1>0, <1>1, <3>1 DEF ChatMinted, Chat!At
    <3> QED BY <1>0, <1>2, <2>1, <3>1, <3>2
  <2> QED BY <2>2, <2>3
<1>4. CASE Chat!Recheck(t)
  <2>1. UNCHANGED chat /\ pending' \in {pending, None} /\ Chat!At(t, "recheck")
    BY <1>4 DEF Chat!Recheck
  <2>2. CASE Chat!Ends(t)
    BY <1>0, <1>1, <1>2, <2>1, <2>2, ChatEndsTyped
  <2>3. CASE Chat!Goes(t, [task[t] EXCEPT !.at = "ask"]) /\ changed' = changed \ {t}
    <3> DEFINE req == [task[t] EXCEPT !.at = "ask"]
    <3>1. task[t] \in [at : {"recheck", "ask"}, entry : Chat!Entry]
      BY <2>1, ChatRequestIs DEF Chat!At
    <3>2. req \in Chat!Request /\ req.at = "ask" /\ Chat!Goes(t, req)
      BY <2>3, <3>1 DEF Chat!Request
    <3> HIDE DEF req
    <3>3. /\ task' \in [Workers -> Chat!Request \union {None}] /\ ChatMinted'
          /\ changed' \subseteq {u \in Workers : task'[u] # None}
      BY <1>0, <1>1, <2>3, <3>2, ChatGoesTyped
    <3> QED BY <1>0, <1>2, <2>1, <3>3
  <2> QED BY <1>4, <2>2, <2>3 DEF Chat!Recheck
<1>5. CASE Chat!Ask(t)
  <2> DEFINE e == task[t].entry
             heard == Chat!PostedSince(e, e.chat)
  <2>1. UNCHANGED chat /\ pending' \in {pending, None} /\ Chat!At(t, "ask")
    BY <1>5 DEF Chat!Ask
  <2>2. CASE heard = None
    <3>1. Chat!Ends(t)
      BY <1>5, <2>2 DEF Chat!Ask
    <3> QED BY <1>0, <1>1, <1>2, <2>1, <3>1, ChatEndsTyped
  <2>3. CASE heard # None
    <3> DEFINE req == [at |-> "write", target |-> IF e.action = Chat!Link THEN heard ELSE None, entry |-> e]
    <3>1. Chat!Goes(t, req) /\ UNCHANGED changed
      BY <1>5, <2>3 DEF Chat!Ask
    <3>2. e \in Chat!Entry /\ task[t] # None
      BY <2>1, ChatRequestIs DEF Chat!At
    <3>3. heard \in Chats
      BY <2>3, ChatFoundIsAChat
    <3> HIDE DEF heard, e
    <3>4. req \in Chat!Request /\ req.at = "write"
      BY <3>2, <3>3 DEF Chat!Request
    <3>5. req # None
      BY <3>4 DEF Chat!ChatLinkAssumption
    <3> HIDE DEF req
    <3>6. /\ task' \in [Workers -> Chat!Request \union {None}] /\ ChatMinted'
          /\ changed' \subseteq {u \in Workers : task'[u] # None}
      BY <1>0, <1>1, <3>1, <3>4, <3>5, ChatGoesTyped
    <3> QED BY <1>0, <1>2, <2>1, <3>6
  <2> QED BY <2>2, <2>3
<1>6. CASE Chat!Write(t)
  <2>1. UNCHANGED <<pending>> /\ Chat!At(t, "write")
    BY <1>6 DEF Chat!Write, Chat!inDaemon
  <2>2. CASE registered
    <3>1. Chat!SetChat(t, task[t].target) /\ Chat!Goes(t, None)
      BY <1>6, <2>2 DEF Chat!Write
    <3>2. chat' \in Chats \union {None}
      BY <2>1, <3>1, ChatSetTyped, ChatRequestIs DEF Chat!At
    <3>3. changed' \subseteq {u \in Workers : task[u] # None} /\ t \notin changed'
      BY <3>1, ChatSetTyped
    <3>4. /\ task' \in [Workers -> Chat!Request \union {None}] /\ ChatMinted'
          /\ changed' \subseteq {u \in Workers : task'[u] # None}
      BY <1>0, <1>1, <3>1, <3>3, ChatGoesTyped
    <3> QED BY <1>0, <1>2, <2>1, <3>2, <3>4
  <2>3. CASE ~registered
    <3>1. Chat!Ends(t) /\ UNCHANGED chat
      BY <1>6, <2>3 DEF Chat!Write
    <3> QED BY <1>0, <1>1, <1>2, <2>1, <3>1, ChatEndsTyped
  <2> QED BY <2>2, <2>3
<1> QED BY <1>3, <1>4, <1>5, <1>6

LEMMA ChatAccountTyped ==
  ASSUME Chat!ChatLinkAssumption, ChatBounds, ChatTyped, NEW t \in Workers,
         \/ Chat!SignIn(t) \/ Chat!Record(t) \/ Chat!DeleteAccount(t) \/ Chat!ForgetAccount(t)
         \/ Chat!ForceUnlink(t)
  PROVE  ChatTyped'
<1>0. /\ registered \in BOOLEAN /\ chat \in Chats \union {None} /\ codes \in 0..MaxCodes
      /\ chatNow \in 0..LastTimes.chat
      /\ pending \in Chat!Entry \union {None} /\ proven \in (0..LastTimes.chat) \union {None}
      /\ held \subseteq 1..codes
      /\ \A i \in DOMAIN posts : posts[i].code \in held
      /\ task \in [Workers -> Chat!Request \union {None}] /\ ChatMinted
      /\ changed \subseteq {u \in Workers : task[u] # None}
  BY DEF ChatTyped, Chat!TypeOK
<1>1. UNCHANGED <<codes, chatNow, held, posts>>
  BY DEF Chat!SignIn, Chat!Record, Chat!DeleteAccount, Chat!ForgetAccount, Chat!ForceUnlink,
     Chat!inDaemon, Chat!outside
<1>2. ASSUME registered' \in BOOLEAN, chat' \in Chats \union {None},
             pending' \in Chat!Entry \union {None}, proven' \in (0..LastTimes.chat) \union {None},
             /\ task' \in [Workers -> Chat!Request \union {None}] /\ ChatMinted'
             /\ changed' \subseteq {u \in Workers : task'[u] # None}
      PROVE  ChatTyped'
  BY <1>0, <1>1, <1>2 DEF ChatTyped, Chat!TypeOK
<1>3. CASE Chat!SignIn(t)
  <2> DEFINE req == [at |-> "record"]
  <2>1. /\ registered' = TRUE /\ task[t] = None /\ Chat!Goes(t, req)
        /\ UNCHANGED <<chat, pending, proven, changed>>
    BY <1>3 DEF Chat!SignIn, Chat!inDaemon
  <2>2. req \in Chat!Request /\ req.at = "record" /\ t \notin changed'
    BY <1>0, <2>1 DEF Chat!Request
  <2> HIDE DEF req
  <2>3. /\ task' \in [Workers -> Chat!Request \union {None}] /\ ChatMinted'
        /\ changed' \subseteq {u \in Workers : task'[u] # None}
    BY <1>0, <1>1, <2>1, <2>2, ChatGoesTyped
  <2> QED BY <1>0, <1>2, <2>1, <2>3
<1>4. CASE Chat!Record(t)
  <2>1. proven' = chatNow /\ Chat!Ends(t) /\ UNCHANGED <<registered, chat, pending>>
    BY <1>4 DEF Chat!Record
  <2>2. /\ task' \in [Workers -> Chat!Request \union {None}] /\ ChatMinted'
        /\ changed' \subseteq {u \in Workers : task'[u] # None}
    BY <1>1, <2>1, ChatEndsTyped
  <2> QED BY <1>0, <1>2, <2>1, <2>2
<1>5. CASE Chat!DeleteAccount(t)
  <2> DEFINE req == [at |-> "forget"]
  <2>1. /\ registered' = FALSE /\ Chat!SetChat(t, None) /\ Chat!Goes(t, req)
        /\ UNCHANGED <<pending, proven>>
    BY <1>5 DEF Chat!DeleteAccount, Chat!inDaemon
  <2>2. req \in Chat!Request /\ req.at = "forget"
    BY DEF Chat!Request
  <2>3. changed' \subseteq {u \in Workers : task[u] # None} /\ t \notin changed' /\ chat' = None
    BY <2>1, ChatSetTyped
  <2> HIDE DEF req
  <2>4. /\ task' \in [Workers -> Chat!Request \union {None}] /\ ChatMinted'
        /\ changed' \subseteq {u \in Workers : task'[u] # None}
    BY <1>1, <2>1, <2>2, <2>3, ChatGoesTyped
  <2> QED BY <1>0, <1>2, <2>1, <2>3, <2>4
<1>6. CASE Chat!ForgetAccount(t)
  <2>1. /\ Chat!Ends(t) /\ UNCHANGED <<registered, chat>>
        /\ pending' \in {pending, None} /\ proven' \in {proven, None}
    BY <1>6 DEF Chat!ForgetAccount
  <2>2. /\ task' \in [Workers -> Chat!Request \union {None}] /\ ChatMinted'
        /\ changed' \subseteq {u \in Workers : task'[u] # None}
    BY <1>1, <2>1, ChatEndsTyped
  <2> QED BY <1>0, <1>2, <2>1, <2>2
<1>7. CASE Chat!ForceUnlink(t)
  <2>1. Chat!SetChat(t, None) /\ UNCHANGED <<registered, pending, proven, task>>
    BY <1>7 DEF Chat!ForceUnlink, Chat!inDaemon
  <2>2. changed' \subseteq {u \in Workers : task[u] # None} /\ chat' = None
    BY <2>1, ChatSetTyped
  <2>3. ChatMinted'
    BY <1>0, <1>1, <2>1 DEF ChatMinted, Chat!At
  <2> QED BY <1>0, <1>2, <2>1, <2>2, <2>3
<1> QED BY <1>3, <1>4, <1>5, <1>6, <1>7

LEMMA ChatRestTyped ==
  ASSUME Chat!ChatLinkAssumption, ChatBounds, ChatIInv, ChatTyped,
         Chat!Post \/ Chat!RestartDaemon \/ Chat!Tick \/ UNCHANGED Chat!vars
  PROVE  ChatTyped'
<1>0. /\ registered \in BOOLEAN /\ chat \in Chats \union {None} /\ codes \in 0..MaxCodes
      /\ chatNow \in 0..LastTimes.chat /\ LastTimes.chat \in Nat
      /\ pending \in Chat!Entry \union {None} /\ proven \in (0..LastTimes.chat) \union {None}
      /\ held \subseteq 1..codes
      /\ \A i \in DOMAIN posts : posts[i].code \in held
      /\ task \in [Workers -> Chat!Request \union {None}] /\ ChatMinted
      /\ changed \subseteq {u \in Workers : task[u] # None} /\ posts \in Seq(ChatMessages)
  BY DEF ChatTyped, Chat!TypeOK, ChatBounds, ChatIInv, ChatShapes
<1>1. CASE Chat!Post
  <2>1. UNCHANGED <<registered, chat, pending, proven, codes, chatNow, held, task, changed>>
    BY <1>1 DEF Chat!Post, Chat!inDaemon
  <2>2. PICK code \in held, from \in Chats :
          posts' = Append(posts, [code |-> code, chat |-> from, date |-> chatNow])
    BY <1>1 DEF Chat!Post
  <2> DEFINE m == [code |-> code, chat |-> from, date |-> chatNow]
  <2>3. m.code = code /\ posts' = Append(posts, m)
    BY <2>2
  <2> HIDE DEF m
  <2>4. \A i \in DOMAIN posts' : posts'[i] = m \/ (i \in DOMAIN posts /\ posts'[i] = posts[i])
    BY <1>0, <2>3
  <2>5. \A i \in DOMAIN posts' : posts'[i].code \in held
    BY <1>0, <2>3, <2>4
  <2>6. ChatMinted'
    BY <1>0, <2>1 DEF ChatMinted, Chat!At
  <2> QED BY <1>0, <2>1, <2>5, <2>6 DEF ChatTyped, Chat!TypeOK
<1>2. CASE Chat!RestartDaemon
  <2>1. /\ pending' = None /\ proven' = None
        /\ task' = [t \in Workers |-> IF Chat!At(t, "forget") THEN task[t] ELSE None]
        /\ changed' = {t \in changed : Chat!At(t, "forget")}
        /\ UNCHANGED <<registered, chat, codes, chatNow, held, posts>>
    BY <1>2 DEF Chat!RestartDaemon, Chat!outside
  <2>2. task' \in [Workers -> Chat!Request \union {None}]
    BY <1>0, <2>1
  <2>3. \A t \in Workers : task'[t] = IF Chat!At(t, "forget") THEN task[t] ELSE None
    BY <2>1
  <2>4. changed' \subseteq {u \in Workers : task'[u] # None}
    BY <1>0, <2>1, <2>3
  <2>5. ChatMinted'
    BY <2>3 DEF ChatMinted, Chat!At
  <2> QED BY <1>0, <2>1, <2>2, <2>4, <2>5 DEF ChatTyped, Chat!TypeOK
<1>3. CASE Chat!Tick
  <2>1. /\ chatNow' = chatNow + 1 /\ chatNow < LastTimes.chat
        /\ UNCHANGED <<registered, chat, pending, proven, codes, held, posts, task, changed>>
    BY <1>3 DEF Chat!Tick, Chat!inDaemon
  <2>2. ChatMinted' /\ chatNow' \in 0..LastTimes.chat
    BY <1>0, <2>1 DEF ChatMinted, Chat!At
  <2> QED BY <1>0, <2>1, <2>2 DEF ChatTyped, Chat!TypeOK
<1>4. CASE UNCHANGED Chat!vars
  <2>1. UNCHANGED <<registered, chat, pending, proven, codes, chatNow, held, posts, task, changed>>
    BY <1>4 DEF Chat!vars, Chat!inDaemon, Chat!outside
  <2>2. ChatMinted'
    BY <1>0, <2>1 DEF ChatMinted, Chat!At
  <2> QED BY <1>0, <2>1, <2>2 DEF ChatTyped, Chat!TypeOK
<1> QED BY <1>1, <1>2, <1>3, <1>4

LEMMA ChatStepTyped ==
  ASSUME Chat!ChatLinkAssumption, ChatBounds, ChatIInv, ChatTyped, [Chat!Next]_(Chat!vars)
  PROVE  ChatTyped'
BY ChatStartsTyped, ChatFinishesTyped, ChatAccountTyped, ChatRestTyped DEF Chat!Next, Chat!Step

LEMMA ChatInitTyped ==
  ASSUME ChatBounds, Chat!Init
  PROVE  ChatTyped
BY DEF ChatBounds, Chat!Init, ChatTyped, Chat!TypeOK, ChatMinted, Chat!At

-----------------------------------------------------------------------------
\* Type correctness, whichever of these parts the behaviour is one of: in particular
\* no cookie carries more entries than MAX_PENDING, and the owner of a mailbox holds
\* only codes that were minted (frontend/session.py, accounts/chat_link.py,
\* backend/audit.py, custody/handoff_server.py, frontend/web_server.py).
THEOREM WebTierKeepsItsTypes ==
  Spec => [](part \in {"pending", "chat", "trail", "contact", "handoff"} => TypesOK)
<1>0. /\ Pending!PendingValuesAssumption /\ Chat!ChatLinkAssumption /\ Trail!AuditTrailAssumption
      /\ Contact!ContactFormAssumption /\ Handoffs!HandoffAssumption
      /\ PendingBounds /\ ChatBounds
  BY PartsAssumption, BoundsAreNumbers DEF PendingBounds, ChatBounds
<1>1. Spec => [](PendingIInv /\ PendingTimes /\ PendingCounted /\ PendingSmall)
  <2>1. Pending!Init => PendingIInv /\ PendingTimes /\ PendingCounted /\ PendingSmall
    BY <1>0, PendingInitIInv, PendingInitTyped
  <2>2. PendingIInv /\ PendingTimes /\ PendingCounted /\ PendingSmall /\ [Pending!Next]_(Pending!vars)
          => (PendingIInv /\ PendingTimes /\ PendingCounted /\ PendingSmall)'
    BY <1>0, PendingStepIInv, PendingTimesKept, PendingCountedKept, PendingSmallKept
  <2> QED BY <2>1, <2>2, PendingIsAPart, PTL DEF Pending!Spec
<1>2. Spec => [](ChatIInv /\ ChatTyped)
  <2>1. Chat!Init => ChatIInv /\ ChatTyped
    BY <1>0, ChatInitIInv, ChatInitTyped
  <2>2. ChatIInv /\ ChatTyped /\ [Chat!Next]_(Chat!vars) => (ChatIInv /\ ChatTyped)'
    BY <1>0, ChatStepKeeps, ChatStepTyped
  <2> QED BY <2>1, <2>2, ChatIsAPart, PTL DEF Chat!Spec
<1>3. Spec => []TrailIInv
  <2>1. Trail!Init => TrailIInv
    BY <1>0, TrailInitIInv
  <2>2. TrailIInv /\ [Trail!Next]_(Trail!vars) => TrailIInv'
    BY <1>0, TrailStepIInv
  <2> QED BY <2>1, <2>2, TrailIsAPart, PTL DEF Trail!Spec
<1>4. Spec => []ContactIInv
  <2>1. Contact!Init => ContactIInv
    BY <1>0, ContactInitIInv
  <2>2. ContactIInv /\ [Contact!Next]_(Contact!vars) => ContactIInv'
    BY <1>0, ContactStepKeeps
  <2> QED BY <2>1, <2>2, ContactIsAPart, PTL DEF Contact!Spec
<1>5. Spec => [](HandoffIInv /\ HandoffListening)
  <2>1. Handoffs!Init => HandoffIInv /\ HandoffListening
    BY <1>0, HandoffInitIInv DEF Handoffs!Init, HandoffListening, Handoffs!HandoffAssumption
  <2>2. HandoffIInv /\ HandoffListening /\ [Handoffs!Next]_(Handoffs!vars)
          => (HandoffIInv /\ HandoffListening)'
    BY <1>0, HandoffStepIInv, HandoffListeningKept
  <2> QED BY <2>1, <2>2, HandoffIsAPart, PTL DEF Handoffs!Spec
<1>6. PendingIInv /\ PendingTimes /\ PendingCounted /\ PendingSmall => Pending!TypeOK
  BY <1>0, PendingTyped
<1>7. Pending!TypeOK /\ ChatTyped /\ TrailIInv /\ ContactIInv /\ HandoffIInv /\ HandoffListening
        => (part \in {"pending", "chat", "trail", "contact", "handoff"} => TypesOK)
  BY <1>0, TrailTyped, ContactTyped, HandoffTyped DEF ChatTyped, TypesOK
<1> QED BY <1>1, <1>2, <1>3, <1>4, <1>5, <1>6, <1>7, PTL
=============================================================================

------------------------------ MODULE ChatLink ------------------------------
(***************************************************************************)
(* Who may change an account's Telegram chat (backend/accounts/chat_link,  *)
(* auth_recency, and the handlers that reach them).  The daemon mints a    *)
(* code, the chat being replaced posts it, or, where no chat is linked, a  *)
(* chat the mailbox's owner chooses, and the daemon reads it back from the *)
(* bot's inbox.  Every request has a thread of its own in the daemon, and  *)
(* a request asks Gmail or Telegram between reading the account and        *)
(* writing it.  One account; its owner may delete it and sign up again.    *)
(***************************************************************************)
EXTENDS Naturals, Sequences, FiniteSets, SequencesExt

CONSTANTS
  Chats, None,
  Threads,       \* requests being served
  PendingTTL,    \* PENDING_TTL
  FreshSeconds,  \* FRESH_SECONDS
  LastTime,      \* bound: clock
  MaxCodes,      \* bound: codes minted
  MaxPosts,      \* bound: messages sent to the bot
  MaxRestarts    \* bound: daemon restarts

Link == "link"
Unlink == "unlink"

\* A pending change, and a request under way.
Entry == [action : {Link, Unlink}, code : 1..MaxCodes, since : 0..LastTime,
          expires : Nat, chat : Chats \union {None}]
Request ==
  [at : {"deliver", "store"}, code : 1..MaxCodes, chat : Chats \union {None}, shown : BOOLEAN]
    \union [at : {"recheck", "ask"}, entry : Entry]
    \union [at : {"write"}, target : Chats \union {None}, entry : Entry]
    \union [at : {"record", "forget"}]

ChatLinkAssumption == PendingTTL \in Nat /\ None \notin Request

VARIABLES
  registered,  \* the account is in the manifest
  chat,        \* its telegram field
  pending,     \* _pending: the change waiting for an answer, or None
  proven,      \* _proven: when this daemon last saw a sign-in, or None
  now,
  codes,       \* codes minted, numbered in order
  held,        \* codes the owner has read, on the page or in the inbox
  posts,       \* the bot's inbox, oldest first
  task,        \* thread -> the request it serves, or None
  restarts,
  changed      \* requests during which another one changed the chat, since they last looked

inDaemon == <<pending, proven, codes, restarts>>
outside == <<now, held, posts>>
vars == <<registered, chat, inDaemon, outside, task, changed>>

Init ==
  /\ registered \in BOOLEAN
  /\ chat \in {None} \union Chats /\ (~registered => chat = None)
  /\ pending = None /\ proven = None /\ now = 0 /\ codes = 0 /\ held = {}
  /\ posts = <<>> /\ task = [t \in Threads |-> None] /\ restarts = 0 /\ changed = {}

----------------------------------------------------------------------------
\* action_for
ActionFor(target) == IF target = None THEN Link ELSE Unlink

\* _prune
Live(entry) == entry # None /\ entry.expires > now
ProvenRecently == proven # None /\ now - proven < FreshSeconds

\* The newest message carrying the code that is young enough and, where the
\* question names a chat, from it.
AnswersFromAnywhere(entry, asked) == {i \in DOMAIN posts : posts[i].code = entry.code}
Answers(entry, asked) ==
  {i \in DOMAIN posts : /\ posts[i].code = entry.code
                        /\ posts[i].date >= entry.since
                        /\ asked \in {None, posts[i].chat}}
PostedSince(entry, asked) ==
  IF Answers(entry, asked) = {} THEN None
  ELSE posts[CHOOSE i \in Answers(entry, asked) :
               \A j \in Answers(entry, asked) : j <= i].chat

At(t, place) == task[t] # None /\ task[t].at = place
Goes(t, request) == task' = [task EXCEPT ![t] = request]
Ends(t) == Goes(t, None) /\ changed' = changed \ {t}

\* The account's chat is written: everybody else's request now overlaps it.
SetChat(t, target) ==
  /\ chat' = target
  /\ changed' = (changed \ {t}) \union
                  {u \in Threads \ {t} : chat # target /\ task[u] # None}

----------------------------------------------------------------------------
(* begin *)

\* The account is read and a code minted.  An unlink is answered by the chat,
\* so its code goes on the page; so does a link's just after a sign-in.
Begin(t) ==
  /\ task[t] = None /\ registered /\ codes < MaxCodes
  /\ codes' = codes + 1
  /\ Goes(t, [at |-> IF ActionFor(chat) = Unlink \/ ProvenRecently
                     THEN "store" ELSE "deliver",
              code |-> codes + 1, chat |-> chat, shown |-> TRUE])
  /\ UNCHANGED <<registered, chat, pending, proven, restarts, outside, changed>>

\* The code goes to the account's own inbox instead, or nowhere.
Deliver(t) ==
  /\ At(t, "deliver")
  /\ \/ /\ Goes(t, [task[t] EXCEPT !.at = "store", !.shown = FALSE])
        /\ held' = held \union {task[t].code}
        /\ UNCHANGED changed
     \/ Ends(t) /\ UNCHANGED held
  /\ UNCHANGED <<registered, chat, inDaemon, now, posts>>

\* It replaces the change that was pending, and the page is answered.
EntryFor(request) ==
  [action |-> ActionFor(request.chat), code |-> request.code, since |-> now,
   expires |-> now + PendingTTL, chat |-> request.chat]
Store(t) ==
  /\ At(t, "store")
  /\ pending' = EntryFor(task[t])
  /\ held' = IF task[t].shown THEN held \union {task[t].code} ELSE held
  /\ Ends(t)
  /\ UNCHANGED <<registered, chat, proven, codes, restarts, now, posts>>

----------------------------------------------------------------------------
(* finish *)

Claim(t) ==
  /\ task[t] = None /\ pending # None
  /\ IF Live(pending)
     THEN Goes(t, [at |-> "recheck", entry |-> pending]) /\ UNCHANGED pending
     ELSE pending' = None /\ UNCHANGED task
  /\ UNCHANGED <<registered, chat, proven, codes, restarts, outside, changed>>

\* The account is read again: it must be what the pending change describes, in
\* the chat as well as in whether there is one.
ChangedAction(entry) == ActionFor(chat) # entry.action
Changed(entry) == chat # entry.chat
Recheck(t) ==
  /\ At(t, "recheck")
  /\ IF ~registered THEN Ends(t) /\ UNCHANGED pending
     ELSE IF Changed(task[t].entry) THEN Ends(t) /\ pending' = None
     ELSE /\ Goes(t, [task[t] EXCEPT !.at = "ask"])
          /\ changed' = changed \ {t} /\ UNCHANGED pending
  /\ UNCHANGED <<registered, chat, proven, codes, restarts, outside>>

\* Telegram is asked; the code has not been seen, or not from that chat, and
\* the change stays pending.
Ask(t) ==
  /\ At(t, "ask")
  /\ LET entry == task[t].entry
         found == PostedSince(entry, entry.chat)
     IN IF found = None THEN Ends(t) /\ UNCHANGED pending
        ELSE /\ pending' = None /\ UNCHANGED changed
             /\ Goes(t, [at |-> "write",
                         target |-> IF entry.action = Link THEN found ELSE None,
                         entry |-> entry])
  /\ UNCHANGED <<registered, chat, proven, codes, restarts, outside>>

\* set_telegram, which refuses an account that is gone.
Write(t) ==
  /\ At(t, "write")
  /\ IF registered THEN SetChat(t, task[t].target) /\ Goes(t, None)
     ELSE Ends(t) /\ UNCHANGED chat
  /\ UNCHANGED <<registered, inDaemon, outside>>

----------------------------------------------------------------------------
(* Everybody else *)

\* A Google sign-in, which creates the account where there is none, and the
\* daemon's note of it.
SignIn(t) ==
  /\ task[t] = None
  /\ registered' = TRUE
  /\ Goes(t, [at |-> "record"])
  /\ UNCHANGED <<chat, inDaemon, outside, changed>>
Record(t) ==
  /\ At(t, "record")
  /\ proven' = now
  /\ Ends(t)
  /\ UNCHANGED <<registered, chat, pending, codes, restarts, outside>>

\* The web tier removes the account and then has the daemon forget it, if the
\* daemon answers.
DeleteAccount(t) ==
  /\ task[t] = None /\ registered
  /\ registered' = FALSE /\ SetChat(t, None)
  /\ Goes(t, [at |-> "forget"])
  /\ UNCHANGED <<inDaemon, outside>>
ForgetAccount(t) ==
  /\ At(t, "forget")
  /\ \/ pending' = None /\ proven' = None
     \/ UNCHANGED <<pending, proven>>
  /\ Ends(t)
  /\ UNCHANGED <<registered, chat, codes, restarts, outside>>

\* force_unlink, by hand: the pending changes it forgets are those of its own
\* process, which has none.
ForceUnlink(t) ==
  /\ task[t] = None /\ registered /\ chat # None
  /\ SetChat(t, None)
  /\ UNCHANGED <<registered, inDaemon, outside, task>>

\* The owner sends a code they hold to the bot, from a chat of their choice.
Post ==
  /\ Len(posts) < MaxPosts
  /\ \E code \in held, from \in Chats :
       posts' = Append(posts, [code |-> code, chat |-> from, date |-> now])
  /\ UNCHANGED <<registered, chat, inDaemon, now, held, task, changed>>

\* Pending changes and notes are memory, and a request in the daemon dies with it.
RestartDaemon ==
  /\ restarts < MaxRestarts /\ restarts' = restarts + 1
  /\ pending' = None /\ proven' = None
  /\ task' = [t \in Threads |-> IF At(t, "forget") THEN task[t] ELSE None]
  /\ changed' = {t \in changed : At(t, "forget")}
  /\ UNCHANGED <<registered, chat, codes, outside>>

Tick == /\ now < LastTime /\ now' = now + 1
        /\ UNCHANGED <<registered, chat, inDaemon, held, posts, task, changed>>

Step(t) ==
  \/ Begin(t) \/ Deliver(t) \/ Store(t)
  \/ Claim(t) \/ Recheck(t) \/ Ask(t) \/ Write(t)
  \/ SignIn(t) \/ Record(t) \/ DeleteAccount(t) \/ ForgetAccount(t) \/ ForceUnlink(t)

Next == (\E t \in Threads : Step(t)) \/ Post \/ RestartDaemon \/ Tick

Spec == Init /\ [][Next]_vars

----------------------------------------------------------------------------
\* Every variable keeps its shape, and a code is held only once it is minted.
TypeOK ==
  /\ registered \in BOOLEAN /\ chat \in Chats \union {None}
  /\ now \in 0..LastTime /\ codes \in 0..MaxCodes
  /\ pending \in Entry \union {None} /\ proven \in (0..LastTime) \union {None}
  /\ held \subseteq 1..codes
  /\ \A i \in DOMAIN posts : posts[i].code \in held
  /\ task \in [Threads -> Request \union {None}]
  /\ changed \subseteq {t \in Threads : task[t] # None}

\* finish() writing the account's chat.
Writes(t) == At(t, "write") /\ task'[t] = None /\ chat' # chat

\* The code was posted after it was asked for, by the chat that is leaving or,
\* where there is none, by the chat that is coming.
Answered(t) ==
  LET entry == task[t].entry
  IN \E i \in DOMAIN posts :
       /\ posts[i].code = entry.code /\ posts[i].date >= entry.since
       /\ posts[i].chat = IF chat = None THEN chat' ELSE chat

\* "The rule asks the chat that is being replaced": through expired codes,
\* restarts, deletions and other tabs, a chat is linked or detached only on its
\* own answer to this request.  The exception: another request changed the chat
\* after this one had compared it.
ChangeStep == \A t \in Threads : Writes(t) => Answered(t) \/ t \in changed
ChangeAnswered == [][ChangeStep]_vars

\* The same with no exception, as the module docstring and the comment above
\* finish()'s comparison have it.
ChatAskedIsChatReplaced == [][\A t \in Threads : Writes(t) => Answered(t)]_vars
===========================================================================

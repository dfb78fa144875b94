------------------------------ MODULE Drafting ------------------------------
(* What one pass does with the mail it fetched: forwarded requests answered   *)
(* in a placeholder draft, unread mail classified and drafted, sent mail      *)
(* turned into calendar events - the body of pipeline.process_account, with   *)
(* the model's loop (agentic_drafter), the draft writer and the calendar's    *)
(* privacy check.  The cursor protocol around the pass is MailPipeline's.     *)
EXTENDS Naturals, FiniteSets

CONSTANTS Requests, Mail, Sent,  \* the messages, by the path they take
          MAX_ITERATIONS, MAX_EM_DASH_RETRIES, SHARING_TTL,
          AclScope,    \* whether the consent carries calendar.acls.readonly
          Delay,       \* the longest a Google call takes, in clock units
          LastTime, MaxCrashes, MaxArrivals,   \* bounds of the exploration
          None

Messages == Requests \cup Mail \cup Sent

DraftingAssumption ==
    /\ {MAX_ITERATIONS, MAX_EM_DASH_RETRIES, SHARING_TTL, Delay} \subseteq Nat
    /\ SHARING_TTL > 0 /\ AclScope \in BOOLEAN
    /\ Requests \cap Mail = {}                   \* is_bot_request, or not
    /\ Sent \cap (Requests \cup Mail) = {}        \* INBOX, elif SENT: history_list
    /\ None \notin Messages

VARIABLES clock,
          shared, sharedSince, \* Google's side: who reads the calendar, and since when
          arrived, behind,     \* the mailbox, and what the cursor has passed
          taken, batch,        \* what the pass fetched, and has left to do
          ban,                 \* the Settings switch, as this pass loaded it
          pc, msg, turn, retry, body, since,
          draft, orphans,      \* each message's latest draft; drafts of dead passes
          drafted,             \* auto replies saved and not yet announced
          told, failed,        \* messages named to the user; paths an error was sent for
          cache,               \* _sharing_cache: None or the audience and its stamp
          scheduled, promised, \* events written; "nothing is lost: the next run tries again"
          crashes

mail     == <<arrived, behind, taken, batch, ban>>
work     == <<msg, turn, retry, body, since>>
output   == <<draft, drafted, told, failed>>
calendar == <<cache, scheduled, promised>>
world    == <<clock, shared, sharedSince>>
vars == <<world, mail, pc, work, output, orphans, calendar, crashes>>

Path(m) == CASE m \in Requests -> "request" [] m \in Mail -> "mail" [] OTHER -> "sent"

Init == /\ clock = 0 /\ shared = FALSE /\ sharedSince = 0
        /\ arrived = {} /\ behind = {} /\ taken = {} /\ batch = {} /\ ban = FALSE
        /\ pc = "idle" /\ msg = None /\ turn = 0 /\ retry = 0 /\ body = "none" /\ since = 0
        /\ draft = [m \in Messages |-> "none"] /\ orphans = {}
        /\ drafted = {} /\ told = {} /\ failed = {}
        /\ cache = None /\ scheduled = {} /\ promised = {} /\ crashes = 0

Arrive(m) == /\ m \notin arrived /\ Cardinality(arrived) < MaxArrivals
             /\ arrived' = arrived \cup {m}
             /\ UNCHANGED <<world, behind, taken, batch, ban, pc, work, output, orphans,
                            calendar, crashes>>

\* A pass hands over everything behind the cursor, requests first, then mail,
\* then what the user sent.
Fetch == /\ pc = "idle" /\ arrived # behind
         /\ taken' = arrived \ behind /\ batch' = taken' /\ ban' \in BOOLEAN
         /\ pc' = "next"
         /\ UNCHANGED <<world, arrived, behind, work, output, orphans, calendar, crashes>>

Turn(m) == /\ pc = "next" /\ m \in batch
           /\ \A n \in batch : Path(m) = "mail" => n \notin Requests
           /\ \A n \in batch : Path(m) = "sent" => n \in Sent

\* A message taken up, and what a path is done with.
TakeUp(m, next) == pc' = next /\ msg' = m /\ UNCHANGED <<batch, turn, retry, body, since>>

Leave(done) == /\ batch' = batch \ done /\ pc' = "next"
               /\ msg' = None /\ turn' = 0 /\ retry' = 0 /\ body' = "none" /\ since' = 0

\* An exception in the mail path ends it for the whole batch, and what it had
\* saved by then goes unannounced.
MailFails == /\ Leave(Mail) /\ failed' = failed \cup (taken \cap Mail) /\ drafted' = {}
             /\ UNCHANGED <<draft, told>>

RequestFails(m) == Leave({m}) /\ failed' = failed \cup {m} /\ UNCHANGED <<draft, drafted, told>>

\* process_draft_request up to the placeholder: an unparseable forward is said,
\* anything that raises is reported by the pass.
StartRequest(m) ==
    /\ Turn(m) /\ m \in Requests
    /\ \/ Leave({m}) /\ told' = told \cup {m} /\ UNCHANGED <<draft, drafted, failed>>
       \/ RequestFails(m)
       \/ /\ TakeUp(m, "model") /\ draft' = [draft EXCEPT ![m] = "progress"]
          /\ UNCHANGED <<told, drafted, failed>>
    /\ UNCHANGED <<world, arrived, behind, taken, ban, orphans, calendar, crashes>>

\* classify and the loop over its decisions: an email that needs no reply is
\* passed over in silence.
StartMail(m) ==
    /\ Turn(m) /\ m \in Mail
    /\ \/ Leave({m}) /\ UNCHANGED output
       \/ MailFails
       \/ TakeUp(m, "model") /\ UNCHANGED output
    /\ UNCHANGED <<world, arrived, behind, taken, ban, orphans, calendar, crashes>>

\* What an exception out of draft() or out of the draft writer does: a request
\* keeps whatever its draft says and the pass reports it; mail loses its path.
Raised == IF msg \in Mail THEN MailFails ELSE RequestFails(msg)

\* The AssertionError of an empty body, the one failure a request handles.
EmptyUnsaved == IF msg \in Mail THEN MailFails
                ELSE Leave({msg}) /\ UNCHANGED output
Empty == IF msg \in Mail THEN MailFails
         ELSE /\ Leave({msg}) /\ told' = told \cup {msg}
              /\ draft' = [draft EXCEPT ![msg] = "failed"] /\ UNCHANGED <<drafted, failed>>

AgainUncounted == turn' = 0 /\ UNCHANGED retry
Again == turn' = 0 /\ retry' = retry + 1

\* One llm_client.complete of _run_loop under _draft_with_em_dash_retry.  At
\* MAX_ITERATIONS the call is the forced one, whose tool calls are not run.
\* The answer is unmasked on its way out, which can put a dash back.
Complete ==
    /\ pc = "model"
    /\ \/ Raised
       \/ Empty
       \/ /\ turn < MAX_ITERATIONS /\ turn' = turn + 1
          /\ UNCHANGED <<pc, msg, retry, body, since, batch, output>>
       \/ \E answer \in {"clean", "dashed"} :
             LET once_more == ban /\ answer = "dashed" /\ retry < MAX_EM_DASH_RETRIES IN
             /\ \/ once_more /\ Again /\ UNCHANGED <<pc, body>>
                \/ ~once_more /\ body' \in {answer, "dashed"} /\ pc' = "reply"
                   /\ UNCHANGED <<turn, retry>>
             /\ UNCHANGED <<msg, since, batch, output>>
    /\ UNCHANGED <<world, arrived, behind, taken, ban, orphans, calendar, crashes>>

\* The draft as it is saved: the caller asks about dashes once more, of the
\* body the user would read.
RejectedInTheLoop == ban /\ body = "dashed" /\ retry < MAX_EM_DASH_RETRIES
Rejected == ban /\ body = "dashed"

SaveReply ==
    /\ pc = "reply"
    /\ \/ Raised
       \/ /\ Leave({msg})
          /\ draft' = [draft EXCEPT ![msg] = IF ~Rejected THEN body
                                             ELSE IF msg \in Requests THEN "rejected" ELSE @]
          /\ IF Rejected \/ msg \in Requests
             THEN told' = told \cup {msg} /\ UNCHANGED drafted
             ELSE drafted' = drafted \cup {msg} /\ UNCHANGED told
          /\ UNCHANGED failed
    /\ UNCHANGED <<world, arrived, behind, taken, ban, orphans, calendar, crashes>>

\* process_emails' one message about every draft it saved.
Announce == /\ pc = "next" /\ drafted # {} /\ batch \cap Mail = {}
            /\ told' = told \cup drafted /\ drafted' = {}
            /\ UNCHANGED <<world, mail, pc, work, draft, failed, orphans, calendar, crashes>>

StartSent(m) ==
    /\ Turn(m) /\ m \in Sent /\ drafted = {}
    /\ \/ Leave({m}) /\ UNCHANGED failed
       \/ Leave({m}) /\ failed' = failed \cup {m}
       \/ TakeUp(m, "ask") /\ UNCHANGED failed
    /\ UNCHANGED <<world, arrived, behind, taken, ban, draft, drafted, told, orphans,
                   calendar, crashes>>

\* CalendarNotPrivate ends the path for every sent message left.  Without the
\* ACL scope an unknown audience is answered with "nothing is lost: the next
\* run tries again".
Refuse(unknown) ==
    /\ Leave(Sent) /\ told' = told \cup (batch \cap Sent)
    /\ promised' = promised \cup (IF unknown /\ ~AclScope THEN batch \cap Sent ELSE {})

Clear == /\ pc' = "insert" /\ since' = clock /\ body' = "none"
         /\ UNCHANGED <<msg, turn, retry, batch, told, promised>>

Fresh == cache # None /\ clock - cache.at < SHARING_TTL

\* write_calendar_audience, first half: the cache, or one of the two ways to
\* ask.  The unauthenticated one calls account.primary_email(), a property
\* holding a string, so it raises before it asks anything.
Ask == /\ pc = "ask"
       /\ \/ Fresh /\ IF cache.shared THEN Refuse(FALSE) ELSE Clear
          \/ ~Fresh /\ Refuse(TRUE)
          \/ /\ ~Fresh /\ AclScope /\ pc' = "asked" /\ since' = clock
             /\ body' = (IF shared THEN "shared" ELSE "private")
             /\ UNCHANGED <<msg, turn, retry, batch, told, promised>>
       /\ UNCHANGED <<world, arrived, behind, taken, ban, draft, drafted, failed,
                      orphans, cache, scheduled, crashes>>

\* Second half: the answer is stored with the time it was stored at.
Store == /\ pc = "asked" /\ cache' = [at |-> clock, shared |-> body = "shared"]
         /\ IF body = "shared" THEN Refuse(FALSE) ELSE Clear
         /\ UNCHANGED <<world, arrived, behind, taken, ban, draft, drafted, failed, orphans,
                        scheduled, crashes>>

Insert == /\ pc = "insert" /\ Leave({msg})
          /\ \/ scheduled' = scheduled \cup {msg} /\ told' = told \cup {msg} /\ UNCHANGED failed
             \/ failed' = failed \cup {msg} /\ UNCHANGED <<scheduled, told>>
          /\ UNCHANGED <<world, arrived, behind, taken, ban, draft, drafted, orphans,
                         cache, promised, crashes>>

\* The cursor moves past everything the pass was handed, whatever became of it.
Finish == /\ pc = "next" /\ batch = {} /\ drafted = {}
          /\ behind' = behind \cup taken /\ taken' = {} /\ pc' = "idle"
          /\ UNCHANGED <<world, arrived, batch, ban, work, output, orphans, calendar, crashes>>

\* The daemon dies in the pass: what it saved stays in the mailbox unsaid, and
\* the messages come back with the next pass, which may decide otherwise.
Crash == /\ pc # "idle" /\ crashes < MaxCrashes /\ crashes' = crashes + 1
         /\ orphans' = orphans \cup {m \in taken : draft[m] # "none" /\ m \notin told \cup failed}
         /\ pc' = "idle" /\ taken' = {} /\ batch' = {} /\ cache' = None /\ drafted' = {}
         /\ msg' = None /\ turn' = 0 /\ retry' = 0 /\ body' = "none" /\ since' = 0
         /\ UNCHANGED <<world, arrived, behind, ban, draft, told, failed, scheduled, promised>>

\* The user shares the calendar, or makes it private again.  This and the time
\* matter to the calendar path alone: what passes elsewhere may as well pass
\* when the path next begins.
Scheduling == pc \in {"ask", "asked", "insert"}

Share == /\ Scheduling /\ shared' = ~shared /\ sharedSince' = clock
         /\ UNCHANGED <<clock, mail, pc, work, output, orphans, calendar, crashes>>

Tick == /\ Scheduling /\ clock < LastTime
        /\ (pc \in {"asked", "insert"} => clock - since < Delay)
        /\ clock' = clock + 1
        /\ UNCHANGED <<shared, sharedSince, mail, pc, work, output, orphans, calendar, crashes>>

Step == \/ \E m \in Messages : StartRequest(m) \/ StartMail(m) \/ StartSent(m)
        \/ Complete \/ SaveReply \/ Announce \/ Ask \/ Store \/ Insert \/ Finish

Next == \/ \E m \in Messages : Arrive(m)
        \/ Fetch \/ Step \/ Crash \/ Share \/ Tick

Spec == Init /\ [][Next]_vars

\* The daemon's loop runs on while the process lives.
FairSpec == Spec /\ WF_vars(Step)

TypeOK ==
    /\ clock \in 0..LastTime /\ shared \in BOOLEAN /\ sharedSince \in 0..clock
    /\ behind \subseteq arrived /\ arrived \subseteq Messages
    /\ batch \subseteq taken /\ taken \subseteq arrived \ behind /\ ban \in BOOLEAN
    /\ pc \in {"idle", "next", "model", "reply", "ask", "asked", "insert"}
    /\ (msg = None) = (pc \in {"idle", "next"}) /\ (msg # None => msg \in batch)
    /\ turn \in 0..MAX_ITERATIONS /\ retry \in 0..MAX_EM_DASH_RETRIES
    /\ body \in {"none", "clean", "dashed", "private", "shared"}
    /\ draft \in [Messages -> {"none", "progress", "failed", "rejected", "clean", "dashed"}]
    /\ drafted \subseteq taken \cap Mail /\ orphans \subseteq Requests \cup Mail
    /\ told \cup failed \subseteq arrived
    /\ cache = None \/ (cache.at \in 0..clock /\ cache.shared \in BOOLEAN)

\* An account that bans dashes gets no reply holding one: neither the retries
\* running out nor a name unmasked into the finished body saves one as a draft.
\* (draft_replies.process_emails, manual_draft.process_draft_request)
BanIsKept == \A m \in Messages : draft[m] # "dashed" /\ draft'[m] = "dashed" => ~ban

\* Once the cursor has passed a message, whatever the pass left in the mailbox
\* for it has been said to the user: a saved reply was announced, or an error
\* was sent about its path, and a placeholder left half written was reported.  The
\* exception is what a pass had saved, and not said, when the daemon died.
\* (process_emails announces once, after a loop any exception ends.)
SavedWorkIsSaid == \A m \in behind : draft[m] # "none" => m \in told \cup failed \cup orphans

\* An event is written only to a calendar that was private not long ago: when
\* it is shared by then, it has been for less than SHARING_TTL plus the two
\* Google calls the answer and the write took.
\* (calendar_api.write_calendar_audience, create_event)
EventsStayPrivate ==
    scheduled' # scheduled /\ shared => clock - sharedSince < SHARING_TTL + 2 * Delay

DraftingStep == SavedWorkIsSaid' /\ EventsStayPrivate /\ BanIsKept
DraftingHolds == [][DraftingStep]_vars

\* Every pass comes to its end, however the model answers.
\* (agentic_drafter._run_loop, _draft_with_em_dash_retry)
PassEnds == pc # "idle" ~> pc = "idle"

\* "Nothing on your side is broken and nothing is lost: the next run tries
\* again" (schedule_from_sent.render_not_private).
NothingLost == \A m \in promised : m \in scheduled \/ m \notin behind
=============================================================================

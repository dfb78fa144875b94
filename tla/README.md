# A TLA+ development of Letterlock

Letterlock reads its users' Gmail, drafts replies and keeps each user's keys in two places, so that neither host alone can open a mailbox.
This directory specifies the parts of it that are hard to test: what happens when threads, processes, pushes, retries, crashes and clocks meet in an order nobody wrote a test for.
Every definition is translated from the source; `PROJECT.json` names the lines.

## The system

| Component | State | Operations | Talks to |
|---|---|---|---|
| Co-signer (`cosigner/policy.py`, `audit.py`, `retention.py`) | SQLite: `requests` log, `grants`; kill-switch file; two locks | `authorize`, `record`, `prune`, backfill at start | the enclave, over HTTPS with an attested certificate |
| Co-signer handlers and keys (`server.py`, `keys.py`, `attest.py`) | master keys by version, verdicts on quotes | wrap, unwrap, unwrap-and-sign, sign, rewrap | `authorize` first, always |
| Gmail webhook (`daemons/gmail_hook_server.py`) | certificate cache | verify a push, spool it, poke | wake queue, `wake.fifo` |
| Spools (`spool.py`, `daemons/wake_queue.py`, `billing/billing_queue.py`, `intrusion.py`) | append-only files under a file lock | append, drain | written by receivers, drained by the daemon |
| Mail daemon (`daemons/daemon_loop.py`, `pipeline.py`) | the FIFO's read end; everything else in memory | wake, route, sweep, billing pass, reports, one account's pass | all of the below, on several threads |
| State file and watch renewal (`accounts/state.py`, `onboarding/watch_renew.py`) | `state.json`: `lastHistoryId`, `watchExpiration` | load, save, update; `renew_account` | the daemon's pass and the scheduler's thread share the file |
| Billing (`billing/*.py`) | none of its own: plan and customer link in the manifest | `apply_event`, `reconcile`, `confirm_checkout` | Polar, manifest |
| Manifest (`accounts/account.py`) | `accounts.json`, a thread lock and a file lock | register, delete, plan, link, chat, voice, settings | three processes write it |
| Custody (`custody/*.py`, `onboarding/provisioning.py`) | `dek.bin`, encrypted files, key and access-token caches, the client's certificate | create, open, rewrap, destroy, refresh, revoke | co-signer, Google |
| Handoff (`custody/handoff*.py`) | a socket, its mode, one thread per connection | sign-in, forget, checkout, chat, voice, providers | web tier to daemon |
| Chat link (`accounts/chat_link.py`) | pending codes, in memory | begin, finish, force_unlink | Telegram, Gmail, manifest |
| Scheduler (`daemons/scheduler.py`) | the marks file | tick | summary, watch renewal, Polar sweep |
| Web tier (`frontend/*.py`) | signed cookies, rotating keys, the contact form's buckets | routes, pending values, sessions | handoff, manifest |
| Web-tier audit log (`audit.py`) | SQLite, a lock and a prune mark per process | record, prune | written by every manifest mutator |
| Drafting (`drafting/*.py`, `voice/`) | calendar-audience cache, voice jobs | one pass over mail, requests, sent mail; the voice job | Gmail, Calendar, the model, Telegram |
| Masking (`masking/pseudonymizer.py`) | the tags of one draft | mask, restore | every text a model is given |
| Model clients (`integrations/llm_client.py`, `inference_attestation.py`) | keys of the environment, alert cooldowns | choose a provider, attest, complete | inference endpoints |
| Proxies (`daemons/*_proxy.py`, `relay.py`) | two sockets and what is between them | accept, resolve, dial, pump | everything outside |
| Process watch (`procwatch.py`, `intrusion.py`) | a spool per role | watch, report, end the container | the mail daemon |
| TEE boot, configuration, operator commands, tools | files and environment | | |

What is hard, and what makes each correct:

* *Co-signer.* Threads decide concurrently; retention deletes what the limiter counts; the service restarts; its key is rotated under live records. Correct when no ceiling is exceeded over any window, an account is wrapped once ever, pruning is invisible to the limiter, and no record is left under a retired key.
* *Mail path.* Pokes, pushes, batches and the daemon can all be lost; the cursor lives in a file two threads rewrite without a lock; signing keys rotate under the webhook. Correct when every wake is served and no message is passed over without a reason.
* *Billing.* Polar is answered before an event is applied; events are retried at the tail, drained into memory, applied from plans read earlier; three paths write the plan. Correct when no event vanishes and the plan converges to what Polar says.
* *Custody and tokens.* Nothing serialises sign-ins, writers, deletions and rotations, each process caches on its own, and the co-signer wraps a handle once ever. Correct when what was stored can be opened, nobody is locked out, a deletion erases, and an old grant's token cannot come back.
* *Manifest and chat link.* Read, change and write across threads and processes, with a question to Telegram in between. Correct when no stale copy undoes another's field and a chat is replaced only on its own answer.
* *Web tier.* Tabs overlap, cookies are set by answers that arrive late, keys rotate, the daemon on the other end of the socket dies or times out. Correct when a value opens once, a form acts on its own account, and an answer says what was done.
* *Loops.* Jobs, reports and prunes are retried after failures and restarts. Correct when nothing runs twice without a named reason and what is due is done in the end.
* *Drafting, masking, models.* The model answers anything; names are taken apart and put back; a verdict on an endpoint is cached. Correct when what was saved is said, known names stay here, what comes back is what went out, and mail goes only where the account chose.

## The modules

| Module | What it models |
|---|---|
| `GrantRules` | the co-signer's counts and rules, as operators on a log and a time |
| `GrantLedger` | *abstract*: admissible grants, one at a time, never forgotten |
| `CoSigner` | the service: lock, log, grants table, pruning, restarts, kill switch; implements `GrantLedger` |
| `KeyVersions` | rotating the co-signer's outer key under live records |
| `Attestation` | the quote policy and its cache of verdicts, for both of its users |
| `CoSignerClient` | one process's channel to the co-signer: boot gate, certificate, alerts |
| `MailPipeline` | from a push to a handled message, with the cursor's file and its two writers |
| `SigningCerts` | the webhook's certificates and its verdict on a push |
| `Billing` | from a payment to a plan: webhook, spool, daemon pass, sweep, return page |
| `AccountStore` | *abstract*: seven operations on accounts, each at one instant |
| `Manifest` | the transaction on `accounts.json`: two locks, copies, a rename, crashes; implements `AccountStore` |
| `Custody` | one account's data key: sign-in, writes, two caches, deletion, rotation |
| `AccessTokens` | the token cache, the per-thread Google clients, consent and revocation |
| `Handoff` | the socket between web tier and daemon: peers, calls, failures, restarts |
| `ChatLink` | who may change an account's Telegram chat |
| `SignedCookies`, `PendingValues`, `Session` | what the web tier signs; one-shot values in several tabs; sessions and form tokens |
| `ContactForm` | the token bucket of each source |
| `AuditTrail` | a row per change, and its pruning, from two processes |
| `Scheduler` | marks, due jobs, a daemon that dies |
| `Intrusion` | from a process that should not be there to a person who hears of it |
| `Drafting` | what one pass does with the mail it fetched |
| `Voice` | voice jobs, the pages that follow them, a deletion meanwhile |
| `Masking` | masking and restoring the texts of one draft |
| `Providers` | catalogue, keys, the user's choice, alerts |
| `Relay` | a proxied connection from its set-up to its end |
| `DaemonLoops` | the schedule and the intrusion reports, one behaviour at a time, under their fairness |
| `SideBySide` | the components that share no state, one behaviour at a time, with their properties |
| `CoSignerProofs`, `MailPipelineProofs`, `BillingProofs`, `CustodyProofs` | proofs about the modules they are named for, for every value of the constants |
| `TrustProofs` | proofs: `KeyVersions`, `CoSignerClient`, `Attestation`, `SigningCerts`, `Relay` |
| `WebTierProofs` | proofs: `Handoff`, `Session`, `ChatLink`, `AuditTrail`, `ContactForm`, `PendingValues` |
| `BackendProofs` | proofs: `Manifest`, `AccessTokens`, `Providers`, `Voice`, `Drafting` |
| `DaemonLoopsProofs` | proofs: `Scheduler` and its calendar, `Intrusion` |
| `MCCoSigner`, `MCMailPipeline`, `MCBilling`, `MCCustody`, `MCDrafting`, `MCDaemonLoops`, `MCSideBySide` | small instances for TLC |

Operators named as a *broken variant* in a comment are never used by a specification: each is the code with one plausible bug, kept beside the definition it breaks, and `PROJECT.json` pairs it with the property that notices.

### CoSigner, KeyVersions, Attestation, CoSignerClient

`authorize` is two steps. `Decide` takes `policy._LOCK` and runs the cascade (kill switch, attestation, request shape, wrap-once, rate rules); `Record` writes the row, and for an allowed request its grant, and releases the lock.
Between them the clock moves, retention prunes (it takes `audit._LOCK` only), an operator trips the kill switch, or the process dies.
`requests` is the prunable log and `grants` the table that is not pruned; `ledger` is a history variable with every allowed row.
Time is a natural number that never goes back; the reads of the clock inside one decision are one read, and the row's stamp is a later one. A host clock stepped backwards is not modelled.
A request is a pair of account and action with two Booleans, attested and well formed. The alert cooldown is left out.

`KeyVersions` is the rotation that `cosigner/keys.py` describes: a new credential beside the old (`Provision`), a deploy that bumps `KEY_VERSION` (`Bump`), a restart, the sweep of `custody/rotate.py` account by account with its failures, and the retirement of the old credential.
`missed` is a history variable: accounts wrapped under the old key and not yet registered when the sweep listed them. The sweep cannot see them, prints a count without them, and says nothing; they are the one exception `RecordsOpen` has.
The docstring of `keys.known_versions` calls retiring a key "deleting its file and nothing else"; a process that has loaded it keeps it until it restarts, which the model does too.

`Attestation` has machines behind one key and hostname, a log of the containers each has started, the TCB level and the collateral server, and threads that look up, check and store a verdict with time passing between.
`CoSignerClient` has the boot gate as the set of faults it refuses, the threads that share `client.py`'s globals without a lock, the pair of certificate and key on disk, and the alert of an outage. A co-signer downgraded after a process asked it is not noticed by that process, because the answer is remembered for good; `AskedFirst` therefore speaks of what the process was told.

### MailPipeline, SigningCerts

The i-th message of a mailbox is the one that makes its history id i.
A message's push waits in `pushes` until it is acknowledged; only the account is kept, because the webhook reads nothing else of a push, and an acknowledgement that leaves the account there stands for a second push as well as for a lost answer.
`Spool` and `Poke` are the two halves of `route_push`, each with the ways it can fail to reach the other.
The daemon is `Start` (drain and sweep), `Wake` (byte or timeout), `Route`, and one pass per account: `Begin`, `Fetch`, `Handle` per message, then the cursor's store as `UpdateLoad`, `Truncate` and `Write`, which is what `StateStore.update` does to the file.
A renewal goes through the same three steps on a thread of its own, and so may a second one, the scheduler's beside a sign-in's. Each asks Gmail, then looks whether the file has a cursor, then stores; when both find none, the later write may pass over mail that came between their calls, and `RenewWrite` records those messages in `lost` as registered again. A crash between truncation and write leaves a file that does not parse; two overlapping writers of different lengths can leave one too, and `Written` allows it.
What drafting does with a message is a single step here; `Drafting` has the inside of it.

`SigningCerts` is the verdict before the spool: the cached set with its stated lifetime, clamped; the lock that one fetching thread holds; keys that Google publishes, rotates and withdraws; fetches that fail or take time.

### Billing

`Deliver` is the receiver: it spools a verified event and answers. `Drain`, `Resolve` and `Apply` are the daemon's pass; the plan is read in `Resolve` and written in `Apply`, a transaction of its own, and a failure in either goes through `retry`.
`SweepStart`, `SweepResolve`, `SweepApply`, `SweepEnd` are `reconcile`, with the listing taken once and each account's plan read before it is written. The several pages of the listing are one read.
`VisitStart`, `VisitLink`, `VisitApply` are `confirm_checkout`, with the account loaded at the start and the customer linked inside a transaction.
A subscription carries the account its checkout was minted for; an event resolves through that stamp, as every checkout minted by this system does, and the sweep by stored link and then by address. Events without a stamp, one-off orders, requests with a bad signature and deletions during a sweep are not modelled.

### AccountStore, Manifest

`AccountStore` is what the seven writers are promised: an operation happens at one instant, to the store as it is, and touches what it is about. `Manifest` is how: a handle looked up before any lock, the process's thread lock, the lock on the file, a copy, one edit of it, a temporary file and a rename, with a process that may die at every step.
Which operation a call is matters only once the copy is there, so `Edit` chooses it. An operation that changes nothing writes nothing, and one that is refused leaves through the `finally`.
`all_accounts()` refuses a manifest in which two entries share a handle or a customer; `ManifestHolds` says that every step of the file is one of `AccountStore`'s and leaves it `Loadable`.

### Custody, AccessTokens

One account, any number of tasks. A task is a thread at work: a sign-in or the one voice job (mail daemon), a document write or a deletion (web tier), a rotation (an operator's process). Its `pc` is the next call it makes.
A sign-in goes `take`, perhaps `mint` and `store`, then `guard`, `open`, `save`, `register`, `settle`; a document write starts at `guard`; a deletion goes `release`, `row`, `forget`, `unlink`, `rmtree`; a rotation `load`, `restore`.
A key or a handle is a number, and a file is the pair it was sealed under: the key, and the handle in its additional data. `row` is the manifest entry, `record` is `dek.bin`, `wrapped` the co-signer's `grants`, which is the one promise of `GrantLedger` this module uses.
The web tier and the daemon each have a cached key. `dek_for` hands out the cached buffer itself and `forget` overwrites it, so a task that got its key from the cache holds `Cached`, a reference; it sees zeros when the cache is forgotten, and keeps the old bytes when the entry is only replaced.
`Open` is one step because the process's lock is held across the unwrap. A file's temporary and its rename are one step, and so is making its directory. The release is one step of the daemon's, although it makes several calls; a daemon that finishes it after the web tier has stopped waiting is not modelled, nor are other accounts, plans and the watch.
`scars` is a history variable: the events that can spoil the account, recorded where they happen and never erased. A property names the ones that excuse it, so each is a list of the races this code does lose; leaving out any of them makes TLC find a counterexample.

`AccessTokens` has one address, the token cache and its lock, a Google client per thread with its own copy of token and expiry, and a sign-in or a deletion on a handoff thread. A refresh reads the record, asks Google, and stores, with time passing between.

### Handoff, ChatLink, PendingValues, Session

`Handoff` has the socket's path and mode (the window between `bind` and `chmod` included), the listener, which may die and leave a running daemon deaf, a backlog, one connection per call, the peer check, handlers that raise with nothing, something or all done, callers that give up, and what the page shows of an answer.
`ChatLink` has the pending codes, the posts in the bot's inbox, and requests on threads of their own that compare, ask and write. `changed` marks a request that another overtook between its comparison and its write.
`PendingValues` is both cookies, chosen by `purpose`, with `SignedCookies` for what is signed. A request carries the cookie as it was when it left, and the answer overwrites it; `raced` marks browsers two of whose requests overlapped. The cookie's list is kept as a set: it is newest first, and a newer entry has a greater value.
`Session` has the session cookie and the form token of each tab, and rotations of the signing key.

### AuditTrail, ContactForm, Scheduler, Intrusion

`AuditTrail`: the browser's address a thread carries, the row `record` writes after the change was saved, and the prune with its mark, in two processes.
`ContactForm`: a token is `CONTACT_REFILL_SECONDS` units of the model's clock, so a level is a number and refilling is exact.
`Scheduler`: time is counted in minutes of a calendar whose hours, days and weeks are short; the marks file is truncated before it is written, and a daemon may die between a job and its mark.
`Intrusion`: a watcher in each container reports to a spool and ends its container; the mail daemon drains, logs and tells.

### Drafting, Voice, Masking, Providers, Relay

`Drafting` is the body of `process_account`: forwarded requests answered in a placeholder, unread mail classified and drafted through the model's loop with its turns and dash retries, sent mail turned into events after the calendar's privacy check and its cache.
`Voice` is the daemon's table of jobs, tabs that ask, poll and clear, and an account deleted and signed up again; what a late write leaves on disk is `Custody`'s.
`Masking` works on words: the owner's names and addresses, the contacts in two spellings, the analyzer (which may take any words for a name), the patterns, the tags and the one allocator they come from. Which words a regex matches is an input; what happens to them is the code's order, step by step.
`Providers` has the configuration an operator changes, the keys each of two processes started with, the offer the web tier remembers, the account's choice, the client built for it, and the alert's cooldown.
`Relay` counts bytes in pieces and a socket's buffer holds `BUF` of them; the pump is one thread for both directions, as in `relay.py`, so that a blocked send stalls both.

## What the runs check

`CoSigner.cfg`: three accounts and one anonymous signer, two threads, limits of one and two, windows of one tick and of zero, retention of two, time to three and three decisions.
The limits are small enough to be reached by three decisions, retention expires inside the run, and two threads are enough for any race over one lock; accounts and threads are symmetric, and no liveness is checked with symmetry.
It checks the type invariant, `WrapOnce`, `Ceilings` (per account and endpoint, per endpoint, and the breadth over both key-releasing endpoints), `LimiterExact`, `KillSwitchStops`, and that `CoSigner` implements `GrantLedger`.
The comment above `KEY_RELEASING` says every blast-radius rule is about both endpoints together; the hourly ceilings count each endpoint on its own, as `Ceilings` states them, and only the breadth rule counts over both.

`MailPipeline.cfg`: one account, with or without a cursor at the start, three messages, passes of at most two, two faults (a failed call, a forgotten history, a lapsed watch or plan), one crash and two renewals by two interchangeable renewers. Three messages against passes of two reach the `MAX_EMAILS` cut; the daemon's pass and two renewals are every pair of writers of the file. The webhook's threads are left to `MailWakes.cfg`: here the sweep at startup begins the passes, and no cursor depends on what began one.
`NoMailSkipped` says the cursor never passes a message that no pass drafted for and none gave up on for a reason the code knows; `RepeatsExplained` bounds repeats by interrupted passes and rewound cursors.

`MailWakes.cfg`: two accounts, one message each, one fault, one crash, no renewal, under fairness. `WakeServed` says that a spooled address is served although the poke is lost, the batch it was drained into dies with the daemon, or the bytes coalesce; the exceptions are the ones the code has: the pass could not read the mailbox, the plan lapsed, or the state file was left unreadable for good.

`MailCursorRewind.cfg` finds `CursorNeverRewinds` violated, against the docstring of `watch_renew.py`: the read, the change and the save of the state file are not one step, and a renewal begun before a pass stored its cursor writes the old one back. Nothing is lost by it, but handled messages are handled again, which also contradicts the "exactly once" that `schedule_from_sent.py:11` relies on.

`Billing.cfg`: one Polar customer whose two subscriptions were bought for two accounts, one of which its address names, beside a seeded owner; two changes, two attempts per event, two faults, one crash, two return pages at once, a client that may be unconfigured. It checks `EventsAccounted` (no event vanishes; one is dropped after exactly the allowed failures) and `PlansGuarded` (one account per customer; an account no purchase names keeps its plan).
Two attempts with two faults reach the drop and its alert.

`BillingConverges.cfg`: the same with one return page, under fairness. `PlanConverges` says that an account the sweep can find, and that one customer alone decides, ends up with the plan its subscriptions entitle it to.

`BillingSelfHeals.cfg` finds `SelfHeals` violated: it asks the same of every subscription, as `billing_queue.py:27` and `billing.py:275` do, and a buyer whose Polar address is unknown and whose return page was never confirmed is invisible to the sweep.

`Custody.cfg`: two tasks at once and four in all, three keys and as many handles, one fault, one crash, starting from an empty box, a seeded owner without a key, or an account in use. Four operations and three keys are enough for a sign-up, a deletion, a second sign-up and a write by a process that remembers the first key; two tasks are enough for any pair of operations to overlap, and each race above is between two.
`NeverLockedOut` says that a registered account has a key its own handle opens, or can still get one, and that an address without a row has none left over. The exceptions are overlapping first sign-ins, an operation or a deletion cut short at the wrong place, and a sign-in, write or rotation that a deletion overtakes.
`FilesHold` says that every file opens under the key on disk (beside those races, a key wiped in the hands of a writer spoils it), and that nothing but a rotation that read the record earlier puts a destroyed key back.
`DeletionErases` says what a deletion that met no race leaves behind, which is nothing, the grant at Google included.
The comment at `voice_generation.py:284`, that a run which outlasts the deletion's wait "writes nothing", holds only if the check in `write_encrypted` comes after the row went; a job that passed it earlier writes its file, and the exception `voice` is that case.

`CustodyOneKey.cfg` finds `OneKeyPerAccount` violated: two first sign-ins of one address draw a handle each, so the co-signer admits both wraps, and the check in `create` is made before either stores.

`DraftingNothingLost.cfg` finds `NothingLost` violated, without the calendar's ACL scope: a sent message whose event was refused is passed by the cursor (`pipeline.py:69`), although the user is told that "nothing is lost: the next run tries again" (`schedule_from_sent.py:158`). The same run meets the reason that path is always taken without the scope: `calendar_api.py:103` calls `account.primary_email()`, which is a property, so the probe of the public feed raises every time.

`DaemonLoops.cfg` explores the scheduler and the intrusion reports, under fairness, composed in `DaemonLoops` as `SideBySide` composes the others; `MCDaemonLoops` gives the instance. Three jobs of three cadences, a calendar of two minutes, two hours and two days, one failing save or death of the daemon; three containers, one without a spool, two intrusions.
`RunsExplained` says a firing is run again only when the marks of a tick that ran it were not written; `CaughtUp`, that what passed while the daemon was down or busy is run; `EveryIntrusionHeard`, that a caught process ends up in the daemon's log unless its report could not be written or was in the hands of the mail container when that was ended itself.

`SideBySide.cfg` explores seventeen components that share no state, composed in `SideBySide`, whose constants are the parameters of each; `MCSideBySide` gives the instance. `part` is chosen in the initial state and says which of them a behaviour is of; the others stand still, in one initial state each, so the states are the sum of theirs and not the product. A property is asked in its own part.
The symmetry, `MCAlike`, exchanges pairs that no initial state or constant tells apart (two tabs of one browser, two threads of a process, two chats, two accounts, two messages of a kind), and all properties of the run are safety properties.

| Part | Bounds | What is asked |
|---|---|---|
| manifest | two accounts, two processes, three threads, three calls, one death | `ManifestHolds`: implements `AccountStore`, and stays loadable |
| keys | two accounts, three versions | `RecordsOpen`: every record the sweep could see opens, through rotation and retirement |
| chat | two chats, two codes, two posts, one restart | `ChangeAnswered`: a chat changes on its own answer, unless another request overtook this one |
| pending | two browsers, three tabs, four requests, one key rotation | `PendingValuesHold`: a value opens until it is returned with and then never again, but where requests overlap |
| session | two tabs, two rotations | `SessionsHold`: a form acts on the account whose page it was; moving the key signs nobody out |
| tokens | two threads, two consents | `AccessTokensHold`: after a sign-in the cached token is of the grant on disk; none is counted on for longer than Google honours it; one refresh per token |
| verdicts | two machines behind one key, one pinned | `VerdictsHold`: a pass is justified and fresh, a refusal is brief |
| client | two threads, two boots, one change of the co-signer's mode | `ClientHolds`: nothing goes out before the co-signer has said it attests; the pair on disk fits; outages are told |
| certs | two keys, three pushes, two threads | `CertsHold`: withdrawn keys go, genuine pushes are refused only for named reasons, fetches are spaced |
| drafting | a request, two mails and two sent messages of which two arrive, one turn of the model, one dash retry, one crash | `DraftingHolds`: what was saved is said; events are written to calendars that were private; an account that bans dashes gets none |
| masking | two texts of a draft out of eight, two words taken by the analyzer | `MaskingHolds`: known names stay; what comes back is what went out |
| voice | two tabs, two runs, two sign-ups, one restart | `VoiceJobsHold`: one run per account, outcomes are shown, deletions wait |
| trail | two web threads and the daemon, two changes, one fault, one crash | `TrailHolds`: changes are on record under the right origin; rows age out |
| contact | two sources, a burst of two, six messages | `ContactHolds`: neither too many nor too few over any stretch |
| providers | three providers over two keys, one change | `ProvidersHold`: mail goes where it was chosen and verified; the offer is true; alerts are spaced |
| relay | two names, two addresses, two pieces each way, a buffer of one | `RelayHolds`: an end of stream means everything was read; no byte twice; only listed names |
| handoff | two calls, no backlog, one death | `HandoffHolds`: only the two accounts are served, answers are true, the page shows vetted words |

Two of each is what every race here takes: each is between two threads, two requests or a request and a deletion. Times are as long as the longest sequence of expiries a property mentions.

Deadlock is checked in the co-signer's and the mail runs. In the others there really may be nothing left to do: a client that is not configured, no operation begun, every bounded call made.

### Fairness

`MailPipeline!FairSpec` is weak fairness of the daemon's steps together: the process is restarted by its service manager, `wait_for_wake` returns after `WAKE_POLL_SECONDS` at the latest, and the loop has no other blocking step without a timeout. Nothing is assumed of Gmail, Pub/Sub, the webhook or the renewal thread.
`Billing!FairSpec` adds the sweep, which the scheduler runs every three hours. Polar need not deliver and buyers need not return.
In `DaemonLoops` the schedule's thread is weakly fair (it sleeps at most a poll, and a dead daemon is started again), and so are each watcher, which polls every `POLL_SECONDS`, and each container's restart. Draining, logging and telling are strongly fair: the mail container may go down again and again in between, and its loop comes round every time it is up.
Faults, crashes, changes and visits are bounded, so each liveness property is about what follows when they stop.

## What is proved

Eight modules hold the proofs; each theorem is for every value of the constants that its named assumption admits. The assumptions are the shapes of the sets, that a placeholder is not one of the values it stands in for, and what the text below says. In each part `IInv`, with the part's name before it where a module has several, is the inductive invariant; TLC checks it on a small instance before it is proved.

`CoSignerProofs` proves, for every set of accounts and threads and every value of the limits, windows, retention times and bounds allowed by the named assumptions (`LimitsAssumption`, `WindowsAssumption`, `RetentionAssumption`, `ThreadsAssumption`, `RequestedAssumption`, `BoundsAssumption`): `TypeOK`, `WrapOnce`, `Ceilings`, `LimiterExact`, `KillSwitchStops`, and the refinement of `GrantLedger`.
`RetentionAssumption` is the pair of assertions at the head of `retention.prune`, which the constants in that file satisfy.

None of these invariants is inductive alone. `IInv` adds:

* `LockInv`: a thread is between its decision and its row exactly while it holds the lock;
* `LogInv`: the log and the history agree on every row young enough to be counted;
* `GrantsInv`: the grants table holds every wrap of the history;
* `CeilingsInv`: the ceilings hold over the windows that end at any time, not at grants only;
* `DecidedInv`: an admitted request is still admissible now;
* `KillInv`: a decision made before the switch is the only one that may still be granted after it.

`DecidedInv` is where the work is. The clock moves between the decision and the row, and the per-account and aggregate counts only shrink; the breadth rule exempts an account already in the window, so an account can stop being exempt as time passes. `StaysAdmissible` shows that it then leaves a free place behind. `AdmissibleKeepsCeilings` shows that an admissible row keeps every ceiling, and `LimiterIsExact` that retention, longer than every window, hides no row that counts.

`TrustProofs`, `WebTierProofs` and `BackendProofs` prove what the parts of `SideBySide` promise, as theorems of its `Spec`, for every instance that `PartsAssumption` and `BoundsAreNumbers` admit: the first is the conjunction of the parts' own assumptions, the second says of the bounds they leave out that they are numbers.
For each part a lemma, `KeysIsAPart` and its like, shows `Spec => Keys!Spec`: a step of another part leaves this one's variables alone. The rest of the argument is about the part's own actions, and would be the same about the part on its own.

* `KeyVersions`: `RecordsOpen`, for any accounts and rotations. A record opens today because its version is no older than the last finished sweep, and nothing as young as that is retired (`KeysFilesInv`, `KeysYoungInv`); while a sweep is under way the same holds of the version it began at, but for the accounts it has still to do (`KeysSweepInv`, `KeysFetchedInv`).
* `CoSignerClient`: `ClientHolds`. One thread at a time at certificate and key leaves a pair (`ClientPairInv`); an outage is told because the mark of the last alert is never later than the last time anybody told one, but while somebody is about to (`ClientMarkInv`).
* `Attestation`: `VerdictsHold`. The cache is looked up by what a report says and not by who said it, so an entry must be right for every machine that would find it (`VerdictCacheInv`); and what is on its way there was checked no longer ago than a call takes (`VerdictCallInv`).
* `SigningCerts`: `CertsHold`. The set in the cache was published when its fetch ended, and expires within the bounds of a lifetime whatever was stated (`CertsCachedInv`, `CertsLifetimeBounded`); that fetches keep the floor apart needs that only the lock's holder fetches (`CertsLockInv`).
* `Relay`: `RelayHolds`. An end of stream is passed on only after the bytes before it (`RelayEofInv`), what `select` found readable stays so until it is dealt with (`RelayReadyInv`), and the pump ends by itself only after both ends of stream were passed on (`RelayEndedInv`).
* `Handoff`: `HandoffHolds`, for any callers, from how far a connection and its caller can have got together (`HandoffTogether`).
* `Session`: `SessionsHold`. A cookie that is not of the ring's first key was issued before the last rotation (`SessionCookieInv`), so the key that falls out of the ring has signed nothing that is still accepted.
* `ChatLink`: `ChangeAnswered`. A request that is past a check still has what it checked, unless it is marked as overtaken: the chat it compared, the answer it was given (`ChatTaskInv`).
* `AuditTrail`: `TrailHolds`. How old a row may be is measured from the daemon's mark: between prunes no row is further behind it than the failures and deaths so far account for (`TrailAgeInv`).
* `ContactForm`: `ContactHolds`. What a source had accepted over a stretch and what its bucket holds now never come to more than a full bucket and the refill of the stretch (`ContactAtMost`), and to exactly that over the stretch since the bucket was last full (`ContactAtLeast`); so dropping a bucket that is full again costs nobody a message and gives nobody one.
* `PendingValues`: `PendingValuesHold`. In a browser whose requests do not overlap the request on its way carries the jar as it is (`PendingAlone`), so an answer sets what the jar has less what was spent (`PendingSpent`, `PendingToCome`); and an entry has its place among the newest because every entry of a jar is out in a link, or will be when the answer arrives (`PendingOwn`).
* `Manifest`: `ManifestHolds`: every step is a step of `AccountStore` or leaves the file alone, and what it leaves can be loaded. Whoever is between lock and rename holds the file's lock, and the holder's copy is the file, or one operation away from it (`ManifestCopyInv`). That no two accounts come to share a handle needs `ManifestHandleInv`, because a handle is looked up or drawn before any lock is taken: no handle in a waiting thread's hand is, or is about to become, another account's.
* `AccessTokens`: `AccessTokensHold`. What a thread inside the lock refreshes with is the consent on disk, except between the moment a sign-in has settled and the moment it drops the cache (`TokenGrantInv`); a token waits no longer than a call takes for the clock to be read (`TokenHandInv`).
* `Providers`: `ProvidersHold`. A client is for the choice of the account it was built from and for keys of this daemon's, and an enclave's was verified (`ProviderClientInv`); a daemon that is down has loaded no account (`ProviderDownInv`).
* `Voice`: `VoiceJobsHold`. A job that runs has a thread and the thread has the job (`VoiceJobsInv`, `VoiceThreadsInv`); of every other run it is known what became of its outcome (`VoiceOutcomeInv`).
* `Drafting`: `DraftingHolds`, for any messages and crashes. Of every draft in the mailbox it is known who has said it or still will: it was announced or reported, a dead pass left it, it waits for this pass's announcement, or it is the placeholder of the request being answered (`DraftsAccounted`). An event's calendar is private enough because an answer is stored within a call of being asked for, used within its lifetime, and the write takes a call more (`DraftCalendarInv`).
* `TypesOK` of every part but `Masking`, in three theorems, one for the parts of each module (`TrustKeepsItsTypes`, `WebTierKeepsItsTypes`, `BackendKeepsItsTypes`). A part's invariant above has most of its `TypeOK`; what it lacks is inductive beside it. Some of that is more than shapes. A cookie never carries more than `MAX_PENDING` entries although each answer adds to what its request brought, since what is set is cut to the newest there (`PendingSmall`); a token in a cache or a hand is of a consent given so far, which a thread between releasing the key and posting has to know of its grant (`TokenFit`), and only who holds the token lock is inside it (`TokenHeld`); the owner of a mailbox holds only codes that were minted (`ChatMinted`); a message in the drafter's hands takes no more turns and dash retries than their limits (`DraftWork`).

Several attempts corrected the model or an assumption. `RowsAge` had allowed a dead process nothing; the proof needs a round of the loop for each death, since the one that died may have been about to prune, and with `WAKE_POLL` above 1 the earlier bound is false (the instance has 1, and did not show it). `Providers` needs a finite catalogue, which the code's dictionary is. `Session` and `Voice` need that lifetimes and bounds are numbers, and `Voice` that no job is `None`. `Drafting` needs that a message takes one path only, which `history_list` (INBOX, else SENT) and `is_bot_request` see to. `ChatLink` needs that `None` is no request under way, and `AccessTokens` that its bound admits the consent it begins with.

`BillingProofs` proves `TypeOK`, `EventsAccounted` and `PlansGuarded`, for any accounts, customers, subscriptions, return pages and retries. That an event is dropped after exactly `MAX_ATTEMPTS` failures needs more than the counter on the entry: a delivery is in one place at a time, so that nobody else is retrying it (`OnePlace`), and the entry's counter is the number of failures it had (`Counted`). That an account no purchase names is never gated off needs `Sold`: no hand, sweep or return page ever carries such an account, because neither a stamp, nor a link, nor an address leads to it.

`MailPipelineProofs` proves `TypeOK`, `NoMailSkipped` and `RepeatsExplained`, for any accounts, webhook threads, renewers and messages. The cursor on disk alone does not carry the argument, since a pass and a renewal hold one each in memory while the file is truncated. `SkipInv` says of every cursor somebody may still write, the file's, the pass's and each renewal's, that what lies behind it was drafted for, is lost for a named reason, or is still in the pass's hands; a half-written file needs nothing said, because nobody reads a cursor from it. `CursorsInv` keeps cursors behind the mailbox and the pass's messages between its two ends. `RepeatInv` counts: a message ahead of the stored cursor was handled no oftener than its account had interruptions and rewinds, unless the pass has just done it.

`CustodyProofs` proves `TypeOK`, `NeverLockedOut`, `FilesHold` and `DeletionErases`, for any number of threads, keys, operations, lost answers and crashes. `CustodyAssumption` asks for one key at least, and that `None` is no handle, no key and no record. The properties speak of an account at rest; what carries them is what each thread at work relies on.

* `HandlesDrawn` and `KeysMinted`: handles and keys come from their counters, a key about to be stored is nobody else's and was not destroyed, and one about to be restored was destroyed only under the scar of a rotation.
* `Marked`: a deletion and another thread are at work together only under that thread's scar. It is the reason an empty `scars` can stand for "nothing overlapped".
* `LockInv`, while no scar excuses it: every thread's handle is the row's (`Ours`); without a row there is one first sign-in or a deletion finishing (`Alone`); a record is of the row's handle, and a spent wrap without a record has a thread about to store it (`AccountHas`).
* `FileInv`: files, caches and hands hold the record's key, and after the deletion forgot it, none.
* `ReleaseInv`: a grant stands only while the token file or a sign-in about to register does, so what the daemon's part of a deletion withdrew is not asked for again.

`DaemonLoopsProofs` proves `RunsExplained`, `TypesOK` and two facts no run states, for any calendar, jobs, accounts, containers and bounds that `LoopsAssumption` admits.

* `DueExactlyWhenFired`: the search of `next_after` goes as far as `HORIZON_HOURS`, and that is always far enough: it finds the first firing after a moment (`NextAfterIsFirst`), for hours, days and weeks of any length, so for the real calendar, which TLC cannot explore. It rests on every remainder being met among as many numbers in a row as there are (`Recurs`).
* `RunsExplained`: a run that is not lost has its job quiet since the mark in the file (`ScheduleFileInv`), or, while a tick is under way, since the mark in the copy it will write (`ScheduleMarksInv`); so whatever is still waiting in a tick had no such run (`ScheduleWaiting`). A missing mark makes nothing due.
* `ReportsAreKept`: a report once written stays in a spool, in the daemon's hand or in its log until it is counted as swallowed. That the operator is told only what is logged needs that what is in hand while telling is logged already (`IntrusionIInv`).

Only model-checked: `MaskingHolds` of `SideBySide.cfg`, which says what folds over every text and name come to; the `TypesOK` of `Masking`, for the same reason; liveness under fairness, `WakeServed`, `PlanConverges`, `CaughtUp` and `EveryIntrusionHeard`, which is outside the prover's reach, like ENABLED; and anything else by induction over data.

## What else the code does

`Drafting!PassEnds` (a pass comes to its end, however the model answers) holds under `Drafting!FairSpec` in the bounds of `DraftingNothingLost.cfg`, and is in no run.

The rest was seen while modelling; each is stated as a property in its module where one is named, and TLC refutes it, but no run is spent on it.

* Watch renewal: two renewals of an account without a cursor (a sign-in and the scheduler, or two sign-ins) can each ask Gmail and then find the file without a cursor. The second writes its own `historyId`, and what the mailbox received between the two calls is never drafted for, although `watch_renew.py:17-18` says that a renewal never "drops unprocessed history". The proof of `NoMailSkipped` failed at that step; the model names those messages `registered-again`.
* `AccessTokens!ServicesFollowSignUp`: `forget_services()` clears the clients of the thread it runs on, a handoff thread; the daemon's threads keep a deleted account's handle after its address signs up again, and their refreshes fail until a restart.
* `ChatLink!ChatAskedIsChatReplaced`: the chat is compared before Telegram is asked and written after; two tabs that finish at once can replace a chat on the other's answer. `getUpdates` returns a hundred updates at most, so a code behind more of them is not found.
* `PendingValues!SecondTabKeepsFirst`: two overlapping requests of one browser can lose a pending value, or spend one twice.
* `Providers!OfferedCanBeChosen`: `account.set_settings` asserts that the chosen provider is configured, in a web process that its deployment gives no inference keys, although `web_server.py:1333-1345` and `handoff.py` say it need not hold them. The offer is cached, and goes stale when the daemon is restarted with other keys; a choice changed during a pass is honoured by the next one.
* Co-signer client: the co-signer's mode is asked once; `reset_cache` has no caller; malformed answers and a refusal by the guest agent alert nobody; the alert's window is spent even if sending fails; two threads can alert at once. The co-signer's own alert cooldown is read and written outside the lock.
* Webhook: a fetch that fails is not dated, so every push with an unknown key fetches again, although the docstring says one per floor; a genuine push under a fresh key gets 401 within the floor or when its own refetch failed. A pass whose fetch fails is not retried before the account's next push.
* Scheduler: a clock set back leaves marks in the future; a tick whose marks cannot be saved runs its jobs again at every poll.
* Custody: if the audit row cannot be written after the manifest's row went (`account.py:952`), key and files stay. `rotate` prints a count only.
* Handoff: a deletion's withdrawal may take longer than its caller waits, and then goes on; a request whose caller gave up is still carried out; a `TypeError` inside a handler is answered as a malformed request though it may have changed things; a listener thread that dies leaves the daemon deaf; some pages do not catch `RemoteRefusal`.
* Voice: a job's age counts from its start, so the outcome of a long one may be pruned before it is shown; a page clears whatever is there, not what it saw; a run asked for between the deletion's wait and the row's removal is not waited for.
* Masking: a contact who bears the owner's last name is taken apart before contacts are looked for; an analyzer that takes a placed tag for a name tags it twice; one word can get two tags when two persons turn out to be one.
* Audit trail: a prune that fails raises after the row was saved, and spends the interval; changes the daemon makes for a browser have no origin.
* Contact form: the page says received although Telegram may refuse; a restart forgets the buckets.
* Relay: a blocked send towards one end stalls both directions for up to `IDLE_TIMEOUT`, which also cuts a long silence of the model; an error on one direction drops the other's bytes.

## Plan

Done: every component above whose state can go wrong over time, the two abstract specifications (`GrantLedger`, `AccountStore`), the refinements of them, and the proofs above.

Next, in this order:

1. Composition: `Custody` with two accounts and the handoff's timeouts; the scheduler's jobs as the actions of `MailPipeline` and `Billing` they already are.
2. Billing's events without a stamp and one-off orders; the updates of Telegram in pages.

## Not modelled

Cryptography, HTTP and parsing are taken at their interface: a signature verifies or does not. External services (Gmail, Google's token endpoint, Pub/Sub, Polar, Telegram, the models) appear as the actions this code depends on and are marked external in the map.
Left out, each with its reason in `PROJECT.json`: the Polar client and the requests to Gmail and Calendar that keep no state; prompts, rendering and static pages; the kernel filter and the process listing; sealing key files to a host; the order of the boot gate's messages; the accept loops of the proxies and the client's own tunnel; file locations; operator commands that only print; deployment scripts, diagrams and tools, which run at build time.

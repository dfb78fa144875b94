----------------------------- MODULE SideBySide -----------------------------
(***************************************************************************)
(* The components that share no state, side by side: a behaviour is one    *)
(* component's from beginning to end, as `part` says, and the others stay  *)
(* where they begin.  One specification in the place of one for each.      *)
(***************************************************************************)
EXTENDS Naturals, FiniteSets

CONSTANTS
  None,
  Accounts, MAX_VERSION,                               \* KeyVersions, Session
  Addresses, StoredChats, Customers, MaxAccounts, StoreProcesses, StoreThreads,
  StoreProcessOf, MaxCalls,                            \* Manifest
  Chats, PendingTTL, FreshSeconds, MaxCodes, MaxPosts, \* ChatLink
  PendingBrowsers, PendingTabs, PendingBrowserOf, MaxPending, ValueTTL, MaxRequests,
  PendingRotations,                                    \* PendingValues
  Browsers, Tabs, BrowserOf, SessionTTL, SessionRotations,
  Life, EXPIRY_MARGIN, MaxConsents,                    \* AccessTokens
  Machines, Pinned, AddressOf, Files, Authorized, RECHECK_SECONDS,
  FAILURE_RECHECK_SECONDS, MaxActions,                 \* Attestation
  Requests, Mail, Sent, MAX_ITERATIONS, MAX_EM_DASH_RETRIES, SHARING_TTL, AclScope,
  MaxArrivals,                                         \* Drafting
  Lower(_), Owner, Aliases, Surname, Reached, Contacts, Stopwords, Patterned, Nonce,
  DraftTexts, MaxTexts, MaxTaken,                      \* Masking
  VoiceAccounts, AccountOf, JOB_RETENTION, AWAIT_TIMEOUT, MaxRuns, MaxSignUps,
  CERTS_TTL_MIN, CERTS_TTL_MAX, CERTS_REFETCH_FLOOR, CERTS_FETCH_TIMEOUT, Stated,
  MaxKeys, MaxPushes,                                  \* SigningCerts
  ALERT_INTERVAL, MaxBoots, MaxClientCalls, MaxModes,  \* CoSignerClient
  Sources, RETENTION, PRUNE_INTERVAL, WAKE_POLL, MaxChanges, MaxFaults, \* AuditTrail
  FormSources, CONTACT_BURST, CONTACT_REFILL_SECONDS, MaxFormPosts,
  Catalogue, DEFAULT_PROVIDER, Confidential, KeyOf, COOLDOWN, MaxModelChanges,
  Names, Listed, DialAddresses, Routable, BUF, MaxPieces,  \* Relay
  HandoffCalls, Ops, BACKLOG, MaxDeaths,               \* Handoff
  Workers,      \* the threads of a process that serves many requests at once
  Loops,        \* the daemon's own threads
  Daemon,       \* the one of its main loop
  Delay,        \* bound: how long a call out may take
  LastTimes,    \* bound: part -> when its clock stops
  MaxCrashes, MaxRestarts    \* bounds

VARIABLES
  part,  \* which component the behaviour is one of
  files, deployed, KEY_VERSION, cached, answers, record, rows, sweep, fetched, since,
  rotated, missed,
  manifest, tmp, threadLock, fileLock, storeAt, looked, data, calls,
  storeCrashes,
  registered, chat, pending, proven, chatNow, codes, held, posts, task,
  restarts, changed,
  purpose, webNow, webRing, jar, sent, request, links, begunIn, acceptedIn,
  returned, cleared, raced,
  sessionNow, sessionRing, cookie, page, members, rotatedAt,
  now, handle, grant, live, cache, lock, services, at, hand, op, used, torn,
  quoteNow, verifier, allowlist, healthy, reachable, log, verdictsKept,
  quoteAt, report, answer,
  clock, shared, sharedSince, arrived, behind, taken, batch, ban, pc, msg,
  turn, retry, body, askedAt, draft, orphans, drafted, told, failed,
  sharing, scheduled, promised, crashes,
  analyzer, persons, tokens, names, pindex, seen, mapping, texts, masked,
  retagged,
  voiceNow, row, jobs, threads, voicePage, voiceRestarts, runs, forgotten,
  certsNow, signing, published, gone, certsCached, certsLock, push, arrivals, last,
  hurried,
  clientNow, mode, modes, wrong, running, boots, checked, identity, cert, key,
  lastAlert, thread, requests, minted, heardMode, alerted, crowded, silent,
  trailNow, origin, serves, writing, events, lastPrune, lastPass, made, faults,
  dbCrashes,
  formNow, buckets, accepted, refused, sends,
  config, split, env, offered, moved, settings, saved, chosen, choice, llm, serving,
  genuine, letter, once, rings, llmNow, changes,
  proxy, phase, asked, found, dialled, why, written, read, shut, vanished, inbox,
  outbox, eof, watched, ready, inHand,
  webUser, step, path, admits, deaths, asks, uid, caller, conn, done, shown

keysVars == <<files, deployed, KEY_VERSION, cached, answers, record, rows, sweep,
  fetched, since, rotated, missed>>
manifestVars == <<manifest, tmp, threadLock, fileLock, storeAt, looked, data,
  calls, storeCrashes>>
chatVars == <<registered, chat, pending, proven, chatNow, codes, held, posts,
  task, restarts, changed>>
pendingVars == <<purpose, webNow, webRing, jar, sent, request, links, begunIn,
  acceptedIn, returned, cleared, raced>>
sessionVars == <<sessionNow, sessionRing, cookie, page, members, rotatedAt>>
tokensVars == <<now, handle, grant, live, cache, lock, services, at, hand, op,
  used, torn>>
verdictsVars == <<quoteNow, verifier, allowlist, healthy, reachable, log,
  verdictsKept, quoteAt, report, answer>>
draftingVars == <<clock, shared, sharedSince, arrived, behind, taken, batch,
  ban, pc, msg, turn, retry, body, askedAt, draft, orphans, drafted, told,
  failed, sharing, scheduled, promised, crashes>>
maskingVars == <<analyzer, persons, tokens, names, pindex, seen, mapping, texts,
  masked, retagged>>
voiceVars == <<voiceNow, row, jobs, threads, voicePage, voiceRestarts, runs,
  forgotten>>
certsVars == <<certsNow, signing, published, gone, certsCached, certsLock, push,
  arrivals, last, hurried>>
clientVars == <<clientNow, mode, modes, wrong, running, boots, checked, identity,
  cert, key, lastAlert, thread, requests, minted, heardMode, alerted, crowded,
  silent>>
trailVars == <<trailNow, origin, serves, writing, events, lastPrune, lastPass, made,
  faults, dbCrashes>>
contactVars == <<formNow, buckets, accepted, refused, sends>>
llmVars == <<config, split, env, offered, moved, settings, saved, chosen, choice, llm, serving,
  genuine, letter, once, rings, llmNow, changes>>
relayVars == <<proxy, phase, asked, found, dialled, why, written, read, shut, vanished, inbox,
  outbox, eof, watched, ready, inHand>>
handoffVars == <<webUser, step, path, admits, deaths, asks, uid, caller, conn, done, shown>>

Keys == INSTANCE KeyVersions

Manifests == INSTANCE Manifest WITH
  Chats <- StoredChats, Processes <- StoreProcesses, Threads <- StoreThreads,
  ProcessOf <- StoreProcessOf, at <- storeAt, crashes <- storeCrashes

Chat == INSTANCE ChatLink WITH
  Threads <- Workers, LastTime <- LastTimes.chat, now <- chatNow

Pending == INSTANCE PendingValues WITH
  Browsers <- PendingBrowsers, Tabs <- PendingTabs, BrowserOf <- PendingBrowserOf,
  TTL <- ValueTTL, MaxRotations <- PendingRotations,
  LastTime <- LastTimes.pending, now <- webNow, ring <- webRing

Web == INSTANCE Session WITH
  MaxRotations <- SessionRotations, LastTime <- LastTimes.session,
  now <- sessionNow, ring <- sessionRing, manifest <- members

Tokens == INSTANCE AccessTokens WITH
  Threads <- Workers, LastTime <- LastTimes.tokens

Quotes == INSTANCE Attestation WITH
  Threads <- Loops, LastTime <- LastTimes.verdicts,
  now <- quoteNow, cache <- verdictsKept, at <- quoteAt

Drafts == INSTANCE Drafting WITH
  LastTime <- LastTimes.drafting, cache <- sharing, since <- askedAt

Masks == INSTANCE Masking WITH Given <- DraftTexts, sent <- masked

Voices == INSTANCE Voice WITH
  Accounts <- VoiceAccounts, LastTime <- LastTimes.voice,
  clock <- voiceNow, page <- voicePage, restarts <- voiceRestarts

Certs == INSTANCE SigningCerts WITH
  Threads <- Workers, LastTime <- LastTimes.certs,
  now <- certsNow, cached <- certsCached, lock <- certsLock

Client == INSTANCE CoSignerClient WITH
  Threads <- Workers, LastTime <- LastTimes.client, MaxCalls <- MaxClientCalls,
  clock <- clientNow, calls <- requests, told <- heardMode

Trail == INSTANCE AuditTrail WITH
  WebThreads <- Workers, LastTime <- LastTimes.trail,
  clock <- trailNow, at <- writing, crashes <- dbCrashes

Contact == INSTANCE ContactForm WITH
  Sources <- FormSources, MaxPosts <- MaxFormPosts, LastTime <- LastTimes.contact,
  clock <- formNow, posts <- sends

Models == INSTANCE Providers WITH
  Threads <- Loops, MaxChanges <- MaxModelChanges, LastTime <- LastTimes.providers,
  page <- settings, answer <- saved, account <- choice, client <- llm, sent <- letter,
  now <- llmNow

Relays == INSTANCE Relay WITH
  Addresses <- DialAddresses, gone <- vanished, hand <- inHand

Handoffs == INSTANCE Handoff WITH
  Calls <- HandoffCalls, op <- asks, page <- shown

Init ==
  /\ part \in {"keys", "manifest", "chat", "pending", "session", "tokens", "verdicts", "drafting",
             "masking", "voice", "certs", "client", "trail", "contact",
             "providers", "relay", "handoff"}
  /\ Keys!Init /\ Web!Init /\ Tokens!Init /\ Drafts!Init /\ Voices!Init /\ Certs!Init
  /\ Trail!Init /\ Contact!Init
  /\ Manifests!Init /\ (part # "manifest" => Manifests!Registered(manifest) = {})
  /\ Chat!Init /\ (part # "chat" => ~registered)
  /\ Pending!Init /\ (part # "pending" => purpose = Pending!CONSENT)
  /\ Quotes!Init
  /\ part # "verdicts" => /\ verifier = "inference"
                         /\ allowlist = [mode |-> "required", entries |-> TRUE, expires |-> None]
  /\ Masks!Init /\ (part # "masking" => ~analyzer)
  /\ Client!Init /\ (part # "client" => mode = Client!REQUIRED /\ wrong = {})
  /\ Models!Init /\ (part # "providers" => config = {} /\ ~split)
  /\ Relays!Init /\ (part # "relay" => proxy = "ingress")
  /\ Handoffs!Init /\ (part # "handoff" => webUser /\ ~path)

Next ==
  \/ part = "keys" /\ Keys!Next
     /\ UNCHANGED <<part, manifestVars, chatVars, pendingVars, sessionVars,
                    tokensVars, verdictsVars, draftingVars, maskingVars,
                    voiceVars, certsVars, clientVars, trailVars, contactVars,
                    llmVars, relayVars, handoffVars>>
  \/ part = "manifest" /\ Manifests!Next
     /\ UNCHANGED <<part, keysVars, chatVars, pendingVars, sessionVars,
                    tokensVars, verdictsVars, draftingVars, maskingVars,
                    voiceVars, certsVars, clientVars, trailVars, contactVars,
                    llmVars, relayVars, handoffVars>>
  \/ part = "chat" /\ Chat!Next
     /\ UNCHANGED <<part, keysVars, manifestVars, pendingVars, sessionVars,
                    tokensVars, verdictsVars, draftingVars, maskingVars,
                    voiceVars, certsVars, clientVars, trailVars, contactVars,
                    llmVars, relayVars, handoffVars>>
  \/ part = "pending" /\ Pending!Next
     /\ UNCHANGED <<part, keysVars, manifestVars, chatVars, sessionVars,
                    tokensVars, verdictsVars, draftingVars, maskingVars,
                    voiceVars, certsVars, clientVars, trailVars, contactVars,
                    llmVars, relayVars, handoffVars>>
  \/ part = "session" /\ Web!Next
     /\ UNCHANGED <<part, keysVars, manifestVars, chatVars, pendingVars,
                    tokensVars, verdictsVars, draftingVars, maskingVars,
                    voiceVars, certsVars, clientVars, trailVars, contactVars,
                    llmVars, relayVars, handoffVars>>
  \/ part = "tokens" /\ Tokens!Next
     /\ UNCHANGED <<part, keysVars, manifestVars, chatVars, pendingVars,
                    sessionVars, verdictsVars, draftingVars, maskingVars,
                    voiceVars, certsVars, clientVars, trailVars, contactVars,
                    llmVars, relayVars, handoffVars>>
  \/ part = "verdicts" /\ Quotes!Next
     /\ UNCHANGED <<part, keysVars, manifestVars, chatVars, pendingVars,
                    sessionVars, tokensVars, draftingVars, maskingVars,
                    voiceVars, certsVars, clientVars, trailVars, contactVars,
                    llmVars, relayVars, handoffVars>>
  \/ part = "drafting" /\ Drafts!Next
     /\ UNCHANGED <<part, keysVars, manifestVars, chatVars, pendingVars,
                    sessionVars, tokensVars, verdictsVars, maskingVars,
                    voiceVars, certsVars, clientVars, trailVars, contactVars,
                    llmVars, relayVars, handoffVars>>
  \/ part = "masking" /\ Masks!Next
     /\ UNCHANGED <<part, keysVars, manifestVars, chatVars, pendingVars,
                    sessionVars, tokensVars, verdictsVars, draftingVars,
                    voiceVars, certsVars, clientVars, trailVars, contactVars,
                    llmVars, relayVars, handoffVars>>
  \/ part = "voice" /\ Voices!Next
     /\ UNCHANGED <<part, keysVars, manifestVars, chatVars, pendingVars,
                    sessionVars, tokensVars, verdictsVars, draftingVars,
                    maskingVars, certsVars, clientVars, trailVars,
                    contactVars, llmVars, relayVars, handoffVars>>
  \/ part = "certs" /\ Certs!Next
     /\ UNCHANGED <<part, keysVars, manifestVars, chatVars, pendingVars,
                    sessionVars, tokensVars, verdictsVars, draftingVars,
                    maskingVars, voiceVars, clientVars, trailVars,
                    contactVars, llmVars, relayVars, handoffVars>>
  \/ part = "client" /\ Client!Next
     /\ UNCHANGED <<part, keysVars, manifestVars, chatVars, pendingVars,
                    sessionVars, tokensVars, verdictsVars, draftingVars,
                    maskingVars, voiceVars, certsVars, trailVars,
                    contactVars, llmVars, relayVars, handoffVars>>
  \/ part = "trail" /\ Trail!Next
     /\ UNCHANGED <<part, keysVars, manifestVars, chatVars, pendingVars,
                    sessionVars, tokensVars, verdictsVars, draftingVars,
                    maskingVars, voiceVars, certsVars, clientVars,
                    contactVars, llmVars, relayVars, handoffVars>>
  \/ part = "contact" /\ Contact!Next
     /\ UNCHANGED <<part, keysVars, manifestVars, chatVars, pendingVars,
                    sessionVars, tokensVars, verdictsVars, draftingVars,
                    maskingVars, voiceVars, certsVars, clientVars, trailVars,
                    llmVars, relayVars, handoffVars>>
  \/ part = "providers" /\ Models!Next
     /\ UNCHANGED <<part, keysVars, manifestVars, chatVars, pendingVars,
                    sessionVars, tokensVars, verdictsVars, draftingVars,
                    maskingVars, voiceVars, certsVars, clientVars, trailVars,
                    contactVars, relayVars, handoffVars>>
  \/ part = "relay" /\ Relays!Next
     /\ UNCHANGED <<part, keysVars, manifestVars, chatVars, pendingVars,
                    sessionVars, tokensVars, verdictsVars, draftingVars,
                    maskingVars, voiceVars, certsVars, clientVars, trailVars,
                    contactVars, llmVars, handoffVars>>
  \/ part = "handoff" /\ Handoffs!Next
     /\ UNCHANGED <<part, keysVars, manifestVars, chatVars, pendingVars,
                    sessionVars, tokensVars, verdictsVars, draftingVars,
                    maskingVars, voiceVars, certsVars, clientVars, trailVars,
                    contactVars, llmVars, relayVars>>

vars == <<part, keysVars, manifestVars, chatVars, pendingVars, sessionVars,
          tokensVars, verdictsVars, draftingVars, maskingVars, voiceVars,
          certsVars, clientVars, trailVars, contactVars, llmVars, relayVars,
          handoffVars>>

Spec == Init /\ [][Next]_vars

ASSUME PartsAssumption ==
  /\ Keys!KeyVersionsAssumption /\ Chat!ChatLinkAssumption /\ Pending!PendingValuesAssumption
  /\ Manifests!ManifestAssumption /\ Web!SessionAssumption
  /\ Tokens!AccessTokensAssumption
  /\ Quotes!AttestationAssumption /\ Drafts!DraftingAssumption
  /\ Voices!VoiceAssumption /\ Certs!SigningCertsAssumption
  /\ Client!CoSignerClientAssumption /\ Trail!AuditTrailAssumption
  /\ Contact!ContactFormAssumption /\ Models!ProvidersAssumption
  /\ Relays!RelayAssumption /\ Handoffs!HandoffAssumption

\* The bounds the parts' own assumptions do not speak of are numbers.
ASSUME BoundsAreNumbers ==
  {LastTimes.chat, LastTimes.pending, LastTimes.verdicts, LastTimes.drafting,
   LastTimes.voice, MaxRequests, PendingRotations, MaxCodes} \subseteq Nat

-------------------------------------------------------------------------------
(* The components' properties, as they stand in their modules.                 *)

\* Each component's variables keep their shape.
TypesOK ==
  /\ part = "keys" => Keys!TypeOK
  /\ part = "manifest" => Manifests!TypeOK
  /\ part = "chat" => Chat!TypeOK
  /\ part = "pending" => Pending!TypeOK
  /\ part = "tokens" => Tokens!TypeOK
  /\ part = "verdicts" => Quotes!TypeOK
  /\ part = "drafting" => Drafts!TypeOK
  /\ part = "masking" => Masks!TypeOK
  /\ part = "voice" => Voices!TypeOK
  /\ part = "certs" => Certs!TypeOK
  /\ part = "client" => Client!TypeOK
  /\ part = "trail" => Trail!TypeOK
  /\ part = "contact" => Contact!TypeOK
  /\ part = "providers" => Models!TypeOK
  /\ part = "relay" => Relays!TypeOK
  /\ part = "handoff" => Handoffs!TypeOK

RecordsOpen       == part = "keys" => Keys!RecordsOpen
PendingValuesHold == part = "pending" => Pending!PendingValuesHold
VerdictsHold      == part = "verdicts" => Quotes!VerdictsHold
VoiceJobsHold     == part = "voice" => Voices!VoiceJobsHold
CertsHold         == part = "certs" => Certs!CertsHold
ClientHolds       == part = "client" => Client!ClientHolds
TrailHolds        == part = "trail" => Trail!TrailHolds
RelayHolds        == part = "relay" => Relays!RelayHolds
HandoffHolds      == part = "handoff" => Handoffs!HandoffHolds

\* Of a step, each is asked only in its own part.
ManifestHolds    == Manifests!AccountsStore!Init
                    /\ [][part = "manifest" => Manifests!ManifestStep]_manifestVars
ChangeAnswered   == [][part = "chat" => Chat!ChangeStep]_chatVars
SessionsHold     == [][part = "session" => Web!SessionStep]_sessionVars
AccessTokensHold == [][part = "tokens" => Tokens!AccessTokensStep]_tokensVars
DraftingHolds    == [][part = "drafting" => Drafts!DraftingStep]_draftingVars
MaskingHolds     == [][part = "masking" => Masks!MaskingStep]_maskingVars
ContactHolds     == [][part = "contact" => Contact!ContactStep]_contactVars
ProvidersHold    == [][part = "providers" => Models!ProvidersStep]_llmVars
===============================================================================

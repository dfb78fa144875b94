----------------------------- MODULE Providers -----------------------------
(***************************************************************************)
(* Where an account's mail is read by a model: the catalogue of inference  *)
(* providers and the client built for an account                           *)
(* (backend/integrations/llm_client.py), the choice a user makes on the    *)
(* settings page (frontend/web_server.py), which asks the daemon what it   *)
(* has keys for (backend/custody/handoff.py) and saves the answer itself   *)
(* (backend/accounts/account.py), and the word to the operator when a      *)
(* provider stops serving (backend/integrations/telegram.py).              *)
(*                                                                         *)
(* A process takes its keys from its environment when it starts and never  *)
(* again; the operator changes the configuration under it.                 *)
(***************************************************************************)
EXTENDS Naturals, FiniteSets

CONSTANTS
  Catalogue, DEFAULT_PROVIDER,
  KeyOf,       \* Catalogue -> the name of the key it is reached with
  Confidential,  \* those that attest
  Threads,     \* of the daemon, that ask a model something
  None,
  COOLDOWN,    \* ALERT_COOLDOWN_SECONDS, in ticks
  MaxChanges, LastTime   \* bounds

Keys == {KeyOf[p] : p \in Catalogue}

ProvidersAssumption ==
  /\ IsFiniteSet(Catalogue)
  /\ DEFAULT_PROVIDER \in Catalogue \ Confidential /\ Confidential \subseteq Catalogue
  /\ None \notin Catalogue /\ COOLDOWN \in Nat \ {0}

VARIABLES
  config,    \* the keys the operator has configured for the mail role
  split,     \* the web role is given none of them, as the compose file has it
  env,       \* process -> the keys it started with, or None while it is down
  offered,   \* what the web process remembers the daemon's answer was
  moved,     \* the daemon has come back with other keys since that answer
  page,      \* the providers on the settings page the browser holds
  answer,    \* what the last post was answered
  chosen,    \* the account's inference_provider
  account,   \* thread -> the choice in the account it loaded
  client,    \* thread -> the provider its client is for
  serving,   \* the providers whose account with them is in order
  genuine,   \* the confidential providers that run what was reviewed
  sent,      \* the last letter sent: its account's choice, the daemon's keys,
             \* the provider and whether that was verified, or None
  once,      \* provider -> when the operator was last told of it, or None
  rings,     \* provider -> how often since the daemon started, and when last
  now, changes

webVars    == <<offered, moved, page, answer, chosen>>
daemonVars == <<account, client, sent>>
alerts == <<once, rings>>
world == <<config, split, env, serving, genuine, now, changes>>
vars  == <<world, webVars, daemonVars, alerts>>

\* The providers a process can reach with these keys.
Configured(keys) == {p \in Catalogue : KeyOf[p] \in keys}

Idle == [t \in Threads |-> None]

Init ==
  /\ config \in SUBSET Keys /\ split \in BOOLEAN
  /\ env = [daemon |-> config, web |-> IF split THEN {} ELSE config]
  /\ offered = None /\ moved = FALSE /\ page = {} /\ answer = None /\ chosen = None
  /\ account = Idle /\ client = Idle /\ sent = None
  /\ serving = Catalogue /\ genuine = Confidential
  /\ once = [p \in Catalogue |-> None] /\ rings = [p \in Catalogue |-> <<0, None>>]
  /\ now = 0 /\ changes = 0

-----------------------------------------------------------------------------
\* The settings page.

\* The daemon is asked once in the life of the web process; a daemon that is
\* down is not remembered.
Ask ==
  /\ offered # None \/ env.daemon # None
  /\ offered' = IF offered # None THEN offered ELSE Configured(env.daemon)
  /\ moved' = (offered # None /\ moved)

\* No choice is shown where there is none.
Show ==
  /\ Ask
  /\ page' = IF Cardinality(offered') < 2 THEN {} ELSE offered'
  /\ UNCHANGED <<answer, chosen, world, daemonVars, alerts>>

\* account.set_settings, in the web process: what the user picked must be a
\* provider this process has the key for.
SetSettings(p) ==
  IF p = None THEN answer' = "saved" /\ UNCHANGED chosen
  ELSE IF p \in Configured(env.web) THEN answer' = "saved" /\ chosen' = p
  ELSE answer' = "raised" /\ UNCHANGED chosen

Post(p) ==
  /\ \/ p \in page
     \/ p = None /\ page = {}
  /\ \/ /\ Ask
        /\ IF p = None \/ p \in offered' THEN SetSettings(p)
           ELSE answer' = "not offered" /\ UNCHANGED chosen
     \/ /\ offered = None /\ env.daemon = None
        /\ answer' = "unavailable" /\ UNCHANGED <<offered, moved, chosen>>
  /\ UNCHANGED <<page, world, daemonVars, alerts>>

-----------------------------------------------------------------------------
\* A pass, a draft or a voice profile in the daemon.

Load(t) ==
  /\ env.daemon # None /\ account[t] = None
  /\ account' = [account EXCEPT ![t] = [choice |-> chosen]]
  /\ UNCHANGED <<client, sent, webVars, alerts, world>>

\* The provider for a choice, among those this process can reach.
ResolveAnyway(choice, reachable) ==
  IF choice \in reachable THEN {choice}
  ELSE IF DEFAULT_PROVIDER \in reachable THEN {DEFAULT_PROVIDER}
  ELSE IF Cardinality(reachable) = 1 THEN reachable ELSE {}
Resolve(choice, reachable) ==
  IF choice # None THEN {choice} \cap reachable
  ELSE IF DEFAULT_PROVIDER \in reachable THEN {DEFAULT_PROVIDER}
  ELSE IF Cardinality(reachable) = 1 THEN reachable ELSE {}

\* make_client: nothing is built for a choice that cannot be honoured, or for
\* an enclave that cannot be verified.
MakeClient(t) ==
  /\ account[t] # None /\ client[t] = None
  /\ \E p \in Resolve(account[t].choice, Configured(env.daemon)) :
       /\ p \in Confidential => p \in genuine
       /\ client' = [client EXCEPT ![t] = [provider |-> p, checked |-> p \in genuine]]
  /\ UNCHANGED <<account, sent, webVars, alerts, world>>

\* The work is given up or done with: the next begins from the account again.
Finish(t) ==
  /\ account[t] # None
  /\ account' = [account EXCEPT ![t] = None] /\ client' = [client EXCEPT ![t] = None]
  /\ UNCHANGED <<sent, webVars, alerts, world>>

\* complete(): answered, or refused until a person acts.
Complete(t) ==
  /\ client[t] # None /\ client[t].provider \in serving
  /\ sent' = [choice |-> account[t].choice, keys |-> env.daemon,
              provider |-> client[t].provider, checked |-> client[t].checked]
  /\ UNCHANGED <<account, client, webVars, alerts, world>>

\* notify_once: looked up and marked under one lock, sent after it, whether or
\* not the sending works.
Due(p) == once[p] = None \/ now - once[p] >= COOLDOWN
ProviderRefuses(t) ==
  /\ client[t] # None /\ client[t].provider \notin serving
  /\ LET p == client[t].provider IN
       IF Due(p)
       THEN /\ once' = [once EXCEPT ![p] = now]
            /\ rings' = [rings EXCEPT ![p] = <<@[1] + 1, now>>]
       ELSE UNCHANGED alerts
  /\ account' = [account EXCEPT ![t] = None] /\ client' = [client EXCEPT ![t] = None]
  /\ UNCHANGED <<sent, webVars, world>>

-----------------------------------------------------------------------------
\* The rest of the world.

Deploy ==
  /\ changes < MaxChanges /\ changes' = changes + 1
  /\ config' \in SUBSET Keys
  /\ UNCHANGED <<split, env, serving, genuine, now, webVars, daemonVars, alerts>>

StopDaemon ==
  /\ env.daemon # None /\ env' = [env EXCEPT !.daemon = None]
  /\ account' = Idle /\ client' = Idle /\ sent' = None
  /\ once' = [p \in Catalogue |-> None] /\ rings' = [p \in Catalogue |-> <<0, None>>]
  /\ UNCHANGED <<config, split, serving, genuine, now, changes, webVars>>
StartDaemon ==
  /\ env.daemon = None /\ env' = [env EXCEPT !.daemon = config]
  /\ moved' = (offered # None /\ (moved \/ Configured(config) # offered))
  /\ UNCHANGED <<config, split, serving, genuine, now, changes, offered, page, answer,
                 chosen, daemonVars, alerts>>
RestartWeb ==
  /\ env' = [env EXCEPT !.web = IF split THEN {} ELSE config]
  /\ offered' = None /\ moved' = FALSE
  /\ UNCHANGED <<config, split, serving, genuine, now, changes, page, answer, chosen,
                 daemonVars, alerts>>

\* A balance runs out or is topped up; an enclave is replaced by another image
\* or put back.
Provider(p) ==
  /\ changes < MaxChanges /\ changes' = changes + 1
  /\ \/ serving' = (serving \ {p}) \cup ({p} \ serving) /\ UNCHANGED genuine
     \/ p \in Confidential /\ genuine' = (genuine \ {p}) \cup ({p} \ genuine)
        /\ UNCHANGED serving
  /\ UNCHANGED <<config, split, env, now, webVars, daemonVars, alerts>>

Tick ==
  /\ now < LastTime /\ now' = now + 1
  /\ UNCHANGED <<config, split, env, serving, genuine, changes, webVars, daemonVars, alerts>>

Next ==
  \/ Show \/ \E p \in Catalogue \cup {None} : Post(p)
  \/ \E t \in Threads : Load(t) \/ MakeClient(t) \/ Finish(t) \/ Complete(t) \/ ProviderRefuses(t)
  \/ Deploy \/ StopDaemon \/ StartDaemon \/ RestartWeb
  \/ \E p \in Catalogue : Provider(p)
  \/ Tick

Spec == Init /\ [][Next]_vars

-----------------------------------------------------------------------------
\* Every variable keeps its shape.
TypeOK ==
  /\ config \subseteq Keys /\ env.web \subseteq Keys /\ (env.daemon # None => env.daemon \subseteq Keys)
  /\ offered # None => offered \subseteq Catalogue
  /\ page \subseteq Catalogue /\ chosen \in Catalogue \cup {None}
  /\ answer \in {None, "saved", "raised", "not offered", "unavailable"}
  /\ \A t \in Threads : client[t] # None => account[t] # None

\* A letter goes to the provider the account named, or, if it named none, to
\* the standard one or the only one there is; and to an enclave only once that
\* was verified, through every change of the choice, the keys and the enclave
\* (llm_client.py:176-208, 211-224).
SentWhereChosen == sent # None =>
  /\ sent.choice # None => sent.provider = sent.choice
  /\ sent.choice = None => \/ sent.provider = DEFAULT_PROVIDER
                           \/ Configured(sent.keys) = {sent.provider}
  /\ sent.provider \in Confidential => sent.checked

\* What the web process remembers is what the daemon can reach, as long as the
\* daemon has not come back with other keys: a daemon that was down is never
\* remembered as one with nothing to offer (handoff.py:378-399).
OfferIsTrue == offered # None /\ ~moved /\ env.daemon # None => offered = Configured(env.daemon)

\* One daemon tells the operator of one provider once in a window, whichever
\* of its threads runs into the refusal (llm_client.py:247-257,
\* telegram.py:199-225).
RingsSpaced ==
  \A p \in Catalogue :
    rings'[p][1] > rings[p][1] => rings[p][2] = None \/ now - rings[p][2] >= COOLDOWN

ProvidersStep == SentWhereChosen' /\ OfferIsTrue' /\ RingsSpaced
ProvidersHold == [][ProvidersStep]_vars

\* A provider that the page offers can be picked: the web process does not need
\* the key to a provider to let an account choose it (web_server.py:1333-1339,
\* handoff.py:106-110).
OfferedCanBeChosen == answer # "raised"
=============================================================================

------------------------------ MODULE Billing ------------------------------
(***************************************************************************)
(* How an account's plan follows what its owner pays at Polar. Three paths *)
(* write it: a webhook event spooled by billing/billing_webhook.py and     *)
(* applied by the mail daemon (daemons/daemon_loop.py process_billing,     *)
(* billing/billing_queue.py), the three-hourly sweep                       *)
(* (billing/billing.py reconcile), the checkout return page                *)
(* (confirm_checkout), each reading the manifest before it writes it.      *)
(* Polar is external.                                                      *)
(***************************************************************************)
EXTENDS Integers, Sequences, FiniteSets

CONSTANTS
  Accounts,
  Customers,      \* Polar customer ids
  Subscriptions,  \* each bought through one checkout minted by this system
  StampOf,        \* subscription -> the account its checkout was minted for
  CustomerOf,     \* subscription -> the customer Polar attached it to
  EmailOf,        \* customer -> the account its Polar address names, or Nobody
  Returns,        \* threads that serve the checkout return page
  Nobody,
  MaxAttempts,    \* MAX_ATTEMPTS
  MaxChanges,     \* bound: changes of subscriptions
  MaxFaults,      \* bound: failed calls, lost events and lost answers
  MaxCrashes,     \* bound: restarts of the daemon
  MaxConfirms     \* bound: visits of the return page

VARIABLES
  sub,         \* Polar: each subscription's status
  sent,        \* Polar: webhook events not acknowledged yet
  link,        \* manifest: polar_customer_id
  plan,        \* manifest: plan_status
  spool,       \* billing_queue.jsonl
  configured,  \* PolarBilling() does not raise in the running daemon
  batch,       \* what the daemon drained and has still to apply
  hand,        \* the event that is about to flip a plan
  sweep,       \* the reconcile: customers left, and the flip about to be made
  visit,       \* per return-page thread: its progress
  tries,       \* history: per delivery, how often it failed
  settled,     \* history: deliveries applied, or found to change nothing
  alerted,     \* history: deliveries dropped with an alert
  crashed,     \* history: deliveries a crash took with it
  delivered, changes, faults, crashes, confirms

polar    == <<sub, sent, changes>>
manifest == <<link, plan>>
queue    == <<spool, batch, hand, tries, settled, alerted, crashed>>
vars == <<polar, manifest, queue, configured, sweep, visit, delivered, faults,
          crashes, confirms>>

ASSUME PurchasesAssumption ==
  /\ StampOf \in [Subscriptions -> Accounts]
  /\ CustomerOf \in [Subscriptions -> Customers]
  /\ EmailOf \in [Customers -> Accounts \union {Nobody}]
  /\ Nobody \notin Accounts \union Customers

ASSUME BoundsAssumption ==
  /\ MaxAttempts \in Nat \ {0}
  /\ {MaxChanges, MaxFaults, MaxCrashes, MaxConfirms} \subseteq Nat

Plans == {"active", "inactive"}
Idle == <<>>

\* A delivery is one spool entry's journey; Polar may deliver an event twice.
Deliveries == 1 .. (MaxChanges + MaxFaults)
Event == [n : 1 .. MaxChanges, sub : Subscriptions, target : Plans]
Entry == [d : Deliveries, sub : Subscriptions, target : Plans,
          attempts : 0 .. MaxAttempts - 1]
Flip == [acct : Accounts, target : Plans]

TypeOK ==
  /\ sub \in [Subscriptions -> {"none", "entitled", "lapsed"}]
  /\ sent \subseteq Event
  /\ link \in [Accounts -> Customers \union {Nobody}]
  /\ plan \in [Accounts -> Plans]
  /\ spool \in Seq(Entry) /\ batch \in Seq(Entry)
  /\ configured \in BOOLEAN
  /\ hand = Idle \/ hand \in [entry : Entry, acct : Accounts]
  /\ sweep = Idle \/ /\ sweep.todo \subseteq [cust : Customers, target : Plans]
                     /\ sweep.flip = Idle \/ sweep.flip \in Flip
  /\ \A t \in Returns : visit[t] = Idle \/
       visit[t] \in [at : {"link", "apply"}, acct : Accounts, cust : Customers,
                     linked : Customers \union {Nobody}, seen : Plans]
  /\ tries \in [Deliveries -> Nat]
  /\ settled \union alerted \union crashed \subseteq 1 .. delivered

\* The accounts no purchase names, the seeded owner above all, are active from
\* the start; everybody else has still to pay.
Unsold ==
  {a \in Accounts : (\A s \in Subscriptions : StampOf[s] # a)
                    /\ (\A c \in Customers : EmailOf[c] # a)}

Init ==
  /\ sub = [s \in Subscriptions |-> "none"]
  /\ sent = {}
  /\ link = [a \in Accounts |-> Nobody]
  /\ plan = [a \in Accounts |-> IF a \in Unsold THEN "active" ELSE "inactive"]
  /\ spool = <<>> /\ batch = <<>> /\ hand = Idle
  /\ configured \in BOOLEAN
  /\ sweep = Idle
  /\ visit = [t \in Returns |-> Idle]
  /\ tries = [d \in Deliveries |-> 0]
  /\ settled = {} /\ alerted = {} /\ crashed = {}
  /\ delivered = 0 /\ changes = 0 /\ faults = 0 /\ crashes = 0 /\ confirms = 0

---------------------------------------------------------------------------
\* Whom an object of Polar's is about.

Target(status) == IF status = "entitled" THEN "active" ELSE "inactive"

\* resolve_account() for an object without a stamp: the stored link, then the
\* address, which never moves a link.
ByCustomer(c) ==
  LET holders == {a \in Accounts : link[a] = c}
  IN  IF holders # {} THEN CHOOSE a \in holders : TRUE
      ELSE IF EmailOf[c] # Nobody /\ link[EmailOf[c]] = Nobody THEN EmailOf[c]
      ELSE Nobody

\* The customers list_subscriptions names, lapsed subscriptions included.
Listed == {CustomerOf[s] : s \in {x \in Subscriptions : sub[x] # "none"}}

Entitled(c) == \E s \in Subscriptions : CustomerOf[s] = c /\ sub[s] = "entitled"

\* A call fails: a fault is spent, or none is left.
Fault == faults < MaxFaults /\ faults' = faults + 1

---------------------------------------------------------------------------
\* Polar.

\* A subscription starts, lapses or resumes, and an event says so.  A checkout
\* is stamped, and Polar copies the stamp onto the subscription.
Change(s) ==
  /\ changes < MaxChanges
  /\ changes' = changes + 1
  /\ sub' = [sub EXCEPT ![s] = IF @ = "entitled" THEN "lapsed" ELSE "entitled"]
  /\ sent' = sent \union {[n |-> changes', sub |-> s, target |-> Target(sub'[s])]}
  /\ UNCHANGED <<manifest, queue, configured, sweep, visit, delivered, faults,
                 crashes, confirms>>

\* The webhook is misrouted until Polar gives up on the event.
Misroute ==
  /\ Fault
  /\ \E e \in sent : sent' = sent \ {e}
  /\ UNCHANGED <<sub, changes, manifest, queue, configured, sweep, visit,
                 delivered, crashes, confirms>>

\* billing_webhook.process_webhook(): the verified event is spooled with no
\* attempts and acknowledged; the answer may be lost.
Deliver ==
  /\ delivered < MaxChanges + MaxFaults
  /\ delivered' = delivered + 1
  /\ \E e \in sent :
       /\ spool' = Append(spool, [d |-> delivered', sub |-> e.sub,
                                  target |-> e.target, attempts |-> 0])
       /\ \/ sent' = sent \ {e} /\ UNCHANGED faults
          \/ Fault /\ UNCHANGED sent
  /\ UNCHANGED <<sub, changes, manifest, batch, hand, tries, settled, alerted,
                 crashed, configured, sweep, visit, crashes, confirms>>

---------------------------------------------------------------------------
\* The mail daemon's billing pass, process_billing().

\* Broken variant: the spool is drained before the client is built.
DrainFirst ==
  /\ spool # <<>> /\ batch = <<>> /\ hand = Idle
  /\ batch' = IF configured THEN spool ELSE <<>>
  /\ spool' = <<>>
  /\ UNCHANGED <<polar, manifest, hand, tries, settled, alerted, crashed,
                 configured, sweep, visit, delivered, faults, crashes, confirms>>

\* Without a configured client the events stay where they are.
Drain ==
  /\ spool # <<>> /\ batch = <<>> /\ hand = Idle
  /\ configured
  /\ batch' = spool
  /\ spool' = <<>>
  /\ UNCHANGED <<polar, manifest, hand, tries, settled, alerted, crashed,
                 configured, sweep, visit, delivered, faults, crashes, confirms>>

\* Broken variant: one attempt more than the constant allows.
LastAttemptOffByOne(entry) == entry.attempts + 1 > MaxAttempts

LastAttempt(entry) == entry.attempts + 1 >= MaxAttempts

\* The except clause: retry() puts the event at the spool's tail, or it is out
\* of attempts and an operator is told.
Fails(entry) ==
  /\ Fault
  /\ tries' = [tries EXCEPT ![entry.d] = @ + 1]
  /\ IF LastAttempt(entry)
     THEN alerted' = alerted \union {entry.d} /\ UNCHANGED spool
     ELSE /\ spool' = Append(spool, [entry EXCEPT !.attempts = @ + 1])
          /\ UNCHANGED alerted

\* apply_event() up to the plan it read: the stamp names the account.
Resolve ==
  /\ batch # <<>> /\ hand = Idle
  /\ batch' = Tail(batch)
  /\ LET entry == Head(batch)
         acct == StampOf[entry.sub]
     IN  \/ /\ plan[acct] = entry.target
            /\ settled' = settled \union {entry.d}
            /\ UNCHANGED <<hand, spool, tries, alerted, faults>>
         \/ /\ plan[acct] # entry.target
            /\ hand' = [entry |-> entry, acct |-> acct]
            /\ UNCHANGED <<settled, spool, tries, alerted, faults>>
         \/ Fails(entry) /\ UNCHANGED <<settled, hand>>
  /\ UNCHANGED <<polar, manifest, crashed, configured, sweep, visit, delivered,
                 crashes, confirms>>

\* set_plan_status(), a transaction of its own.
Apply ==
  /\ hand # Idle
  /\ hand' = Idle
  /\ \/ /\ plan' = [plan EXCEPT ![hand.acct] = hand.entry.target]
        /\ settled' = settled \union {hand.entry.d}
        /\ UNCHANGED <<spool, tries, alerted, faults>>
     \/ Fails(hand.entry) /\ UNCHANGED <<plan, settled>>
  /\ UNCHANGED <<polar, link, batch, crashed, configured, sweep, visit,
                 delivered, crashes, confirms>>

---------------------------------------------------------------------------
\* billing_poller: PolarBilling.reconcile().

SweepUnchanged == UNCHANGED <<polar, link, queue, configured, visit, delivered,
                              crashes, confirms>>

\* Broken variant: only entitled subscriptions are listed.
SweepStartEntitled ==
  /\ sweep = Idle /\ configured
  /\ sweep' = [todo |-> {[cust |-> c, target |-> "active"] :
                           c \in {x \in Listed : Entitled(x)}},
               flip |-> Idle]
  /\ UNCHANGED <<plan, faults>> /\ SweepUnchanged

\* entitlement_by_customer().
SweepStart ==
  /\ sweep = Idle /\ configured
  /\ sweep' = [todo |-> {[cust |-> c, target |->
                            IF Entitled(c) THEN "active" ELSE "inactive"] :
                           c \in Listed},
               flip |-> Idle]
  /\ UNCHANGED <<plan, faults>> /\ SweepUnchanged

\* One customer of the listing; reading its address from Polar may fail.
SweepResolve ==
  /\ sweep # Idle
  /\ sweep.flip = Idle
  /\ \E x \in sweep.todo :
       LET acct == ByCustomer(x.cust)
           rest == sweep.todo \ {x}
       IN  \/ /\ acct # Nobody
              /\ plan[acct] # x.target
              /\ sweep' = [todo |-> rest,
                           flip |-> [acct |-> acct, target |-> x.target]]
              /\ UNCHANGED faults
           \/ /\ acct # Nobody => plan[acct] = x.target
              /\ sweep' = [todo |-> rest, flip |-> Idle]
              /\ UNCHANGED faults
           \/ /\ x.cust \notin {link[a] : a \in Accounts}
              /\ Fault
              /\ sweep' = [todo |-> rest, flip |-> Idle]
  /\ UNCHANGED plan /\ SweepUnchanged

SweepApply ==
  /\ sweep # Idle
  /\ sweep.flip # Idle
  /\ plan' = [plan EXCEPT ![sweep.flip.acct] = sweep.flip.target]
  /\ sweep' = [sweep EXCEPT !.flip = Idle]
  /\ UNCHANGED faults /\ SweepUnchanged

\* Broken variant: accounts nobody at Polar stands behind are gated off too.
SweepEndAndGateOff ==
  /\ sweep # Idle
  /\ sweep.todo = {} /\ sweep.flip = Idle
  /\ sweep' = Idle
  /\ plan' = [a \in Accounts |->
                IF a \in {ByCustomer(c) : c \in Listed} THEN plan[a] ELSE "inactive"]
  /\ UNCHANGED faults /\ SweepUnchanged

SweepEnd ==
  /\ sweep # Idle
  /\ sweep.todo = {} /\ sweep.flip = Idle
  /\ sweep' = Idle
  /\ UNCHANGED <<plan, faults>> /\ SweepUnchanged

---------------------------------------------------------------------------
\* The checkout return page: PolarBilling.confirm_checkout().

VisitUnchanged == UNCHANGED <<polar, queue, configured, sweep, delivered,
                              faults, crashes>>

\* The signed-in account is loaded and the paid checkout of its own is read
\* back: the stamp is the ownership test.
VisitStart(t) ==
  /\ visit[t] = Idle
  /\ configured
  /\ confirms < MaxConfirms
  /\ confirms' = confirms + 1
  /\ \E s \in Subscriptions :
       /\ sub[s] # "none"
       /\ LET a == StampOf[s]
          IN  visit' = [visit EXCEPT ![t] =
                [at |-> "link", acct |-> a, cust |-> CustomerOf[s],
                 linked |-> link[a], seen |-> plan[a]]]
  /\ UNCHANGED manifest /\ VisitUnchanged

\* Broken variant: only the account's own link is looked at.
HeldElsewhereOwnLink(a, c) == link[a] \notin {Nobody, c}

HeldElsewhere(a, c) == \E b \in Accounts \ {a} : link[b] = c

\* set_polar_customer_id(), which returns the account as it then is; a customer
\* another account holds ends the visit.
VisitLink(t) ==
  /\ visit[t] # Idle
  /\ visit[t].at = "link"
  /\ LET a == visit[t].acct
         c == visit[t].cust
     IN  \/ /\ visit[t].linked = c
            /\ visit' = [visit EXCEPT ![t].at = "apply"]
            /\ UNCHANGED link
         \/ /\ visit[t].linked # c
            /\ HeldElsewhere(a, c)
            /\ visit' = [visit EXCEPT ![t] = Idle]
            /\ UNCHANGED link
         \/ /\ visit[t].linked # c
            /\ ~HeldElsewhere(a, c)
            /\ link' = [link EXCEPT ![a] = c]
            /\ visit' = [visit EXCEPT ![t].at = "apply", ![t].seen = plan[a]]
  /\ UNCHANGED <<plan, confirms>> /\ VisitUnchanged

VisitApply(t) ==
  /\ visit[t] # Idle
  /\ visit[t].at = "apply"
  /\ plan' = IF visit[t].seen = "active" THEN plan
             ELSE [plan EXCEPT ![visit[t].acct] = "active"]
  /\ visit' = [visit EXCEPT ![t] = Idle]
  /\ UNCHANGED <<link, confirms>> /\ VisitUnchanged

---------------------------------------------------------------------------
\* The daemon's process ends and starts again, perhaps with another
\* environment.  The sweep and the return page's far end run in it too.
Crash ==
  /\ crashes < MaxCrashes
  /\ crashes' = crashes + 1
  /\ configured' \in BOOLEAN
  /\ crashed' = crashed \union {batch[i].d : i \in DOMAIN batch}
                  \union (IF hand = Idle THEN {} ELSE {hand.entry.d})
  /\ batch' = <<>> /\ hand' = Idle
  /\ sweep' = Idle
  /\ visit' = [t \in Returns |-> Idle]
  /\ UNCHANGED <<polar, manifest, spool, tries, settled, alerted, delivered,
                 faults, confirms>>

Daemon == Drain \/ Resolve \/ Apply
Sweep  == SweepStart \/ SweepResolve \/ SweepApply \/ SweepEnd

Next ==
  \/ \E s \in Subscriptions : Change(s)
  \/ Misroute \/ Deliver
  \/ Daemon
  \/ Sweep
  \/ \E t \in Returns : VisitStart(t) \/ VisitLink(t) \/ VisitApply(t)
  \/ Crash

Spec == Init /\ [][Next]_vars

\* The daemon's loop polls, and its scheduler runs the sweep again and again;
\* nobody need pay, deliver or come back.
FairSpec == Spec /\ WF_vars(Daemon) /\ WF_vars(Sweep)

---------------------------------------------------------------------------
\* Properties.

InFlight == {spool[i].d : i \in DOMAIN spool} \union {batch[i].d : i \in DOMAIN batch}
              \union (IF hand = Idle THEN {} ELSE {hand.entry.d})

\* Polar is answered once an event is spooled, so from then on the event is in
\* the spool or in the pass, or it was settled, or somebody was told; only a
\* crash may take it (process_billing, billing_queue.retry).
NoEventVanishes ==
  1 .. delivered = InFlight \union settled \union alerted \union crashed

\* An event is dropped after exactly MAX_ATTEMPTS failures, its count surviving
\* every trip through the spool, and is not applied after that.
AttemptsSpent ==
  \A d \in 1 .. delivered :
    /\ tries[d] <= MaxAttempts
    /\ d \in alerted <=> tries[d] = MaxAttempts
    /\ d \in alerted => d \notin InFlight \union settled

\* Two buyers' return pages at once never leave one Polar customer with two
\* accounts (set_polar_customer_id's check inside its transaction).
OneAccountPerCustomer ==
  \A a, b \in Accounts : link[a] = link[b] /\ link[a] # Nobody => a = b

\* No event, sweep or return page gates off an account no purchase names
\* (reconcile's docstring: the seeded owner above all).
UnsoldLeftAlone == \A a \in Unsold : plan[a] = "active"

\* What is delivered is settled, waits or was given up, each at its time.
EventsAccounted == NoEventVanishes /\ AttemptsSpent

\* Neither a second account nor an account nobody paid for is touched.
PlansGuarded == OneAccountPerCustomer /\ UnsoldLeftAlone

\* The sweep knows which account this customer's subscriptions decide.
Decides(c, a) ==
  /\ c \in Listed /\ ByCustomer(c) = a
  /\ \A x \in Listed : ByCustomer(x) = a => x = c

\* Whatever was lost, reordered by a retry, applied from a stale read or
\* confirmed from an old checkout, the plan of an account the sweep can find
\* ends up what its customer's subscriptions entitle it to.
PlanConverges ==
  \A a \in Accounts, c \in Customers :
    <>[](configured /\ Decides(c, a))
      => <>[](plan[a] = "active" <=> Entitled(c))

\* What billing_queue.py says of a dropped subscription event: it heals within
\* one reconcile.  It does not when the account is known by the checkout's stamp
\* alone, which the sweep does not see.
SelfHeals ==
  \A s \in Subscriptions :
    <>[](configured /\ sub[s] # "none")
      => <>[](plan[StampOf[s]] = Target(sub[s]))
===========================================================================

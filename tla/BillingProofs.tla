--------------------------- MODULE BillingProofs ---------------------------
(***************************************************************************)
(* What Billing promises of every queue, sweep and return page, for any    *)
(* accounts, customers, subscriptions and bounds.                          *)
(*                                                                         *)
(* That an event is dropped after exactly MAX_ATTEMPTS failures rests on   *)
(* its being in one place at a time (OnePlace) with its count beside it    *)
(* (Counted).  That an account no purchase names keeps its plan rests on   *)
(* no path ever holding such an account (Sold): a stamp does not name it,  *)
(* and no link or address leads to it.                                     *)
(***************************************************************************)
EXTENDS Billing, SequenceTheorems, TLAPS

Want   == [cust : Customers, target : Plans]
Held   == [entry : Entry, acct : Accounts]
Visits == [at : {"link", "apply"}, acct : Accounts, cust : Customers,
           linked : Customers \union {Nobody}, seen : Plans]

Shapes ==
  /\ sub \in [Subscriptions -> {"none", "entitled", "lapsed"}]
  /\ sent \subseteq Event
  /\ link \in [Accounts -> Customers \union {Nobody}]
  /\ plan \in [Accounts -> Plans]
  /\ spool \in Seq(Entry) /\ batch \in Seq(Entry)
  /\ configured \in BOOLEAN
  /\ hand \in Held \union {Idle}
  /\ sweep \in [todo : SUBSET Want, flip : Flip \union {Idle}] \union {Idle}
  /\ visit \in [Returns -> Visits \union {Idle}]
  /\ tries \in [Deliveries -> Nat]
  /\ delivered \in 0 .. (MaxChanges + MaxFaults)
  /\ changes \in 0 .. MaxChanges /\ faults \in 0 .. MaxFaults

\* The deliveries of a queue, one entry each, and of the daemon's hand.
Ds(q)       == {q[i].d : i \in DOMAIN q}
Distinct(q) == \A i, j \in DOMAIN q : q[i].d = q[j].d => i = j
HandDs      == IF hand = Idle THEN {} ELSE {hand.entry.d}

\* A delivery is in one place, and nobody has done with it there.
OnePlace ==
  /\ Distinct(spool) /\ Distinct(batch)
  /\ Ds(spool) \intersect Ds(batch) = {}
  /\ HandDs \intersect (Ds(spool) \union Ds(batch)) = {}
  /\ InFlight \intersect (settled \union alerted) = {}
  /\ settled \intersect alerted = {}

\* An entry carries its count with it.
CountedIn(q, t) == \A i \in DOMAIN q : q[i].attempts = t[q[i].d]
Counted ==
  /\ CountedIn(spool, tries) /\ CountedIn(batch, tries)
  /\ hand # Idle => hand.entry.attempts = tries[hand.entry.d]
  /\ \A d \in Deliveries : /\ tries[d] <= MaxAttempts
                           /\ d \in alerted <=> tries[d] = MaxAttempts
                           /\ d > delivered => tries[d] = 0

\* Whom a path is about to write is somebody a purchase names.
Sold ==
  /\ \A a \in Unsold : link[a] = Nobody
  /\ hand # Idle => hand.acct \notin Unsold
  /\ sweep # Idle => (sweep.flip # Idle => sweep.flip.acct \notin Unsold)
  /\ \A t \in Returns : visit[t] # Idle => visit[t].acct \notin Unsold

IInv == Shapes /\ OnePlace /\ Counted /\ NoEventVanishes /\ Sold /\ PlansGuarded

-----------------------------------------------------------------------------
\* The queues.

LEMMA AppendedQueue ==
  ASSUME NEW q \in Seq(Entry), NEW e \in Entry
  PROVE  /\ Append(q, e) \in Seq(Entry)
         /\ Ds(Append(q, e)) = Ds(q) \union {e.d}
         /\ Distinct(q) /\ e.d \notin Ds(q) => Distinct(Append(q, e))
         /\ \A t : CountedIn(q, t) /\ e.attempts = t[e.d] => CountedIn(Append(q, e), t)
<1> DEFINE r == Append(q, e)
<1>1. r \in Seq(Entry) /\ Len(r) = Len(q) + 1 /\ Len(q) \in Nat
      /\ DOMAIN r = 1 .. Len(r) /\ DOMAIN q = 1 .. Len(q)
  BY LenProperties
<1>2. r[Len(r)] = e /\ \A i \in DOMAIN q : r[i] = q[i]
  BY <1>1
<1> HIDE DEF r
<1>3. DOMAIN r = DOMAIN q \union {Len(r)} /\ Len(r) \notin DOMAIN q
  <2>1. \A n \in Nat : 1 .. n + 1 = (1 .. n) \union {n + 1} /\ n + 1 \notin 1 .. n
    OBVIOUS
  <2> QED BY <1>1, <2>1
<1>4. Ds(r) = Ds(q) \union {e.d}
  <2>1. \A x \in Ds(r) : x \in Ds(q) \union {e.d}
    BY <1>2, <1>3, Zenon DEF Ds
  <2>2. e.d \in Ds(r) /\ \A x \in Ds(q) : x \in Ds(r)
    BY <1>2, <1>3, Zenon DEF Ds
  <2> QED BY <2>1, <2>2
<1>5. Distinct(q) /\ e.d \notin Ds(q) => Distinct(r)
  BY <1>2, <1>3, Zenon DEF Ds, Distinct
<1>6. \A t : CountedIn(q, t) /\ e.attempts = t[e.d] => CountedIn(r, t)
  BY <1>2, <1>3, Zenon DEF CountedIn
<1> QED BY <1>1, <1>4, <1>5, <1>6 DEF r

LEMMA TailQueue ==
  ASSUME NEW q \in Seq(Entry), q # <<>>
  PROVE  /\ Tail(q) \in Seq(Entry) /\ Head(q) \in Entry
         /\ Ds(q) = Ds(Tail(q)) \union {Head(q).d}
         /\ Distinct(q) => Distinct(Tail(q)) /\ Head(q).d \notin Ds(Tail(q))
         /\ \A t : CountedIn(q, t) =>
                   CountedIn(Tail(q), t) /\ Head(q).attempts = t[Head(q).d]
<1> DEFINE r == Tail(q)
<1>1. /\ r \in Seq(Entry) /\ Head(q) \in Entry /\ Len(q) \in Nat \ {0}
      /\ Len(r) = Len(q) - 1 /\ DOMAIN r = 1 .. Len(r) /\ DOMAIN q = 1 .. Len(q)
      /\ \A i \in 1 .. Len(r) : r[i] = q[i + 1]
  BY LenProperties, HeadTailProperties, EmptySeq
<1>2. Head(q) = q[1] /\ 1 \in DOMAIN q
  BY <1>1
<1> HIDE DEF r
<1>3. \A i \in DOMAIN r : i + 1 \in DOMAIN q /\ i + 1 # 1 /\ r[i] = q[i + 1]
  BY <1>1
<1>4. \A j \in DOMAIN q : j # 1 => j - 1 \in DOMAIN r /\ r[j - 1] = q[j]
  BY <1>1
<1>5. Ds(q) \subseteq Ds(r) \union {Head(q).d}
  BY <1>2, <1>4 DEF Ds
<1>6. Ds(r) \union {Head(q).d} \subseteq Ds(q)
  BY <1>2, <1>3 DEF Ds
<1>7. ASSUME Distinct(q)
      PROVE  Distinct(r) /\ Head(q).d \notin Ds(r)
  <2>1. \A i, j \in DOMAIN r : r[i].d = r[j].d => i + 1 = j + 1
    BY <1>3, <1>7 DEF Distinct
  <2>2. Distinct(r)
    BY <1>1, <2>1 DEF Distinct
  <2>3. \A i \in DOMAIN r : r[i].d # q[1].d
    BY <1>2, <1>3, <1>7 DEF Distinct
  <2> QED BY <1>2, <2>2, <2>3 DEF Ds
<1>8. \A t : CountedIn(q, t) => CountedIn(r, t) /\ Head(q).attempts = t[Head(q).d]
  BY <1>2, <1>3 DEF CountedIn
<1> QED BY <1>1, <1>5, <1>6, <1>7, <1>8 DEF r

LEMMA EmptyQueue ==
  /\ <<>> \in Seq(Entry) /\ Ds(<<>>) = {} /\ Distinct(<<>>)
  /\ \A t : CountedIn(<<>>, t)
<1>1. <<>> \in Seq(Entry) /\ DOMAIN <<>> = {}
  BY EmptySeq, LenProperties
<1> QED BY <1>1 DEF Ds, Distinct, CountedIn

\* A queue's deliveries are deliveries.
LEMMA QueuedDeliveries ==
  ASSUME NEW q \in Seq(Entry)
  PROVE  Ds(q) \subseteq Deliveries
<1>1. \A i \in DOMAIN q : q[i] \in Entry
  BY LenProperties, ElementOfSeq
<1> QED BY <1>1 DEF Ds, Entry

\* A failure of a delivery that is elsewhere leaves a queue's counts alone.
LEMMA CountsElsewhere ==
  ASSUME NEW q \in Seq(Entry), NEW t \in [Deliveries -> Nat], NEW d, NEW n,
         d \notin Ds(q), CountedIn(q, t)
  PROVE  CountedIn(q, [t EXCEPT ![d] = n])
BY QueuedDeliveries DEF Ds, CountedIn

-----------------------------------------------------------------------------
\* The initial states.

LEMMA NoneOfThese ==
  /\ \A x \in Held : x # Idle
  /\ \A x \in [todo : SUBSET Want, flip : Flip \union {Idle}] : x # Idle
  /\ \A x \in Visits : x # Idle
  /\ \A x \in Flip : x # Idle
<1>1. DOMAIN Idle = {}
  BY DEF Idle
<1>2. /\ \A x \in Held : DOMAIN x # {}
      /\ \A x \in [todo : SUBSET Want, flip : Flip \union {Idle}] : DOMAIN x # {}
      /\ \A x \in Visits : DOMAIN x # {}
      /\ \A x \in Flip : DOMAIN x # {}
  BY DEF Held, Visits, Flip
<1> QED BY <1>1, <1>2

LEMMA WhoIsSold ==
  ASSUME PurchasesAssumption
  PROVE  /\ Unsold \subseteq Accounts
         /\ \A s \in Subscriptions : StampOf[s] \in Accounts \ Unsold
         /\ \A c \in Customers : EmailOf[c] # Nobody => EmailOf[c] \in Accounts \ Unsold
BY DEF PurchasesAssumption, Unsold

LEMMA InvGivesTypeOK == ASSUME IInv PROVE TypeOK
<1>1. sweep # Idle => /\ sweep.todo \subseteq Want
                      /\ sweep.flip = Idle \/ sweep.flip \in Flip
  BY DEF IInv, Shapes
<1>2. settled \union alerted \union crashed \subseteq 1 .. delivered
  BY DEF IInv, NoEventVanishes
<1> QED BY <1>1, <1>2 DEF IInv, Shapes, TypeOK, Want, Held, Visits

LEMMA InitIInv ==
  ASSUME PurchasesAssumption, BoundsAssumption
  PROVE  Init => IInv
<1> SUFFICES ASSUME Init PROVE IInv
  OBVIOUS
<1>1. MaxChanges \in Nat /\ MaxFaults \in Nat /\ MaxAttempts \in Nat \ {0}
  BY DEF BoundsAssumption
<1>2. Shapes
  BY <1>1, EmptyQueue DEF Init, Shapes, Plans, Deliveries
<1>3. Ds(spool) = {} /\ Ds(batch) = {} /\ HandDs = {} /\ InFlight = {}
  <2>1. DOMAIN <<>> = {}
    BY EmptyQueue, LenProperties, EmptySeq
  <2> QED BY <2>1, EmptyQueue DEF Init, HandDs, InFlight
<1>4. OnePlace
  BY <1>3, EmptyQueue DEF Init, OnePlace
<1>5. Counted
  BY <1>1, EmptyQueue DEF Init, Counted, Deliveries
<1>6. NoEventVanishes
  BY <1>3 DEF Init, NoEventVanishes
<1>7. Sold
  BY WhoIsSold DEF Init, Sold
<1>8. PlansGuarded
  BY WhoIsSold DEF Init, PlansGuarded, OneAccountPerCustomer, UnsoldLeftAlone
<1> QED BY <1>2, <1>4, <1>5, <1>6, <1>7, <1>8 DEF IInv

-----------------------------------------------------------------------------
\* Every step keeps the shapes.

LEMMA PolarShapes ==
  ASSUME PurchasesAssumption, BoundsAssumption, IInv,
         (\E s \in Subscriptions : Change(s)) \/ Misroute
  PROVE  Shapes'
<1>1. MaxChanges \in Nat /\ MaxFaults \in Nat
  BY DEF BoundsAssumption
<1>2. ASSUME NEW s \in Subscriptions, Change(s)
      PROVE  Shapes'
  <2>1. changes' \in 1 .. MaxChanges
    BY <1>1, <1>2 DEF Change, IInv, Shapes
  <2>2. sub' \in [Subscriptions -> {"none", "entitled", "lapsed"}]
    BY <1>2 DEF Change, IInv, Shapes
  <2>3. [n |-> changes', sub |-> s, target |-> Target(sub'[s])] \in Event
    BY <2>1 DEF Event, Target, Plans
  <2>4. sent' \subseteq Event
    BY <1>2, <2>3 DEF Change, IInv, Shapes
  <2> QED BY <1>2, <2>1, <2>2, <2>4 DEF Change, IInv, Shapes, manifest, queue
<1>3. CASE Misroute
  BY <1>1, <1>3 DEF Misroute, Fault, IInv, Shapes, manifest, queue
<1> QED BY <1>2, <1>3

\* A delivery is spooled as an entry of its own number.
LEMMA DeliveredEntry ==
  ASSUME BoundsAssumption, IInv, Deliver
  PROVE  /\ spool' \in Seq(Entry)
         /\ \E x \in Entry : x.d = delivered' /\ x.attempts = 0 /\ spool' = Append(spool, x)
<1>1. MaxChanges \in Nat /\ MaxFaults \in Nat /\ 0 \in 0 .. MaxAttempts - 1
      /\ delivered' \in Deliveries
  BY DEF BoundsAssumption, Deliver, IInv, Shapes, Deliveries
<1>2. PICK e \in sent :
        spool' = Append(spool, [d |-> delivered', sub |-> e.sub, target |-> e.target,
                                attempts |-> 0])
  BY DEF Deliver
<1>3. e.sub \in Subscriptions /\ e.target \in Plans
  BY DEF IInv, Shapes, Event
<1> DEFINE x == [d |-> delivered', sub |-> e.sub, target |-> e.target, attempts |-> 0]
<1>4. x \in Entry /\ x.d = delivered' /\ x.attempts = 0 /\ spool' = Append(spool, x)
  BY <1>1, <1>2, <1>3 DEF Entry
<1> HIDE DEF x
<1>5. spool' \in Seq(Entry)
  BY <1>4, AppendedQueue DEF IInv, Shapes
<1> QED BY <1>4, <1>5

\* A failed entry is told of, or goes back with its count raised.
LEMMA FailedEntry ==
  ASSUME BoundsAssumption, IInv, NEW x \in Entry, x.attempts = tries[x.d], Fails(x)
  PROVE  /\ x.d \in Deliveries
         /\ tries' = [tries EXCEPT ![x.d] = x.attempts + 1]
         /\ tries' \in [Deliveries -> Nat]
         /\ faults' \in 0 .. MaxFaults
         /\ spool' \in Seq(Entry)
         /\ \/ /\ x.attempts + 1 = MaxAttempts
               /\ alerted' = alerted \union {x.d} /\ spool' = spool
            \/ /\ x.attempts + 1 < MaxAttempts
               /\ alerted' = alerted
               /\ \E y \in Entry : /\ y.d = x.d /\ y.attempts = x.attempts + 1
                                   /\ spool' = Append(spool, y)
<1>1. x.d \in Deliveries /\ x.attempts \in 0 .. MaxAttempts - 1
      /\ MaxAttempts \in Nat /\ MaxFaults \in Nat
  BY DEF Entry, BoundsAssumption
<1>2. tries' = [tries EXCEPT ![x.d] = x.attempts + 1]
  BY <1>1 DEF Fails, IInv, Shapes
<1>3. tries' \in [Deliveries -> Nat] /\ faults' \in 0 .. MaxFaults
  <2>1. tries \in [Deliveries -> Nat] /\ faults \in 0 .. MaxFaults
    BY DEF IInv, Shapes
  <2>2. faults < MaxFaults /\ faults' = faults + 1
    BY DEF Fails, Fault
  <2> QED BY <1>1, <1>2, <2>1, <2>2
<1>4. CASE LastAttempt(x)
  <2>1. alerted' = alerted \union {x.d} /\ spool' = spool /\ spool \in Seq(Entry)
    BY <1>4 DEF Fails, IInv, Shapes
  <2>2. x.attempts + 1 = MaxAttempts
    BY <1>1, <1>4 DEF LastAttempt
  <2> QED BY <1>2, <1>3, <2>1, <2>2
<1>5. CASE ~LastAttempt(x)
  <2> DEFINE y == [x EXCEPT !.attempts = @ + 1]
  <2>1. x.attempts + 1 < MaxAttempts /\ x.attempts + 1 \in 0 .. MaxAttempts - 1
    BY <1>1, <1>5 DEF LastAttempt
  <2>2. y \in Entry /\ y.d = x.d /\ y.attempts = x.attempts + 1
    BY <2>1 DEF Entry
  <2>3. alerted' = alerted /\ spool' = Append(spool, y)
    BY <1>5 DEF Fails
  <2> HIDE DEF y
  <2>4. spool' \in Seq(Entry)
    BY <2>2, <2>3, AppendedQueue DEF IInv, Shapes
  <2> QED BY <1>1, <1>2, <1>3, <2>1, <2>2, <2>3, <2>4
<1> QED BY <1>4, <1>5

\* The next entry of the pass, and the one in hand.
LEMMA NextEntry ==
  ASSUME IInv, batch # <<>>
  PROVE  Head(batch) \in Entry /\ Head(batch).attempts = tries[Head(batch).d]
BY TailQueue DEF IInv, Shapes, Counted

LEMMA HeldEntry ==
  ASSUME IInv, hand # Idle
  PROVE  /\ hand.entry \in Entry /\ hand.acct \in Accounts
         /\ hand.entry.attempts = tries[hand.entry.d] /\ HandDs = {hand.entry.d}
BY DEF IInv, Shapes, Counted, Held, HandDs

LEMMA DaemonShapes ==
  ASSUME PurchasesAssumption, BoundsAssumption, IInv, Deliver \/ Daemon
  PROVE  Shapes'
<1>1. MaxChanges \in Nat /\ MaxFaults \in Nat
  BY DEF BoundsAssumption
<1>2. CASE Deliver
  <2>1. spool' \in Seq(Entry)
    BY <1>2, DeliveredEntry
  <2>2. delivered' \in 0 .. (MaxChanges + MaxFaults) /\ faults' \in 0 .. MaxFaults
        /\ sent' \subseteq Event
    BY <1>1, <1>2 DEF Deliver, Fault, IInv, Shapes
  <2> QED BY <1>2, <2>1, <2>2 DEF Deliver, IInv, Shapes, manifest
<1>3. CASE Drain
  BY <1>3, EmptyQueue DEF Drain, IInv, Shapes, polar, manifest
<1>4. CASE Resolve
  <2> DEFINE x == Head(batch)
  <2>1. x \in Entry /\ x.attempts = tries[x.d] /\ batch' \in Seq(Entry)
    BY <1>4, NextEntry, TailQueue DEF Resolve, IInv, Shapes
  <2>2. x.sub \in Subscriptions /\ StampOf[x.sub] \in Accounts
    BY <2>1 DEF Entry, PurchasesAssumption
  <2>3. [entry |-> x, acct |-> StampOf[x.sub]] \in Held
    BY <2>1, <2>2 DEF Held
  <2>4. hand' \in Held \union {Idle}
    BY <1>4, <2>3 DEF Resolve, IInv, Shapes
  <2>5. UNCHANGED <<spool, tries, alerted, faults>> \/ Fails(x)
    BY <1>4 DEF Resolve
  <2>6. spool' \in Seq(Entry) /\ tries' \in [Deliveries -> Nat] /\ faults' \in 0 .. MaxFaults
    <3> HIDE DEF x
    <3> QED BY <2>1, <2>5, FailedEntry DEF IInv, Shapes
  <2> HIDE DEF x
  <2> QED BY <1>4, <2>1, <2>4, <2>6 DEF Resolve, IInv, Shapes, polar, manifest
<1>5. CASE Apply
  <2> DEFINE x == hand.entry
  <2>1. x \in Entry /\ x.attempts = tries[x.d] /\ hand.acct \in Accounts /\ x.target \in Plans
    BY <1>5, HeldEntry DEF Apply, Entry
  <2>2. UNCHANGED <<spool, tries, alerted, faults>> \/ Fails(x)
    BY <1>5 DEF Apply
  <2>3. spool' \in Seq(Entry) /\ tries' \in [Deliveries -> Nat] /\ faults' \in 0 .. MaxFaults
    <3> HIDE DEF x
    <3> QED BY <2>1, <2>2, FailedEntry DEF IInv, Shapes
  <2>4. plan' \in [Accounts -> Plans]
    BY <1>5, <2>1 DEF Apply, IInv, Shapes
  <2> QED BY <1>5, <2>3, <2>4 DEF Apply, IInv, Shapes, polar
<1> QED BY <1>2, <1>3, <1>4, <1>5 DEF Daemon

\* Whom a customer is taken for is an account a purchase names.
LEMMA ByCustomerSold ==
  ASSUME PurchasesAssumption, IInv, NEW c \in Customers, ByCustomer(c) # Nobody
  PROVE  ByCustomer(c) \in Accounts \ Unsold
<1> DEFINE holders == {a \in Accounts : link[a] = c}
<1>1. CASE holders # {}
  <2>1. ByCustomer(c) = CHOOSE a \in holders : TRUE
    BY <1>1 DEF ByCustomer
  <2>2. ByCustomer(c) \in holders
    BY <1>1, <2>1
  <2>3. c # Nobody
    BY DEF PurchasesAssumption
  <2> QED BY <2>2, <2>3 DEF IInv, Sold
<1>2. CASE holders = {}
  <2>1. EmailOf[c] # Nobody /\ ByCustomer(c) = EmailOf[c]
    BY <1>2 DEF ByCustomer
  <2> QED BY <2>1, WhoIsSold
<1> QED BY <1>1, <1>2

\* What the sweep goes on with after one customer.
LEMMA ResolvedSweep ==
  ASSUME PurchasesAssumption, BoundsAssumption, IInv, SweepResolve
  PROVE  /\ faults' \in 0 .. MaxFaults
         /\ sweep' \in [todo : SUBSET Want, flip : Flip \union {Idle}]
         /\ sweep'.flip # Idle => sweep'.flip.acct \notin Unsold
<1>1. sweep \in [todo : SUBSET Want, flip : Flip \union {Idle}]
  BY DEF SweepResolve, IInv, Shapes
<1>2. PICK x \in sweep.todo :
        \/ /\ ByCustomer(x.cust) # Nobody
           /\ sweep' = [todo |-> sweep.todo \ {x},
                        flip |-> [acct |-> ByCustomer(x.cust), target |-> x.target]]
           /\ UNCHANGED faults
        \/ /\ sweep' = [todo |-> sweep.todo \ {x}, flip |-> Idle]
           /\ UNCHANGED faults \/ Fault
  BY DEF SweepResolve
<1>3. x.cust \in Customers /\ x.target \in Plans /\ sweep.todo \ {x} \in SUBSET Want
  BY <1>1 DEF Want
<1>4. faults' \in 0 .. MaxFaults
  BY <1>2 DEF Fault, IInv, Shapes, BoundsAssumption
<1>5. CASE sweep' = [todo |-> sweep.todo \ {x}, flip |-> Idle]
  BY <1>3, <1>4, <1>5
<1>6. CASE /\ ByCustomer(x.cust) # Nobody
           /\ sweep' = [todo |-> sweep.todo \ {x},
                        flip |-> [acct |-> ByCustomer(x.cust), target |-> x.target]]
  <2>1. ByCustomer(x.cust) \in Accounts \ Unsold
    BY <1>3, <1>6, ByCustomerSold
  <2>2. [acct |-> ByCustomer(x.cust), target |-> x.target] \in Flip
    BY <1>3, <2>1 DEF Flip
  <2> QED BY <1>3, <1>4, <1>6, <2>1, <2>2
<1> QED BY <1>2, <1>5, <1>6

LEMMA SweepShapes ==
  ASSUME PurchasesAssumption, BoundsAssumption, IInv, Sweep
  PROVE  Shapes'
<1> USE DEF SweepUnchanged, polar, queue
<1>1. CASE SweepStart
  <2>1. Listed \subseteq Customers
    BY DEF Listed, PurchasesAssumption
  <2>2. \A c \in Listed :
          [cust |-> c, target |-> IF Entitled(c) THEN "active" ELSE "inactive"] \in Want
    BY <2>1 DEF Want, Plans
  <2>3. sweep' \in [todo : SUBSET Want, flip : Flip \union {Idle}]
    BY <1>1, <2>2 DEF SweepStart
  <2> QED BY <1>1, <2>3 DEF SweepStart, IInv, Shapes
<1>2. CASE SweepResolve
  BY <1>2, ResolvedSweep DEF SweepResolve, IInv, Shapes
<1>3. CASE SweepApply
  <2>1. sweep \in [todo : SUBSET Want, flip : Flip \union {Idle}] /\ sweep.flip \in Flip
    BY <1>3 DEF SweepApply, IInv, Shapes
  <2>2. sweep' \in [todo : SUBSET Want, flip : Flip \union {Idle}]
    BY <1>3, <2>1 DEF SweepApply
  <2>3. plan' \in [Accounts -> Plans]
    BY <1>3, <2>1 DEF SweepApply, IInv, Shapes, Flip
  <2> QED BY <1>3, <2>2, <2>3 DEF SweepApply, IInv, Shapes
<1>4. CASE SweepEnd
  BY <1>4 DEF SweepEnd, IInv, Shapes
<1> QED BY <1>1, <1>2, <1>3, <1>4 DEF Sweep

LEMMA VisitShapes ==
  ASSUME PurchasesAssumption, BoundsAssumption, IInv, NEW t \in Returns,
         VisitStart(t) \/ VisitLink(t) \/ VisitApply(t)
  PROVE  Shapes'
<1> USE DEF VisitUnchanged, polar, queue, manifest
<1>1. CASE VisitStart(t)
  <2>1. PICK s \in Subscriptions :
          visit' = [visit EXCEPT ![t] =
                      [at |-> "link", acct |-> StampOf[s], cust |-> CustomerOf[s],
                       linked |-> link[StampOf[s]], seen |-> plan[StampOf[s]]]]
    BY <1>1 DEF VisitStart
  <2>2. [at |-> "link", acct |-> StampOf[s], cust |-> CustomerOf[s],
         linked |-> link[StampOf[s]], seen |-> plan[StampOf[s]]] \in Visits
    BY DEF Visits, PurchasesAssumption, IInv, Shapes
  <2>3. visit' \in [Returns -> Visits \union {Idle}]
    BY <2>1, <2>2 DEF IInv, Shapes
  <2> QED BY <1>1, <2>3 DEF VisitStart, IInv, Shapes
<1>2. CASE VisitLink(t)
  <2>1. visit[t] \in Visits
    BY <1>2 DEF VisitLink, IInv, Shapes
  <2>2. plan[visit[t].acct] \in Plans /\ visit[t].acct \in Accounts /\ visit[t].cust \in Customers
    BY <2>1 DEF Visits, IInv, Shapes
  <2>3. [visit[t] EXCEPT !.at = "apply"] \in Visits
        /\ [visit[t] EXCEPT !.at = "apply", !.seen = plan[visit[t].acct]] \in Visits
    BY <2>1, <2>2 DEF Visits
  <2>4. link' \in [Accounts -> Customers \union {Nobody}]
    BY <1>2, <2>2 DEF VisitLink, IInv, Shapes
  <2>5. \/ visit' = [visit EXCEPT ![t] = Idle]
        \/ visit' = [visit EXCEPT ![t] = [visit[t] EXCEPT !.at = "apply"]]
        \/ visit' = [visit EXCEPT ![t] =
                       [visit[t] EXCEPT !.at = "apply", !.seen = plan[visit[t].acct]]]
    BY <1>2 DEF VisitLink, IInv, Shapes
  <2>6. visit' \in [Returns -> Visits \union {Idle}]
    BY <2>3, <2>5 DEF IInv, Shapes
  <2> QED BY <1>2, <2>4, <2>6 DEF VisitLink, IInv, Shapes
<1>3. CASE VisitApply(t)
  <2>1. plan' \in [Accounts -> Plans] /\ visit' \in [Returns -> Visits \union {Idle}]
    BY <1>3 DEF VisitApply, IInv, Shapes, Plans
  <2> QED BY <1>3, <2>1 DEF VisitApply, IInv, Shapes
<1> QED BY <1>1, <1>2, <1>3

LEMMA CrashShapes ==
  ASSUME IInv, Crash
  PROVE  Shapes'
BY EmptyQueue DEF Crash, IInv, Shapes, polar, manifest

-----------------------------------------------------------------------------
\* Every step keeps the queues' account of what was delivered.

QueueInv == OnePlace /\ Counted /\ NoEventVanishes

LEMMA InFlightIs ==
  /\ InFlight = Ds(spool) \union Ds(batch) \union HandDs
  /\ InFlight' = Ds(spool') \union Ds(batch') \union HandDs'
BY DEF InFlight, Ds, HandDs

LEMMA QueueApart ==
  ASSUME IInv, UNCHANGED <<queue, delivered>>
  PROVE  QueueInv'
BY DEF IInv, QueueInv, OnePlace, Counted, NoEventVanishes, InFlight, HandDs, queue

LEMMA DeliverKeepsQueue ==
  ASSUME BoundsAssumption, IInv, Deliver
  PROVE  QueueInv'
<1>1. /\ delivered' = delivered + 1 /\ delivered \in Nat /\ delivered' \in Deliveries
      /\ UNCHANGED <<batch, hand, tries, settled, alerted, crashed>>
  BY DEF Deliver, IInv, Shapes, Deliveries, BoundsAssumption
<1>2. PICK x \in Entry : x.d = delivered' /\ x.attempts = 0 /\ spool' = Append(spool, x)
  BY DeliveredEntry
<1>3. delivered' \notin InFlight \union settled \union alerted \union crashed
  BY <1>1 DEF IInv, NoEventVanishes
<1>4. Ds(spool') = Ds(spool) \union {delivered'} /\ Ds(batch') = Ds(batch) /\ HandDs' = HandDs
      /\ InFlight' = InFlight \union {delivered'}
  <2>1. Ds(spool') = Ds(spool) \union {delivered'}
    BY <1>2, AppendedQueue DEF IInv, Shapes
  <2>2. Ds(batch') = Ds(batch) /\ HandDs' = HandDs
    BY <1>1 DEF HandDs
  <2>3. InFlight' = Ds(spool') \union Ds(batch') \union HandDs'
    BY InFlightIs
  <2> QED BY <2>1, <2>2, <2>3, InFlightIs
<1>5. Distinct(spool')
  BY <1>2, <1>3, AppendedQueue, InFlightIs DEF IInv, Shapes, OnePlace
<1>6. OnePlace'
  BY <1>1, <1>3, <1>4, <1>5, InFlightIs DEF IInv, OnePlace
<1>7. tries[delivered'] = 0 /\ \A d \in Deliveries : d > delivered' => d > delivered
  BY <1>1 DEF IInv, Counted, Deliveries
<1>8. CountedIn(spool', tries)
  BY <1>2, <1>7, AppendedQueue DEF IInv, Shapes, Counted
<1>9. Counted'
  BY <1>1, <1>7, <1>8 DEF IInv, Counted
<1>10. 1 .. delivered' = (1 .. delivered) \union {delivered'}
  BY <1>1
<1>11. NoEventVanishes'
  BY <1>1, <1>4, <1>10 DEF IInv, NoEventVanishes
<1> QED BY <1>6, <1>9, <1>11 DEF QueueInv

LEMMA DrainKeepsQueue ==
  ASSUME IInv, Drain
  PROVE  QueueInv'
<1>1. /\ batch = <<>> /\ hand = Idle /\ batch' = spool /\ spool' = <<>>
      /\ UNCHANGED <<hand, tries, settled, alerted, crashed, delivered>>
  BY DEF Drain
<1>2. Ds(batch) = {} /\ Ds(spool') = {} /\ Ds(batch') = Ds(spool) /\ HandDs = {} /\ HandDs' = {}
  BY <1>1, EmptyQueue DEF HandDs
<1>3. InFlight' = InFlight
  <2>1. InFlight' = Ds(spool') \union Ds(batch') \union HandDs'
    BY InFlightIs
  <2> QED BY <1>2, <2>1, InFlightIs
<1>4. OnePlace'
  BY <1>1, <1>2, <1>3, EmptyQueue DEF IInv, OnePlace
<1>5. Counted'
  BY <1>1, EmptyQueue DEF IInv, Counted
<1>6. NoEventVanishes'
  BY <1>1, <1>3 DEF IInv, NoEventVanishes
<1> QED BY <1>4, <1>5, <1>6 DEF QueueInv

\* The entry taken off the pass, or out of the hand, is settled, held or failed:
\* what is left of the queue knows nothing of it.
LEMMA TakenKeepsQueue ==
  ASSUME BoundsAssumption, IInv, NEW x \in Entry, x.attempts = tries[x.d],
         x.d \in InFlight, x.d \notin Ds(spool) \union Ds(batch'),
         Distinct(batch'), CountedIn(batch', tries), batch' \in Seq(Entry),
         Ds(spool) \intersect Ds(batch') = {},
         Ds(batch') \union {x.d} \union Ds(spool) = InFlight,
         UNCHANGED <<crashed, delivered>>,
         \/ /\ hand' = Idle /\ settled' = settled \union {x.d}
            /\ UNCHANGED <<spool, tries, alerted>>
         \/ /\ hand' # Idle /\ hand'.entry = x
            /\ UNCHANGED <<settled, spool, tries, alerted>>
         \/ hand' = Idle /\ UNCHANGED settled /\ Fails(x)
  PROVE  QueueInv'
<1>1. x.d \in Deliveries /\ x.d \notin settled \union alerted /\ Distinct(spool)
      /\ CountedIn(spool, tries) /\ spool \in Seq(Entry) /\ Ds(spool) \intersect Ds(batch') = {}
  <2>1. x.d \in Deliveries
    BY DEF Entry
  <2>2. Distinct(spool) /\ CountedIn(spool, tries) /\ spool \in Seq(Entry)
    BY DEF IInv, Shapes, OnePlace, Counted
  <2> QED BY <2>1, <2>2 DEF IInv, OnePlace
<1>2. InFlight' = Ds(spool') \union Ds(batch') \union HandDs'
  BY InFlightIs
<1>3. delivered' = delivered /\ ~(x.d > delivered)
  <2>1. x.d \in 1 .. delivered
    BY DEF IInv, NoEventVanishes
  <2> QED BY <2>1 DEF IInv, Shapes

<1>4. CASE hand' = Idle /\ settled' = settled \union {x.d} /\ UNCHANGED <<spool, tries, alerted>>
  <2>1. HandDs' = {} /\ InFlight' = InFlight \ {x.d}
    <3>1. HandDs' = {}
      BY <1>4 DEF HandDs
    <3> QED BY <1>2, <1>4, <3>1
  <2>2. OnePlace'
    BY <1>1, <1>4, <2>1 DEF IInv, OnePlace
  <2>3. Counted'
    BY <1>1, <1>4 DEF IInv, Counted
  <2>4. NoEventVanishes'
    BY <1>4, <2>1 DEF IInv, NoEventVanishes
  <2> QED BY <2>2, <2>3, <2>4 DEF QueueInv
<1>5. CASE hand' # Idle /\ hand'.entry = x /\ UNCHANGED <<settled, spool, tries, alerted>>
  <2>1. HandDs' = {x.d}
    BY <1>5 DEF HandDs
  <2>2. InFlight' = InFlight
    BY <1>2, <1>5, <2>1
  <2>3. OnePlace'
    BY <1>1, <1>5, <2>1, <2>2 DEF IInv, OnePlace
  <2>4. Counted'
    BY <1>1, <1>5 DEF IInv, Counted
  <2>5. NoEventVanishes'
    BY <1>5, <2>2 DEF IInv, NoEventVanishes
  <2> QED BY <2>3, <2>4, <2>5 DEF QueueInv
<1>6. CASE hand' = Idle /\ UNCHANGED settled /\ Fails(x)
  <2>1. HandDs' = {}
    BY <1>6 DEF HandDs
  <2>2. /\ tries' = [tries EXCEPT ![x.d] = x.attempts + 1]
        /\ x.attempts \in Nat /\ MaxAttempts \in Nat /\ tries \in [Deliveries -> Nat]
    BY <1>6, FailedEntry DEF IInv, Shapes, Entry, BoundsAssumption
  <2>3. CountedIn(spool, tries') /\ CountedIn(batch', tries')
    BY <1>1, <2>2, CountsElsewhere
  <2>4. tries'[x.d] = x.attempts + 1 /\ \A d \in Deliveries : d # x.d => tries'[d] = tries[d]
    BY <1>1, <2>2
  <2>5. CASE /\ x.attempts + 1 = MaxAttempts
             /\ alerted' = alerted \union {x.d} /\ spool' = spool
    <3>1. InFlight' = InFlight \ {x.d}
      BY <1>2, <2>1, <2>5
    <3>2. OnePlace'
      BY <1>1, <1>6, <2>1, <2>5, <3>1 DEF IInv, OnePlace
    <3>3. \A d \in Deliveries : /\ tries'[d] <= MaxAttempts
                                /\ d \in alerted' <=> tries'[d] = MaxAttempts
                                /\ d > delivered' => tries'[d] = 0
      <4> SUFFICES ASSUME NEW d \in Deliveries
                   PROVE  /\ tries'[d] <= MaxAttempts
                          /\ d \in alerted' <=> tries'[d] = MaxAttempts
                          /\ d > delivered' => tries'[d] = 0
        OBVIOUS
      <4>1. CASE d = x.d
        BY <1>1, <1>3, <2>2, <2>4, <2>5, <4>1
      <4>2. CASE d # x.d
        BY <2>4, <2>5, <4>2 DEF IInv, Counted
      <4> QED BY <4>1, <4>2
    <3>4. Counted'
      BY <1>6, <2>3, <2>5, <3>3 DEF Counted
    <3>5. NoEventVanishes'
      BY <1>6, <2>5, <3>1 DEF IInv, NoEventVanishes
    <3> QED BY <3>2, <3>4, <3>5 DEF QueueInv
  <2>6. CASE /\ x.attempts + 1 < MaxAttempts /\ alerted' = alerted
             /\ \E y \in Entry : /\ y.d = x.d /\ y.attempts = x.attempts + 1
                                 /\ spool' = Append(spool, y)
    <3>1. PICK y \in Entry : /\ y.d = x.d /\ y.attempts = x.attempts + 1
                             /\ spool' = Append(spool, y)
      BY <2>6
    <3>2. Ds(spool') = Ds(spool) \union {x.d} /\ Distinct(spool')
      BY <1>1, <3>1, AppendedQueue
    <3>3. CountedIn(spool', tries')
      BY <1>1, <2>3, <2>4, <3>1, AppendedQueue
    <3>4. InFlight' = InFlight
      BY <1>2, <2>1, <3>2
    <3>5. OnePlace'
      BY <1>1, <1>6, <2>1, <2>6, <3>2, <3>4 DEF IInv, OnePlace
    <3>6. \A d \in Deliveries : /\ tries'[d] <= MaxAttempts
                                /\ d \in alerted' <=> tries'[d] = MaxAttempts
                                /\ d > delivered' => tries'[d] = 0
      <4> SUFFICES ASSUME NEW d \in Deliveries
                   PROVE  /\ tries'[d] <= MaxAttempts
                          /\ d \in alerted' <=> tries'[d] = MaxAttempts
                          /\ d > delivered' => tries'[d] = 0
        OBVIOUS
      <4>1. CASE d = x.d
        BY <1>1, <1>3, <2>2, <2>4, <2>6, <4>1
      <4>2. CASE d # x.d
        BY <2>4, <2>6, <4>2 DEF IInv, Counted
      <4> QED BY <4>1, <4>2
    <3>7. Counted'
      BY <1>6, <2>3, <3>3, <3>6 DEF Counted
    <3>8. NoEventVanishes'
      BY <1>6, <2>6, <3>4 DEF IInv, NoEventVanishes
    <3> QED BY <3>5, <3>7, <3>8 DEF QueueInv
  <2> QED BY <1>6, <2>5, <2>6, FailedEntry
<1> QED BY <1>4, <1>5, <1>6

LEMMA ResolveKeepsQueue ==
  ASSUME BoundsAssumption, IInv, Resolve
  PROVE  QueueInv'
<1> DEFINE x == Head(batch)
<1>1. batch # <<>> /\ hand = Idle /\ batch' = Tail(batch) /\ UNCHANGED <<crashed, delivered>>
  BY DEF Resolve
<1>2. x \in Entry /\ x.attempts = tries[x.d]
  BY <1>1, NextEntry
<1>3. /\ batch' \in Seq(Entry) /\ Ds(batch) = Ds(batch') \union {x.d}
      /\ Distinct(batch') /\ x.d \notin Ds(batch') /\ CountedIn(batch', tries)
  BY <1>1, TailQueue DEF IInv, Shapes, OnePlace, Counted
<1>4. HandDs = {} /\ x.d \in InFlight /\ Ds(batch') \union {x.d} \union Ds(spool) = InFlight
  BY <1>1, <1>3, InFlightIs DEF HandDs
<1>5. x.d \notin Ds(spool) \union Ds(batch') /\ Ds(spool) \intersect Ds(batch') = {}
  BY <1>3 DEF IInv, OnePlace
<1>6. \/ /\ hand' = Idle /\ settled' = settled \union {x.d}
         /\ UNCHANGED <<spool, tries, alerted>>
      \/ /\ hand' = [entry |-> x, acct |-> StampOf[x.sub]]
         /\ UNCHANGED <<settled, spool, tries, alerted>>
      \/ hand' = Idle /\ UNCHANGED settled /\ Fails(x)
  BY <1>1 DEF Resolve
<1>7. \A h : h = [entry |-> x, acct |-> StampOf[x.sub]] => h # Idle /\ h.entry = x
  <2>1. DOMAIN [entry |-> x, acct |-> StampOf[x.sub]] # {} /\ DOMAIN Idle = {}
    BY DEF Idle
  <2> QED BY <2>1
<1> HIDE DEF x
<1> QED BY <1>1, <1>2, <1>3, <1>4, <1>5, <1>6, <1>7, TakenKeepsQueue

LEMMA ApplyKeepsQueue ==
  ASSUME BoundsAssumption, IInv, Apply
  PROVE  QueueInv'
<1> DEFINE x == hand.entry
<1>1. hand # Idle /\ hand' = Idle /\ batch' = batch /\ UNCHANGED <<crashed, delivered>>
  BY DEF Apply
<1>2. x \in Entry /\ x.attempts = tries[x.d] /\ HandDs = {x.d}
  BY <1>1, HeldEntry
<1>3. batch' \in Seq(Entry) /\ Distinct(batch') /\ CountedIn(batch', tries)
  BY <1>1 DEF IInv, Shapes, OnePlace, Counted
<1>4. x.d \in InFlight /\ Ds(batch') \union {x.d} \union Ds(spool) = InFlight
  BY <1>1, <1>2, InFlightIs
<1>5. x.d \notin Ds(spool) \union Ds(batch') /\ Ds(spool) \intersect Ds(batch') = {}
  BY <1>1, <1>2 DEF IInv, OnePlace
<1>6. \/ /\ hand' = Idle /\ settled' = settled \union {x.d}
         /\ UNCHANGED <<spool, tries, alerted>>
      \/ hand' = Idle /\ UNCHANGED settled /\ Fails(x)
  BY <1>1 DEF Apply
<1> HIDE DEF x
<1> QED BY <1>1, <1>2, <1>3, <1>4, <1>5, <1>6, TakenKeepsQueue

LEMMA CrashKeepsQueue ==
  ASSUME IInv, Crash
  PROVE  QueueInv'
<1>1. /\ crashed' = crashed \union Ds(batch) \union HandDs /\ batch' = <<>> /\ hand' = Idle
      /\ UNCHANGED <<spool, tries, settled, alerted, delivered>>
  BY DEF Crash, Ds, HandDs
<1>2. Ds(batch') = {} /\ HandDs' = {}
  BY <1>1, EmptyQueue DEF HandDs
<1>3. InFlight' = Ds(spool)
  <2>1. InFlight' = Ds(spool') \union Ds(batch') \union HandDs'
    BY InFlightIs
  <2> QED BY <1>1, <1>2, <2>1
<1>4. OnePlace'
  BY <1>1, <1>2, <1>3, EmptyQueue, InFlightIs DEF IInv, OnePlace
<1>5. Counted'
  BY <1>1, EmptyQueue DEF IInv, Counted
<1>6. NoEventVanishes'
  BY <1>1, <1>3, InFlightIs DEF IInv, NoEventVanishes
<1> QED BY <1>4, <1>5, <1>6 DEF QueueInv

-----------------------------------------------------------------------------
\* Every step keeps to the accounts a purchase names, and one to a customer.

GuardInv == Sold /\ PlansGuarded

LEMMA GuardApart ==
  ASSUME IInv, UNCHANGED <<manifest, hand, sweep, visit>>
  PROVE  GuardInv'
BY DEF IInv, GuardInv, Sold, PlansGuarded, OneAccountPerCustomer, UnsoldLeftAlone, manifest

\* A plan written for an account that is sold.
LEMMA SoldPlan ==
  ASSUME IInv, NEW a \in Accounts \ Unsold, NEW p, plan' = [plan EXCEPT ![a] = p],
         UNCHANGED link
  PROVE  PlansGuarded'
<1>1. UnsoldLeftAlone'
  BY DEF IInv, Shapes, PlansGuarded, UnsoldLeftAlone, Unsold
<1>2. OneAccountPerCustomer'
  BY DEF IInv, PlansGuarded, OneAccountPerCustomer
<1> QED BY <1>1, <1>2 DEF PlansGuarded

LEMMA DaemonGuards ==
  ASSUME PurchasesAssumption, IInv, Deliver \/ Daemon
  PROVE  GuardInv'
<1>1. CASE Deliver \/ Drain
  BY <1>1, GuardApart DEF Deliver, Drain, manifest
<1>2. CASE Resolve
  <2>1. StampOf[Head(batch).sub] \in Accounts \ Unsold
    BY <1>2, NextEntry, WhoIsSold DEF Resolve, Entry
  <2>2. hand' # Idle => hand'.acct \notin Unsold
    BY <1>2, <2>1 DEF Resolve, IInv, Sold
  <2> QED BY <1>2, <2>2 DEF Resolve, IInv, GuardInv, Sold, PlansGuarded,
             OneAccountPerCustomer, UnsoldLeftAlone, manifest
<1>3. CASE Apply
  <2>1. hand.acct \in Accounts \ Unsold
    BY <1>3, HeldEntry DEF Apply, IInv, Sold
  <2>2. PlansGuarded'
    <3>1. CASE UNCHANGED plan
      BY <1>3, <3>1 DEF Apply, IInv, PlansGuarded, OneAccountPerCustomer, UnsoldLeftAlone
    <3>2. CASE plan' = [plan EXCEPT ![hand.acct] = hand.entry.target]
      BY <1>3, <2>1, <3>2, SoldPlan DEF Apply
    <3> QED BY <1>3, <3>1, <3>2 DEF Apply
  <2> QED BY <1>3, <2>2 DEF Apply, IInv, GuardInv, Sold
<1> QED BY <1>1, <1>2, <1>3 DEF Daemon

LEMMA SweepGuards ==
  ASSUME PurchasesAssumption, BoundsAssumption, IInv, Sweep
  PROVE  GuardInv'
<1> USE DEF SweepUnchanged, queue
<1>1. CASE SweepStart
  <2>1. sweep'.flip = Idle
    BY <1>1 DEF SweepStart
  <2> QED BY <1>1, <2>1 DEF SweepStart, IInv, GuardInv, Sold, PlansGuarded,
             OneAccountPerCustomer, UnsoldLeftAlone
<1>2. CASE SweepResolve
  BY <1>2, ResolvedSweep DEF SweepResolve, IInv, GuardInv, Sold, PlansGuarded,
     OneAccountPerCustomer, UnsoldLeftAlone
<1>3. CASE SweepApply
  <2>1. /\ sweep \in [todo : SUBSET Want, flip : Flip \union {Idle}]
        /\ sweep.flip \in Flip /\ sweep.flip.acct \in Accounts \ Unsold
    BY <1>3 DEF SweepApply, IInv, Shapes, Sold, Flip
  <2>2. PlansGuarded'
    BY <1>3, <2>1, SoldPlan DEF SweepApply
  <2>3. sweep'.flip = Idle
    BY <1>3, <2>1 DEF SweepApply
  <2> QED BY <1>3, <2>2, <2>3 DEF SweepApply, IInv, GuardInv, Sold
<1>4. CASE SweepEnd
  BY <1>4 DEF SweepEnd, IInv, GuardInv, Sold, PlansGuarded, OneAccountPerCustomer,
     UnsoldLeftAlone
<1> QED BY <1>1, <1>2, <1>3, <1>4 DEF Sweep

LEMMA VisitGuards ==
  ASSUME PurchasesAssumption, BoundsAssumption, IInv, NEW t \in Returns,
         VisitStart(t) \/ VisitLink(t) \/ VisitApply(t)
  PROVE  GuardInv'
<1> USE DEF VisitUnchanged, queue, manifest
<1>1. CASE VisitStart(t)
  <2>1. PICK s \in Subscriptions :
          visit' = [visit EXCEPT ![t] =
                      [at |-> "link", acct |-> StampOf[s], cust |-> CustomerOf[s],
                       linked |-> link[StampOf[s]], seen |-> plan[StampOf[s]]]]
    BY <1>1 DEF VisitStart
  <2>2. \A u \in Returns : visit'[u] # Idle => visit'[u].acct \notin Unsold
    BY <2>1, WhoIsSold DEF IInv, Shapes, Sold
  <2> QED BY <1>1, <2>2 DEF VisitStart, IInv, GuardInv, Sold, PlansGuarded,
             OneAccountPerCustomer, UnsoldLeftAlone
<1>2. CASE VisitLink(t)
  <2> DEFINE a == visit[t].acct
             c == visit[t].cust
  <2>1. visit[t] \in Visits /\ a \in Accounts \ Unsold /\ c \in Customers /\ c # Nobody
    BY <1>2 DEF VisitLink, IInv, Shapes, Sold, Visits, PurchasesAssumption
  <2>2. \A u \in Returns : visit'[u] # Idle => visit'[u].acct \notin Unsold
    <3>1. \/ visit' = [visit EXCEPT ![t] = Idle]
          \/ visit' = [visit EXCEPT ![t] = [visit[t] EXCEPT !.at = "apply"]]
          \/ visit' = [visit EXCEPT ![t] =
                         [visit[t] EXCEPT !.at = "apply", !.seen = plan[visit[t].acct]]]
      BY <1>2 DEF VisitLink, IInv, Shapes
    <3>2. /\ [visit[t] EXCEPT !.at = "apply"].acct = a
          /\ [visit[t] EXCEPT !.at = "apply", !.seen = plan[visit[t].acct]].acct = a
      BY <2>1 DEF Visits
    <3> QED BY <2>1, <3>1, <3>2 DEF IInv, Shapes, Sold
  <2>3. \/ UNCHANGED link
        \/ link' = [link EXCEPT ![a] = c] /\ ~HeldElsewhere(a, c)
    BY <1>2 DEF VisitLink
  <2> HIDE DEF a, c
  <2>4. \A b \in Unsold : link'[b] = Nobody
    BY <2>1, <2>3, WhoIsSold DEF IInv, Shapes, Sold
  <2>5. OneAccountPerCustomer'
    BY <2>1, <2>3 DEF IInv, Shapes, PlansGuarded, OneAccountPerCustomer, HeldElsewhere
  <2>6. UnsoldLeftAlone'
    BY <1>2 DEF VisitLink, IInv, PlansGuarded, UnsoldLeftAlone
  <2> QED BY <1>2, <2>2, <2>4, <2>5, <2>6 DEF VisitLink, IInv, GuardInv, Sold, PlansGuarded
<1>3. CASE VisitApply(t)
  <2>1. visit[t].acct \in Accounts \ Unsold
    BY <1>3 DEF VisitApply, IInv, Shapes, Sold, Visits
  <2>2. PlansGuarded'
    <3>1. CASE UNCHANGED plan
      BY <1>3, <3>1 DEF VisitApply, IInv, PlansGuarded, OneAccountPerCustomer, UnsoldLeftAlone
    <3>2. CASE plan' = [plan EXCEPT ![visit[t].acct] = "active"]
      BY <1>3, <2>1, <3>2, SoldPlan DEF VisitApply
    <3> QED BY <1>3, <3>1, <3>2 DEF VisitApply
  <2>3. \A u \in Returns : visit'[u] # Idle => visit'[u].acct \notin Unsold
    BY <1>3 DEF VisitApply, IInv, Shapes, Sold
  <2> QED BY <1>3, <2>2, <2>3 DEF VisitApply, IInv, GuardInv, Sold
<1> QED BY <1>1, <1>2, <1>3

LEMMA CrashGuards ==
  ASSUME IInv, Crash
  PROVE  GuardInv'
BY DEF Crash, IInv, GuardInv, Sold, PlansGuarded, OneAccountPerCustomer, UnsoldLeftAlone,
   manifest

-----------------------------------------------------------------------------
LEMMA StepIInv ==
  ASSUME PurchasesAssumption, BoundsAssumption, IInv, [Next]_vars
  PROVE  IInv'
<1>1. CASE (\E s \in Subscriptions : Change(s)) \/ Misroute
  <2>1. UNCHANGED <<queue, delivered, manifest, hand, sweep, visit>>
    BY <1>1 DEF Change, Misroute, queue
  <2> QED BY <1>1, <2>1, PolarShapes, QueueApart, GuardApart DEF IInv, QueueInv, GuardInv
<1>2. CASE Deliver \/ Daemon
  <2>1. QueueInv'
    BY <1>2, DeliverKeepsQueue, DrainKeepsQueue, ResolveKeepsQueue, ApplyKeepsQueue DEF Daemon
  <2> QED BY <1>2, <2>1, DaemonShapes, DaemonGuards DEF IInv, QueueInv, GuardInv
<1>3. CASE Sweep
  <2>1. UNCHANGED <<queue, delivered>>
    BY <1>3 DEF Sweep, SweepStart, SweepResolve, SweepApply, SweepEnd, SweepUnchanged
  <2> QED BY <1>3, <2>1, SweepShapes, QueueApart, SweepGuards DEF IInv, QueueInv, GuardInv
<1>4. ASSUME NEW t \in Returns, VisitStart(t) \/ VisitLink(t) \/ VisitApply(t)
      PROVE  IInv'
  <2>1. UNCHANGED <<queue, delivered>>
    BY <1>4 DEF VisitStart, VisitLink, VisitApply, VisitUnchanged
  <2> QED BY <1>4, <2>1, VisitShapes, QueueApart, VisitGuards DEF IInv, QueueInv, GuardInv
<1>5. CASE Crash
  BY <1>5, CrashShapes, CrashKeepsQueue, CrashGuards DEF IInv, QueueInv, GuardInv
<1>6. CASE UNCHANGED vars
  <2>1. UNCHANGED <<queue, delivered, manifest, hand, sweep, visit>>
    BY <1>6 DEF vars, queue
  <2>2. Shapes'
    BY <1>6 DEF vars, polar, manifest, queue, IInv, Shapes
  <2> QED BY <2>1, <2>2, QueueApart, GuardApart DEF IInv, QueueInv, GuardInv
<1> QED BY <1>1, <1>2, <1>3, <1>4, <1>5, <1>6 DEF Next

-----------------------------------------------------------------------------
LEMMA Invariance == Spec => []IInv
<1>1. Init => IInv
  BY InitIInv, PurchasesAssumption, BoundsAssumption
<1>2. IInv /\ [Next]_vars => IInv'
  BY StepIInv, PurchasesAssumption, BoundsAssumption
<1> QED BY <1>1, <1>2, PTL DEF Spec

\* The plan, the queues, the sweep and the visits are what the code takes them
\* for.
THEOREM TypeCorrect == Spec => []TypeOK
<1>1. IInv => TypeOK
  BY InvGivesTypeOK
<1> QED BY <1>1, Invariance, PTL

\* No event Polar was answered for goes missing but by a crash, and one is given
\* up after exactly MAX_ATTEMPTS failures and never applied after that
\* (process_billing, billing_queue.retry).
THEOREM EventsAreAccountedFor == Spec => []EventsAccounted
<1>1. IInv => EventsAccounted
  <2> SUFFICES ASSUME IInv PROVE AttemptsSpent
    BY DEF IInv, EventsAccounted
  <2>1. \A d \in 1 .. delivered : d \in Deliveries
    BY BoundsAssumption DEF IInv, Shapes, Deliveries, BoundsAssumption
  <2> QED BY <2>1 DEF AttemptsSpent, IInv, Counted, OnePlace
<1> QED BY <1>1, Invariance, PTL

\* However many return pages, sweeps and retries overlap, a Polar customer has one
\* account at most and an account no purchase names is never gated off
\* (set_polar_customer_id, reconcile).
THEOREM PlansAreGuarded == Spec => []PlansGuarded
<1>1. IInv => PlansGuarded
  BY DEF IInv
<1> QED BY <1>1, Invariance, PTL
===========================================================================

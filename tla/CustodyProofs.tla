--------------------------- MODULE CustodyProofs ---------------------------
(***************************************************************************)
(* What Custody promises, for any number of threads, keys, operations,     *)
(* faults and crashes.                                                     *)
(*                                                                         *)
(* The properties speak of the account at rest; the invariant adds what    *)
(* each thread at work relies on: that its handle is the account's, that   *)
(* the record it saw is still there, that the key it holds is the one on   *)
(* disk - each for as long as no scar says otherwise - and that every      *)
(* overlap with a deletion did leave its scar.                             *)
(***************************************************************************)
EXTENDS Custody, TLAPS

Writing == {"guard", "mint", "store", "open", "save"}
PastRow == {"forget", "unlink", "rmtree"}
Working == {"signIn", "voice", "doc", "rotate"}

\* Which thread is where, and what it carries there.
AtWork(k) ==
  /\ k.pc = "idle" => k = Idle
  /\ k.pc \in {"take", "register", "settle"} => k.op = "signIn"
  /\ k.pc \in Writing => k.op \in {"signIn", "voice", "doc"}
  /\ k.pc \in PastRow \union {"release", "row"} => k.op = "delete"
  /\ k.pc \in {"load", "restore"} => k.op = "rotate"
  /\ k.op \in Working => k.handle \in Handles
  /\ k.pc \in {"store", "restore"} => k.key \in Keys
  /\ (k.held # None) <=> (k.pc = "save")

Shapes ==
  /\ TypeOK
  /\ \A t \in Tasks : AtWork(task[t])
  /\ \A t \in Tasks : task[t].held = Cached => cache[Process(task[t].op)] # None

\* Handles and keys come from their counters; a key about to be stored is
\* nobody else's, so no deletion destroyed it.
HandlesDrawn ==
  /\ row # None => row <= drawn
  /\ \A h \in wrapped : h <= drawn
  /\ \A t \in Tasks : task[t].op \in Working => task[t].handle <= drawn

KeysMinted ==
  /\ record # None => record.key <= minted
  /\ \A k \in shredded : k <= minted
  /\ \A t \in Tasks : task[t].pc \in {"store", "restore"} => task[t].key <= minted
  /\ \A t \in Tasks : task[t].pc = "store" =>
       /\ task[t].key \notin shredded
       /\ record # None => record.key # task[t].key
       /\ \A s \in Tasks \ {t} :
            task[s].pc \in {"store", "restore"} => task[s].key # task[t].key
  /\ \A t \in Tasks : task[t].pc = "restore" /\ task[t].key \in shredded => "rotate" \in scars
  /\ OnlyRotationRestores

\* An overlap with a deletion leaves its scar, whichever came first.
Marked ==
  /\ \A s, t \in Tasks :
       task[s].op = "delete" /\ task[t].op \in Working => task[t].op \in scars
  /\ \A t \in Tasks : task[t].held = Wiped => "wiped" \in scars

\* NeverLockedOut's hypothesis, and FilesOpen's.
Calm == scars \intersect {"twins", "stranded", "halfDeleted", "signIn", "voice", "doc", "rotate"} = {}
Sound == Calm /\ "read" \notin scars /\ "wiped" \notin scars

\* While the account has a row everybody works for that row's handle; without
\* one there is a deletion finishing or a single first sign-in.
Ours(t) ==
  /\ task[t].op \in Working /\ row # None => task[t].handle = row
  /\ task[t].pc \in PastRow => row = None
  /\ row = None => task[t].op \in {"none", "delete", "signIn"} /\ task[t].pc # "settle"
  /\ row = None /\ task[t].op = "signIn" => task[t].handle = drawn
  /\ row = None /\ task[t].pc \in {"take", "mint"} =>
       record = None /\ task[t].handle \notin wrapped
  /\ row = None /\ task[t].pc = "guard" => record # None /\ record.handle = task[t].handle
  /\ task[t].pc = "store" => record = None /\ task[t].handle \in wrapped
  /\ task[t].pc \in {"open", "save", "register", "load", "restore"} =>
       record # None /\ record.handle = task[t].handle
  /\ task[t].pc = "restore" => record.key = task[t].key

Alone(s, t) ==
  /\ row = None /\ task[s].op = "signIn" /\ task[t].op = "signIn" => s = t
  /\ task[s].pc = "store" /\ task[t].pc = "store" => s = t

AccountHas ==
  /\ row # None /\ record # None => record.handle = row
  /\ row # None /\ record = None /\ row \in wrapped =>
       \E t \in Tasks : task[t].pc = "store" /\ task[t].handle = row
  /\ row = None /\ record # None =>
       \E t \in Tasks : task[t].pc \in {"guard", "open", "save", "register", "forget", "unlink"}

LockInv ==
  Calm => /\ \A t \in Tasks : Ours(t)
          /\ \A s, t \in Tasks : Alone(s, t)
          /\ AccountHas

\* One key: the record's, in every file, cache and hand.
FileInv ==
  Sound =>
    /\ (\A t \in Tasks : task[t].pc # "rmtree") => \A n \in Names : file[n] \in {None, record}
    /\ record # None => \A p \in Processes : cache[p] # None => cache[p].key = record.key
    /\ record = None => cache["web"] = None /\ (row # None => cache["mail"] = None)
    /\ \A t \in Tasks : task[t].pc \in {"unlink", "rmtree"} => cache["web"] = None
    /\ \A t \in Tasks : task[t].pc = "save" => task[t].held \in {Cached, record.key}

\* What the daemon's part of a deletion leaves for the rest.
ReleaseInv ==
  scars = {} =>
    /\ grant => file["token"] # None
    /\ \A t \in Tasks : task[t].pc \in PastRow \union {"row"} => ~grant /\ cache["mail"] = None
    /\ row = None /\ grant => \E t \in Tasks : task[t].pc = "register"

IInv ==
  /\ Shapes /\ HandlesDrawn /\ KeysMinted /\ Marked
  /\ LockInv /\ FileInv /\ ReleaseInv

-----------------------------------------------------------------------------
(* The shapes.                                                             *)

Works ==
  [op : {"none", "signIn", "voice", "doc", "delete", "rotate"},
   pc : {"idle", "take", "guard", "mint", "store", "open", "save", "register", "settle",
         "release", "row", "forget", "unlink", "rmtree", "load", "restore"},
   handle : Handles \union {None}, key : Keys \union {None},
   held : Keys \union {None, Wiped, Cached}]

Cells == [key : Keys, live : BOOLEAN]

LEMMA Distinct ==
  ASSUME CustodyAssumption
  PROVE  /\ None # Wiped /\ None # Cached /\ Wiped # Cached
         /\ None \notin Keys /\ Wiped \notin Keys /\ Cached \notin Keys
         /\ MaxKeys \in Nat /\ MaxKeys >= 1 /\ Handles = Keys /\ Keys \subseteq Nat
         /\ MaxTasks \in Nat /\ MaxFaults \in Nat /\ MaxCrashes \in Nat
         /\ None \notin Sealed /\ None \notin Cells
<1>1. MaxKeys \in Nat \ {0} /\ None # Wiped /\ None # Cached /\ Wiped # Cached
  BY DEF CustodyAssumption
<1>2. MaxTasks \in Nat /\ MaxFaults \in Nat /\ MaxCrashes \in Nat
  BY DEF CustodyAssumption
<1>3. None \notin 1 .. MaxKeys /\ Wiped \notin 1 .. MaxKeys /\ Cached \notin 1 .. MaxKeys
  BY DEF CustodyAssumption
<1>4. None \notin Sealed /\ None \notin Cells
  BY DEF CustodyAssumption, Cells
<1> QED BY <1>1, <1>2, <1>3, <1>4 DEF Keys, Handles

LEMMA IdleWorks ==
  ASSUME CustodyAssumption
  PROVE  Idle \in Works /\ Idle.op = "none" /\ Idle.pc = "idle" /\ Idle.handle = None
         /\ Idle.key = None /\ Idle.held = None
BY DEF Idle, Works

\* What a step makes of thread t, field by field, and of the others.
Became(t, o, p, h, k, b) ==
  /\ task' \in [Tasks -> Works]
  /\ task'[t].op = o /\ task'[t].pc = p /\ task'[t].handle = h
  /\ task'[t].key = k /\ task'[t].held = b

Others(t) == \A s \in Tasks \ {t} : task'[s] = task[s]

Same(s) ==
  /\ task'[s].op = task[s].op /\ task'[s].pc = task[s].pc
  /\ task'[s].handle = task[s].handle /\ task'[s].key = task[s].key

LEMMA WorksOf ==
  ASSUME Shapes
  PROVE  task \in [Tasks -> Works]
BY DEF Shapes, TypeOK, Works

LEMMA GotoBecomes ==
  ASSUME Shapes, NEW t \in Tasks, NEW pc, Goto(t, pc),
         pc \in {"idle", "take", "guard", "mint", "store", "open", "save", "register", "settle",
                 "release", "row", "forget", "unlink", "rmtree", "load", "restore"}
  PROVE  /\ Became(t, task[t].op, pc, task[t].handle, task[t].key, task[t].held)
         /\ Others(t)
BY WorksOf DEF Goto, Became, Others, Works

LEMMA StopBecomes ==
  ASSUME CustodyAssumption, Shapes, NEW t \in Tasks, Stop(t)
  PROVE  /\ task'[t] = Idle
         /\ Became(t, "none", "idle", None, None, None)
         /\ Others(t)
<1>1. task'[t] = Idle /\ task' \in [Tasks -> Works] /\ Others(t)
  BY WorksOf, IdleWorks DEF Stop, Others
<1> QED BY <1>1, IdleWorks DEF Became

\* Releasing the holders of a buffer changes what they hold, and that only.
LEMMA ReleasedIs ==
  ASSUME Shapes, NEW p, NEW b \in Keys \union {Wiped}
  PROVE  /\ Released(p, b) \in [Tasks -> Works]
         /\ \A s \in Tasks :
              /\ Released(p, b)[s].op = task[s].op /\ Released(p, b)[s].pc = task[s].pc
              /\ Released(p, b)[s].handle = task[s].handle
              /\ Released(p, b)[s].key = task[s].key
              /\ Released(p, b)[s].held = IF Process(task[s].op) = p /\ task[s].held = Cached
                                          THEN b ELSE task[s].held
<1>1. task \in [Tasks -> Works]
  BY WorksOf
<1>2. ASSUME NEW s \in Tasks
      PROVE  /\ Released(p, b)[s] \in Works
             /\ Released(p, b)[s].op = task[s].op /\ Released(p, b)[s].pc = task[s].pc
             /\ Released(p, b)[s].handle = task[s].handle
             /\ Released(p, b)[s].key = task[s].key
             /\ Released(p, b)[s].held = IF Process(task[s].op) = p /\ task[s].held = Cached
                                         THEN b ELSE task[s].held
  BY <1>1, <1>2 DEF Released, Holders, Works
<1>3. Released(p, b) \in [Tasks -> Works]
  BY <1>2 DEF Released
<1> QED BY <1>2, <1>3

\* So does replacing the buffer in the cache.
LEMMA DetachedIs ==
  ASSUME CustodyAssumption, Shapes, NEW p \in Processes
  PROVE  /\ Detached(p) \in [Tasks -> Works]
         /\ \A s \in Tasks :
              /\ Detached(p)[s].op = task[s].op /\ Detached(p)[s].pc = task[s].pc
              /\ Detached(p)[s].handle = task[s].handle
              /\ Detached(p)[s].key = task[s].key
              /\ Detached(p)[s].held = IF Process(task[s].op) = p /\ task[s].held = Cached
                                       THEN cache[p].key ELSE task[s].held
<1>1. CASE cache[p] = None
  <2>1. \A s \in Tasks : ~(Process(task[s].op) = p /\ task[s].held = Cached)
    BY <1>1 DEF Shapes
  <2>2. Detached(p) = task
    BY <1>1 DEF Detached
  <2> QED BY <2>1, <2>2, WorksOf
<1>2. CASE cache[p] # None
  <2>1. cache[p].key \in Keys \union {Wiped}
    BY <1>2 DEF Shapes, TypeOK
  <2>2. Detached(p) = Released(p, cache[p].key)
    BY <1>2 DEF Detached
  <2> HIDE DEF Detached
  <2>3. /\ Released(p, cache[p].key) \in [Tasks -> Works]
        /\ \A s \in Tasks :
             /\ Released(p, cache[p].key)[s].op = task[s].op
             /\ Released(p, cache[p].key)[s].pc = task[s].pc
             /\ Released(p, cache[p].key)[s].handle = task[s].handle
             /\ Released(p, cache[p].key)[s].key = task[s].key
             /\ Released(p, cache[p].key)[s].held =
                  IF Process(task[s].op) = p /\ task[s].held = Cached
                  THEN cache[p].key ELSE task[s].held
    BY <2>1, ReleasedIs
  <2> QED BY <2>2, <2>3
<1> QED BY <1>1, <1>2

\* Everything but the threads.
Rest ==
  /\ row \in Handles \union {None}
  /\ record \in Record \union {None}
  /\ file \in [Names -> Sealed \union {None}]
  /\ cache \in [Processes -> Cells \union {None}]
  /\ wrapped \subseteq Handles /\ grant \in BOOLEAN
  /\ drawn \in 0 .. MaxKeys /\ minted \in 0 .. MaxKeys
  /\ shredded \subseteq Keys /\ scars \subseteq Scars
  /\ started \in 0 .. MaxTasks /\ faults \in 0 .. MaxFaults
  /\ crashes \in 0 .. MaxCrashes

LEMMA ShapesAre ==
  /\ Shapes <=>
       /\ Rest /\ task \in [Tasks -> Works]
       /\ \A t \in Tasks : AtWork(task[t])
       /\ \A t \in Tasks : task[t].held = Cached => cache[Process(task[t].op)] # None
  /\ Shapes' <=>
       /\ Rest' /\ task' \in [Tasks -> Works]
       /\ \A t \in Tasks : AtWork(task'[t])
       /\ \A t \in Tasks : task'[t].held = Cached => cache'[Process(task'[t].op)] # None
<1>1. TypeOK <=> Rest /\ task \in [Tasks -> Works]
  BY DEF TypeOK, Rest, Works, Cells
<1>2. TypeOK' <=> Rest' /\ task' \in [Tasks -> Works]
  BY DEF TypeOK, Rest, Works, Cells
<1>3. (\A t \in Tasks : AtWork(task[t]))' <=> \A t \in Tasks : AtWork(task'[t])
  BY DEF AtWork
<1> QED BY <1>1, <1>2, <1>3 DEF Shapes

\* The processes of the threads that write.
LEMMA Homes ==
  /\ \A o : o \in {"signIn", "voice"} => Process(o) = "mail"
  /\ \A o : o \in {"doc", "delete"} => Process(o) = "web"
  /\ \A o : o \in {"none", "rotate"} => Process(o) = "operator"
BY DEF Process

LEMMA WriterHome ==
  ASSUME Shapes, NEW t \in Tasks, task[t].pc \in Writing
  PROVE  Process(task[t].op) \in Processes
BY Homes DEF Shapes, AtWork, Writing, Processes

\* One thread moves; the caches keep what others hold.
LEMMA OneShapes ==
  ASSUME CustodyAssumption, Shapes, NEW t \in Tasks, Rest', task' \in [Tasks -> Works], Others(t),
         AtWork(task'[t]),
         task'[t].held = Cached => cache'[Process(task'[t].op)] # None,
         \A p \in Processes : cache[p] # None => cache'[p] # None
  PROVE  Shapes'
<1>1. ASSUME NEW s \in Tasks \ {t}
      PROVE  AtWork(task'[s]) /\ (task'[s].held = Cached => cache'[Process(task'[s].op)] # None)
  <2>1. AtWork(task[s]) /\ task'[s] = task[s]
        /\ (task[s].held = Cached => cache[Process(task[s].op)] # None)
    BY ShapesAre DEF Others
  <2>2. task[s].held = Cached => Process(task[s].op) \in Processes
    <3>1. task[s].held = Cached => task[s].pc = "save"
      BY <2>1, Distinct DEF AtWork
    <3> QED BY <3>1, WriterHome DEF Writing
  <2> QED BY <2>1, <2>2
<1> QED BY <1>1, ShapesAre

\* The buffer of process p is released on the way.
LEMMA ReleasedThread ==
  ASSUME CustodyAssumption, Shapes, NEW s \in Tasks, NEW p \in Processes,
         NEW b \in Keys \union {Wiped}, task'[s] = Released(p, b)[s],
         \A q \in Processes \ {p} : cache'[q] = cache[q]
  PROVE  AtWork(task'[s]) /\ (task'[s].held = Cached => cache'[Process(task'[s].op)] # None)
<1>1. /\ task'[s] \in Works /\ task[s] \in Works
      /\ task'[s].op = task[s].op /\ task'[s].pc = task[s].pc
      /\ task'[s].handle = task[s].handle /\ task'[s].key = task[s].key
      /\ task'[s].held = IF Process(task[s].op) = p /\ task[s].held = Cached
                         THEN b ELSE task[s].held
  BY ReleasedIs, WorksOf
<1>2. AtWork(task[s]) /\ (task[s].held = Cached => cache[Process(task[s].op)] # None)
  BY DEF Shapes
<1>3. Cached # None /\ b # None /\ b # Cached
  BY Distinct
<1>4. AtWork(task'[s])
  <2>1. CASE Process(task[s].op) = p /\ task[s].held = Cached
    <3>1. task[s].pc = "save"
      BY <1>2, <1>3, <2>1 DEF AtWork
    <3> QED BY <1>1, <1>2, <1>3, <2>1, <3>1 DEF AtWork
  <2>2. CASE ~(Process(task[s].op) = p /\ task[s].held = Cached)
    <3>1. task'[s].held = task[s].held
      BY <1>1, <2>2
    <3>2. task[s].pc = "idle" => task'[s] = Idle
      BY <1>1, <1>2, <3>1 DEF AtWork, Works, Idle
    <3> QED BY <1>1, <1>2, <3>1, <3>2 DEF AtWork
  <2> QED BY <2>1, <2>2
<1>5. task'[s].held = Cached => task[s].held = Cached /\ Process(task[s].op) # p
  BY <1>1, <1>3
<1>6. task[s].held = Cached => Process(task[s].op) \in Processes
  <2>1. task[s].held = Cached => task[s].pc = "save"
    BY <1>2, <1>3 DEF AtWork
  <2> QED BY <2>1, WriterHome DEF Writing
<1> QED BY <1>1, <1>2, <1>4, <1>5, <1>6

LEMMA ReleaseShapes ==
  ASSUME CustodyAssumption, Shapes, NEW t \in Tasks, NEW p \in Processes,
         NEW b \in Keys \union {Wiped},
         Rest', task' \in [Tasks -> Works],
         \A s \in Tasks \ {t} : task'[s] = Released(p, b)[s],
         AtWork(task'[t]), task'[t].held = Cached => cache'[Process(task'[t].op)] # None,
         \A q \in Processes \ {p} : cache'[q] = cache[q]
  PROVE  Shapes'
BY ReleasedThread, ShapesAre

LEMMA InitIInv ==
  ASSUME CustodyAssumption
  PROVE  Init => IInv
<1> SUFFICES ASSUME Init PROVE IInv
  OBVIOUS
<1>1. \A t \in Tasks : task[t] = Idle
  BY DEF Init
<1>2. record \in Record \union {None} /\ (record # None => record = [handle |-> 1, key |-> 1])
  BY Distinct DEF Init, Record, Handles, Keys
<1>3. Rest
  <2>1. file \in [Names -> Sealed \union {None}]
    BY <1>2, Distinct DEF Init, Sealed, Record
  <2>2. row \in Handles \union {None} /\ drawn \in 0 .. MaxKeys /\ minted \in 0 .. MaxKeys
    BY Distinct DEF Init, Handles, Keys
  <2> QED BY <1>2, <2>1, <2>2, Distinct DEF Init, Rest, Handles, Keys
<1>4. task \in [Tasks -> Works]
  BY IdleWorks DEF Init
<1>5. Shapes
  BY <1>1, <1>3, <1>4, IdleWorks, ShapesAre, Distinct DEF AtWork, Writing, PastRow, Working
<1>6. HandlesDrawn /\ KeysMinted /\ Marked
  <2>1. HandlesDrawn
    BY <1>1, <1>2, IdleWorks, Distinct DEF Init, HandlesDrawn, Working
  <2>2. KeysMinted
    BY <1>1, <1>2, IdleWorks DEF Init, KeysMinted, OnlyRotationRestores
  <2>3. Marked
    BY <1>1, IdleWorks, Distinct DEF Marked
  <2> QED BY <2>1, <2>2, <2>3
<1>7. LockInv
  <2>1. \A t \in Tasks : Ours(t)
    BY <1>1, IdleWorks DEF Ours, Working, PastRow
  <2>2. \A s, t \in Tasks : Alone(s, t)
    BY <1>1, IdleWorks DEF Alone
  <2>3. AccountHas
    BY <1>2 DEF Init, AccountHas
  <2> QED BY <2>1, <2>2, <2>3 DEF LockInv
<1>8. FileInv
  BY <1>1, <1>2, IdleWorks DEF Init, FileInv, Processes
<1>9. ReleaseInv
  <2>1. grant <=> record # None
    BY DEF Init
  <2>2. file["token"] = record /\ (row = None => record = None)
    BY DEF Init, Names
  <2> QED BY <1>1, <2>1, <2>2, IdleWorks DEF ReleaseInv, PastRow
<1> QED BY <1>5, <1>6, <1>7, <1>8, <1>9 DEF IInv

-----------------------------------------------------------------------------
(* The actions, one at a time: what becomes of the thread that takes it.   *)

LEMMA BeginBecomes ==
  ASSUME CustodyAssumption, Shapes, NEW t \in Tasks,
         NEW op \in {"signIn", "voice", "doc", "delete", "rotate"},
         NEW pc \in {"take", "guard", "release", "load"},
         NEW h \in Handles \union {None}, NEW more,
         Begin(t, op, pc, h, more)
  PROVE  Became(t, op, pc, h, None, None) /\ Others(t) /\ task[t] = Idle
<1>1. task[t] = Idle
  BY DEF Begin, Doing, Shapes, AtWork
<1> DEFINE k == [Idle EXCEPT !.op = op, !.pc = pc, !.handle = h]
<1>2. k \in Works /\ k.op = op /\ k.pc = pc /\ k.handle = h /\ k.key = None /\ k.held = None
  BY IdleWorks DEF Works
<1>3. task' = [task EXCEPT ![t] = k]
  BY DEF Begin
<1> HIDE DEF k
<1> QED BY <1>1, <1>2, <1>3, WorksOf DEF Became, Others

Begun(t, op, pc, h) ==
  /\ Became(t, op, pc, h, None, None) /\ Others(t) /\ task[t] = Idle
  /\ scars \union Overlap(op) \subseteq scars'
  /\ UNCHANGED <<disk, cache, outside, minted, shredded, faults, crashes>>
  /\ started < MaxTasks /\ started' = started + 1
  /\ drawn' \in 0 .. MaxKeys /\ drawn <= drawn'
  /\ scars' \subseteq scars \union Overlap(op) \union {"twins"}
  /\ \/ /\ op = "signIn" /\ pc = "take" /\ h \in Handles /\ h <= drawn'
        /\ h = IF row # None THEN row ELSE drawn + 1
        /\ row = None /\ InFlight("signIn") => "twins" \in scars'
        /\ drawn' = IF h > drawn THEN h ELSE drawn
     \/ op \in {"voice", "doc"} /\ pc = "guard" /\ h = row /\ row # None /\ UNCHANGED drawn
     \/ op = "delete" /\ pc = "release" /\ h = None /\ row # None /\ UNCHANGED drawn
     \/ /\ op = "rotate" /\ pc = "load" /\ h = row /\ row # None /\ record # None
        /\ UNCHANGED drawn

LEMMA ArriveBegins ==
  ASSUME CustodyAssumption, Shapes, NEW t \in Tasks, Arrive(t)
  PROVE  \E op \in {"signIn", "voice", "doc", "delete", "rotate"},
            pc \in {"take", "guard", "release", "load"}, h \in Handles \union {None} :
           Begun(t, op, pc, h)
<1>0. drawn \in 0 .. MaxKeys /\ Handles = 1 .. MaxKeys /\ MaxKeys \in Nat
      /\ (row # None => row \in Handles)
  BY Distinct DEF Shapes, TypeOK, Handles
<1>1. CASE StartSignIn(t)
  <2> DEFINE h == HandleFor
             more == IF row = None /\ InFlight("signIn") THEN {"twins"} ELSE {}
  <2>1. h \in Handles /\ h = IF row # None THEN row ELSE drawn + 1
    BY <1>1 DEF StartSignIn, HandleFor
  <2>2. Begin(t, "signIn", "take", h, more)
    BY <1>1 DEF StartSignIn
  <2>3. drawn' = IF h > drawn THEN h ELSE drawn
    BY <1>1 DEF StartSignIn
  <2>4. more \subseteq {"twins"} /\ (row = None /\ InFlight("signIn") => "twins" \in more)
    OBVIOUS
  <2> HIDE DEF h, more
  <2>5. Became(t, "signIn", "take", h, None, None) /\ Others(t) /\ task[t] = Idle
    BY <2>1, <2>2, BeginBecomes
  <2>6. drawn' \in 0 .. MaxKeys /\ drawn <= drawn' /\ h <= drawn'
    BY <1>0, <2>1, <2>3
  <2>7. /\ scars' = scars \union Overlap("signIn") \union more
        /\ UNCHANGED <<disk, cache, outside, minted, shredded, faults, crashes>>
        /\ started < MaxTasks /\ started' = started + 1
    BY <2>2 DEF Begin
  <2>8. Begun(t, "signIn", "take", h)
    BY <2>1, <2>3, <2>4, <2>5, <2>6, <2>7 DEF Begun
  <2> QED BY <2>1, <2>8
<1>2. ASSUME NEW op \in {"voice", "doc"}, StartWrite(t, op)
      PROVE  Begun(t, op, "guard", row) /\ row \in Handles
  <2>1. Begin(t, op, "guard", row, {}) /\ row # None /\ UNCHANGED drawn
    BY <1>2 DEF StartWrite
  <2>2. Became(t, op, "guard", row, None, None) /\ Others(t) /\ task[t] = Idle
    BY <1>0, <2>1, BeginBecomes
  <2>3. /\ scars' = scars \union Overlap(op)
        /\ UNCHANGED <<disk, cache, outside, minted, shredded, faults, crashes>>
        /\ started < MaxTasks /\ started' = started + 1
    BY <2>1 DEF Begin
  <2> QED BY <1>0, <2>1, <2>2, <2>3 DEF Begun
<1>3. CASE StartDelete(t)
  <2>1. Begin(t, "delete", "release", None, {}) /\ row # None /\ UNCHANGED drawn
    BY <1>3 DEF StartDelete
  <2>2. Became(t, "delete", "release", None, None, None) /\ Others(t) /\ task[t] = Idle
    BY <2>1, BeginBecomes
  <2>3. /\ scars' = scars \union Overlap("delete")
        /\ UNCHANGED <<disk, cache, outside, minted, shredded, faults, crashes>>
        /\ started < MaxTasks /\ started' = started + 1
    BY <2>1 DEF Begin
  <2>4. Begun(t, "delete", "release", None)
    BY <1>0, <2>1, <2>2, <2>3 DEF Begun
  <2> QED BY <1>0, <2>1, <2>4
<1>4. CASE StartRotate(t)
  <2>1. Begin(t, "rotate", "load", row, {}) /\ row # None /\ record # None /\ UNCHANGED drawn
    BY <1>4 DEF StartRotate
  <2>2. Became(t, "rotate", "load", row, None, None) /\ Others(t) /\ task[t] = Idle
    BY <1>0, <2>1, BeginBecomes
  <2>3. /\ scars' = scars \union Overlap("rotate")
        /\ UNCHANGED <<disk, cache, outside, minted, shredded, faults, crashes>>
        /\ started < MaxTasks /\ started' = started + 1
    BY <2>1 DEF Begin
  <2>4. Begun(t, "rotate", "load", row)
    BY <1>0, <2>1, <2>2, <2>3 DEF Begun
  <2> QED BY <1>0, <2>1, <2>4
<1>5. CASE StartWrite(t, "voice")
  BY <1>0, <1>2, <1>5
<1>6. CASE StartWrite(t, "doc")
  BY <1>0, <1>2, <1>6
<1> QED BY <1>1, <1>3, <1>4, <1>5, <1>6 DEF Arrive

LEMMA OverlapScars ==
  \A op \in {"signIn", "voice", "doc", "delete", "rotate", "read"} : Overlap(op) \subseteq Scars
BY DEF Overlap, Scars, Raced

LEMMA ArriveShapes ==
  ASSUME CustodyAssumption, Shapes, NEW t \in Tasks, Arrive(t)
  PROVE  Shapes'
<1>1. PICK op \in {"signIn", "voice", "doc", "delete", "rotate"},
           pc \in {"take", "guard", "release", "load"}, h \in Handles \union {None} :
         Begun(t, op, pc, h)
  BY ArriveBegins
<1>2. Rest
  BY ShapesAre
<1>3. scars' \subseteq Scars
  BY <1>1, <1>2, OverlapScars DEF Begun, Rest, Scars
<1>4. started' \in 0 .. MaxTasks
  BY <1>1, <1>2, Distinct DEF Begun, Rest
<1>5. Rest'
  BY <1>1, <1>2, <1>3, <1>4 DEF Begun, Rest, disk, outside
<1>6. AtWork(task'[t])
  BY <1>1, <1>2, Distinct DEF Begun, Became, AtWork, Rest, Writing, PastRow, Working
<1>7. task'[t].held # Cached /\ task' \in [Tasks -> Works]
  BY <1>1, Distinct DEF Begun, Became
<1>8. Others(t) /\ cache' = cache
  BY <1>1 DEF Begun
<1> QED BY <1>5, <1>6, <1>7, <1>8, OneShapes

\* The operations of one thread that touch nobody else's.
LEMMA TakeStep ==
  ASSUME CustodyAssumption, Shapes, NEW t \in Tasks, Take(t)
  PROVE  /\ task[t].pc = "take" /\ Others(t) /\ Shapes'
         /\ Became(t, task[t].op, IF record = None THEN "mint" ELSE "guard",
                   task[t].handle, task[t].key, task[t].held)
<1> DEFINE pc == IF record = None THEN "mint" ELSE "guard"
<1>1. task[t].pc = "take" /\ Goto(t, pc) /\ pc \in {"mint", "guard"}
      /\ UNCHANGED <<disk, cache, outside, drawn, minted, history, bounds>>
  BY DEF Take, Doing
<1> HIDE DEF pc
<1>2. Became(t, task[t].op, pc, task[t].handle, task[t].key, task[t].held) /\ Others(t)
  BY <1>1, GotoBecomes
<1>3. Rest'
  BY <1>1, ShapesAre DEF Rest, disk, outside, history, bounds
<1>4. AtWork(task[t])
  BY DEF Shapes
<1>5. AtWork(task'[t])
  BY <1>1, <1>2, <1>4, Distinct DEF Became, AtWork, Writing, PastRow, Working
<1>6. Shapes'
  BY <1>1, <1>2, <1>3, <1>4, <1>5, OneShapes, Distinct DEF Became, AtWork
<1> QED BY <1>1, <1>2, <1>6 DEF pc

LEMMA GuardStep ==
  ASSUME CustodyAssumption, Shapes, NEW t \in Tasks, Guard(t)
  PROVE  /\ task[t].pc = "guard" /\ Others(t) /\ Shapes'
         /\ \E pc \in {"open", "mint"} :
              /\ Became(t, task[t].op, pc, task[t].handle, task[t].key, task[t].held)
              /\ pc = "open" <=> record # None
              /\ pc = "mint" => task[t].op = "signIn" \/ row # None
<1>1. PICK pc \in {"open", "mint"} : Goto(t, pc) /\ (pc = "open" <=> record # None)
                                     /\ (pc = "mint" => task[t].op = "signIn" \/ row # None)
  BY DEF Guard
<1>2. task[t].pc = "guard"
      /\ UNCHANGED <<disk, cache, outside, drawn, minted, history, bounds>>
  BY DEF Guard, Doing
<1>3. Became(t, task[t].op, pc, task[t].handle, task[t].key, task[t].held) /\ Others(t)
  BY <1>1, GotoBecomes
<1>4. Rest'
  BY <1>2, ShapesAre DEF Rest, disk, outside, history, bounds
<1>5. AtWork(task[t])
  BY DEF Shapes
<1>6. AtWork(task'[t])
  BY <1>1, <1>2, <1>3, <1>5, Distinct DEF Became, AtWork, Writing, PastRow, Working
<1>7. Shapes'
  BY <1>2, <1>3, <1>4, <1>5, <1>6, OneShapes, Distinct DEF Became, AtWork
<1> QED BY <1>1, <1>2, <1>3, <1>7

LEMMA MintStep ==
  ASSUME CustodyAssumption, Shapes, NEW t \in Tasks, Mint(t)
  PROVE  /\ Others(t) /\ Shapes' /\ minted' = minted + 1
         /\ Became(t, task[t].op, "store", task[t].handle, minted + 1, None)
<1>1. task[t].pc = "mint" /\ minted < MaxKeys /\ minted' = minted + 1
      /\ wrapped' = wrapped \union {task[t].handle}
      /\ UNCHANGED <<disk, cache, grant, drawn, history, bounds>>
  BY DEF Mint, Doing
<1>2. AtWork(task[t]) /\ task[t] \in Works /\ Rest
  BY ShapesAre, WorksOf DEF Shapes
<1>3. minted + 1 \in Keys /\ minted' \in 0 .. MaxKeys
  BY <1>1, <1>2, Distinct DEF Rest, Keys
<1>4. task' = [task EXCEPT ![t].pc = "store", ![t].key = minted + 1]
  BY <1>1 DEF Mint
<1>5. task[t].held = None /\ task[t].handle \in Handles /\ task[t].op \in {"signIn", "voice", "doc"}
  BY <1>1, <1>2 DEF AtWork, Writing, Working
<1>6. Became(t, task[t].op, "store", task[t].handle, minted + 1, None) /\ Others(t)
  <2> DEFINE k == [task[t] EXCEPT !.pc = "store", !.key = minted + 1]
  <2>1. /\ k \in Works /\ k.op = task[t].op /\ k.pc = "store"
        /\ k.handle = task[t].handle /\ k.key = minted + 1 /\ k.held = None
    BY <1>2, <1>3, <1>5 DEF Works
  <2>2. task' = [task EXCEPT ![t] = k]
    BY <1>4
  <2> HIDE DEF k
  <2> QED BY <2>1, <2>2, WorksOf DEF Became, Others
<1>7. Rest'
  BY <1>1, <1>2, <1>3, <1>5 DEF Rest, disk, history, bounds
<1>8. AtWork(task'[t])
  BY <1>3, <1>5, <1>6 DEF Became, AtWork, Writing, PastRow, Working
<1> QED BY <1>1, <1>6, <1>7, <1>8, OneShapes, Distinct DEF Became

\* The ways to stop early.
LEMMA LeftScars ==
  ASSUME NEW t
  PROVE  Left(t) \subseteq Scars
BY DEF Left, Scars

LEMMA Spent ==
  ASSUME CustodyAssumption, Shapes, Fault
  PROVE  faults' \in 0 .. MaxFaults
BY Distinct DEF Fault, Shapes, TypeOK

LEMMA StopShapes ==
  ASSUME CustodyAssumption, Shapes, NEW t \in Tasks, Stop(t), Rest', UNCHANGED cache
  PROVE  Shapes'
<1>1. Became(t, "none", "idle", None, None, None) /\ Others(t) /\ task'[t] = Idle
  BY StopBecomes
<1>2. AtWork(Idle)
  BY IdleWorks DEF AtWork, Writing, PastRow, Working
<1> QED BY <1>1, <1>2, OneShapes, Distinct DEF Became

LEMMA StopsShapes ==
  ASSUME CustodyAssumption, Shapes, NEW t \in Tasks,
         \/ MintRefused(t) \/ WrapLost(t) \/ OpenFails(t) \/ RegisterRefused(t)
         \/ Rmtree(t) \/ LoadFails(t) \/ Restore(t) \/ Unrecorded(t)
  PROVE  Stop(t) /\ UNCHANGED cache /\ Shapes'
<1>0. Rest /\ AtWork(task[t]) /\ Left(t) \subseteq Scars
  BY ShapesAre, LeftScars
<1>1. ASSUME MintRefused(t)
      PROVE  Stop(t) /\ UNCHANGED cache /\ Rest'
  BY <1>0, <1>1 DEF MintRefused, Rest, disk, outside, bounds
<1>2. ASSUME WrapLost(t)
      PROVE  Stop(t) /\ UNCHANGED cache /\ Rest'
  <2>1. task[t].handle \in Handles
    BY <1>0, <1>2 DEF WrapLost, Doing, AtWork, Writing, Working
  <2>2. faults' \in 0 .. MaxFaults
    BY <1>2, Spent DEF WrapLost
  <2>3. scars' \subseteq Scars
    BY <1>0, <1>2 DEF WrapLost, Rest, Scars
  <2> QED BY <1>0, <1>2, <2>1, <2>2, <2>3 DEF WrapLost, Rest, disk
<1>3. ASSUME OpenFails(t)
      PROVE  Stop(t) /\ UNCHANGED cache /\ Rest'
  <2>1. faults' \in 0 .. MaxFaults
    BY <1>0, <1>3, Distinct DEF OpenFails, Rest
  <2> QED BY <1>0, <1>3, <2>1 DEF OpenFails, Rest, disk, outside
<1>4. ASSUME RegisterRefused(t)
      PROVE  Stop(t) /\ UNCHANGED cache /\ Rest'
  <2>1. faults' \in 0 .. MaxFaults
    BY <1>4, Spent DEF RegisterRefused
  <2> QED BY <1>0, <1>4, <2>1 DEF RegisterRefused, Rest, outside
<1>5. ASSUME Rmtree(t)
      PROVE  Stop(t) /\ UNCHANGED cache /\ Rest'
  BY <1>0, <1>5 DEF Rmtree, Rest, outside, history, bounds
<1>6. ASSUME LoadFails(t)
      PROVE  Stop(t) /\ UNCHANGED cache /\ Rest'
  BY <1>0, <1>6 DEF LoadFails, Rest, disk, outside, history, bounds
<1>7. ASSUME Restore(t)
      PROVE  Stop(t) /\ UNCHANGED cache /\ Rest'
  <2>1. task[t].handle \in Handles /\ task[t].key \in Keys
    BY <1>0, <1>7 DEF Restore, Doing, AtWork, Working
  <2>2. record' \in Record
    BY <1>7, <2>1 DEF Restore, Record
  <2> QED BY <1>0, <1>7, <2>2 DEF Restore, Rest, outside, history, bounds
<1>8. ASSUME Unrecorded(t)
      PROVE  Stop(t) /\ UNCHANGED cache /\ Rest'
  <2>1. faults' \in 0 .. MaxFaults
    BY <1>8, Spent DEF Unrecorded
  <2> QED BY <1>0, <1>8, <2>1 DEF Unrecorded, Rest, disk, outside
<1>9. Stop(t) /\ UNCHANGED cache /\ Rest'
  BY <1>1, <1>2, <1>3, <1>4, <1>5, <1>6, <1>7, <1>8
<1> QED BY <1>9, StopShapes

\* The operations that also change what other threads hold: those with the
\* buffer of process p keep b of it.
Letting(t, p, b) ==
  \A s \in Tasks \ {t} :
    /\ Same(s)
    /\ task'[s].held = IF Process(task[s].op) = p /\ task[s].held = Cached THEN b
                       ELSE task[s].held

\* A thread releases the buffer and ends, or goes on.
LEMMA ReleaseStops ==
  ASSUME CustodyAssumption, Shapes, NEW t \in Tasks, NEW p \in Processes, Rest',
         task' = [Released(p, Wiped) EXCEPT ![t] = Idle], cache' = Forgotten(p)
  PROVE  /\ Became(t, "none", "idle", None, None, None) /\ task'[t] = Idle
         /\ Letting(t, p, Wiped) /\ Shapes'
<1>1. /\ Released(p, Wiped) \in [Tasks -> Works]
      /\ \A s \in Tasks :
           /\ Released(p, Wiped)[s].op = task[s].op /\ Released(p, Wiped)[s].pc = task[s].pc
           /\ Released(p, Wiped)[s].handle = task[s].handle
           /\ Released(p, Wiped)[s].key = task[s].key
           /\ Released(p, Wiped)[s].held =
                IF Process(task[s].op) = p /\ task[s].held = Cached THEN Wiped
                ELSE task[s].held
  BY ReleasedIs
<1>2. /\ task'[t] = Idle /\ task' \in [Tasks -> Works]
      /\ \A s \in Tasks \ {t} : task'[s] = Released(p, Wiped)[s]
  BY <1>1, IdleWorks
<1>3. Became(t, "none", "idle", None, None, None)
  BY <1>2, IdleWorks DEF Became
<1>4. Letting(t, p, Wiped)
  BY <1>1, <1>2 DEF Letting, Same
<1>5. AtWork(task'[t]) /\ task'[t].held # Cached
  BY <1>2, IdleWorks, Distinct DEF AtWork, Writing, PastRow, Working
<1>6. \A q \in Processes \ {p} : cache'[q] = cache[q]
  BY ShapesAre DEF Forgotten, Rest
<1>7. Shapes'
  BY <1>2, <1>5, <1>6, ReleaseShapes
<1> QED BY <1>2, <1>3, <1>4, <1>7

LEMMA ReleaseGoes ==
  ASSUME CustodyAssumption, Shapes, NEW t \in Tasks, NEW p \in Processes, Rest',
         NEW pc \in {"row", "unlink"}, task[t].op = "delete", task[t].pc # "save",
         task' = [Released(p, Wiped) EXCEPT ![t].pc = pc], cache' = Forgotten(p)
  PROVE  /\ Became(t, "delete", pc, task[t].handle, task[t].key, None)
         /\ Letting(t, p, Wiped) /\ Shapes'
<1>1. /\ Released(p, Wiped) \in [Tasks -> Works]
      /\ \A s \in Tasks :
           /\ Released(p, Wiped)[s].op = task[s].op /\ Released(p, Wiped)[s].pc = task[s].pc
           /\ Released(p, Wiped)[s].handle = task[s].handle
           /\ Released(p, Wiped)[s].key = task[s].key
           /\ Released(p, Wiped)[s].held =
                IF Process(task[s].op) = p /\ task[s].held = Cached THEN Wiped
                ELSE task[s].held
  BY ReleasedIs
<1>2. task[t].held = None
  BY Distinct DEF Shapes, AtWork
<1>3. /\ task' \in [Tasks -> Works]
      /\ \A s \in Tasks \ {t} : task'[s] = Released(p, Wiped)[s]
      /\ Became(t, "delete", pc, task[t].handle, task[t].key, None)
  BY <1>1, <1>2, Distinct DEF Became, Works
<1>4. Letting(t, p, Wiped)
  BY <1>1, <1>3 DEF Letting, Same
<1>5. AtWork(task'[t]) /\ task'[t].held # Cached
  BY <1>3, Distinct DEF Became, AtWork, Writing, PastRow, Working
<1>6. \A q \in Processes \ {p} : cache'[q] = cache[q]
  BY ShapesAre DEF Forgotten, Rest
<1>7. Shapes'
  BY <1>3, <1>5, <1>6, ReleaseShapes
<1> QED BY <1>3, <1>4, <1>7

\* A thread replaces the buffer of its own process and goes on.
LEMMA LoadGoes ==
  ASSUME CustodyAssumption, Shapes, NEW t \in Tasks, NEW p \in Processes, Rest',
         NEW pc \in {"guard", "open", "save"}, NEW b \in {None, Cached}, NEW k \in Keys,
         task[t].op \in {"signIn", "voice", "doc"}, Process(task[t].op) = p,
         task[t].held = None, pc = "save" <=> b = Cached,
         cache' = Loaded(p, k), task' \in [Tasks -> Works],
         \A s \in Tasks \ {t} : task'[s] = Detached(p)[s],
         task'[t].op = task[t].op, task'[t].pc = pc, task'[t].handle = task[t].handle,
         task'[t].key = task[t].key, task'[t].held = b
  PROVE  /\ Became(t, task[t].op, pc, task[t].handle, task[t].key, b)
         /\ Letting(t, p, cache[p].key) /\ Shapes'
<1>0. task[t] \in Works /\ AtWork(task[t])
  BY WorksOf DEF Shapes
<1>1. Became(t, task[t].op, pc, task[t].handle, task[t].key, b)
  BY <1>0 DEF Became
<1>2. Letting(t, p, cache[p].key)
  BY DetachedIs DEF Letting, Same
<1>3. AtWork(task'[t])
  BY <1>0, <1>1, Distinct DEF Became, AtWork, Writing, PastRow, Working
<1>4. cache'[p] # None /\ \A q \in Processes \ {p} : cache'[q] = cache[q]
  <2>1. cache' = [cache EXCEPT ![p] = [key |-> k, live |-> TRUE]]
        /\ cache' \in [Processes -> Cells \union {None}]
        /\ cache \in [Processes -> Cells \union {None}]
    BY ShapesAre DEF Loaded, Rest
  <2>2. cache'[p] = [key |-> k, live |-> TRUE] /\ [key |-> k, live |-> TRUE] \in Cells
    BY <2>1 DEF Cells
  <2> QED BY <2>1, <2>2, Distinct
<1>5. Shapes'
  <2>1. CASE cache[p] = None
    <3>1. Detached(p) = task
      BY <2>1 DEF Detached
    <3>2. Others(t)
      BY <3>1 DEF Others
    <3> QED BY <1>1, <1>3, <1>4, <3>2, OneShapes DEF Became
  <2>2. CASE cache[p] # None
    <3>1. Detached(p) = Released(p, cache[p].key) /\ cache[p].key \in Keys
      BY <2>2, ShapesAre DEF Detached, Rest, Cells
    <3>2. task'[t].held = Cached => cache'[Process(task'[t].op)] # None
      BY <1>4
    <3> QED BY <1>1, <1>3, <1>4, <3>1, <3>2, ReleaseShapes DEF Became
  <2> QED BY <2>1, <2>2
<1> QED BY <1>1, <1>2, <1>5

LEMMA RefuseStep ==
  ASSUME CustodyAssumption, Shapes, NEW t \in Tasks, RefuseDeleted(t)
  PROVE  /\ Process(task[t].op) \in Processes
         /\ Became(t, "none", "idle", None, None, None) /\ task'[t] = Idle
         /\ Letting(t, Process(task[t].op), Wiped) /\ Shapes'
<1>1. Process(task[t].op) \in Processes
  BY WriterHome DEF RefuseDeleted, Doing, Writing
<1>2. Rest'
  <2>1. scars' \subseteq Scars
    BY ShapesAre DEF RefuseDeleted, Rest, WipedBy, Scars
  <2>2. cache' \in [Processes -> Cells \union {None}]
    BY <1>1, ShapesAre DEF RefuseDeleted, Rest, Forgotten
  <2> QED BY <2>1, <2>2, ShapesAre DEF RefuseDeleted, Rest, disk, outside, bounds
<1> DEFINE p == Process(task[t].op)
<1>3. task' = [Released(p, Wiped) EXCEPT ![t] = Idle] /\ cache' = Forgotten(p)
  BY DEF RefuseDeleted
<1> HIDE DEF p
<1>4. p \in Processes
  BY <1>1 DEF p
<1>5. Became(t, "none", "idle", None, None, None) /\ task'[t] = Idle
      /\ Letting(t, p, Wiped) /\ Shapes'
  BY <1>2, <1>3, <1>4, ReleaseStops
<1> QED BY <1>4, <1>5 DEF p

LEMMA SettleStep ==
  ASSUME CustodyAssumption, Shapes, NEW t \in Tasks, Settle(t)
  PROVE  /\ Became(t, "none", "idle", None, None, None) /\ task'[t] = Idle
         /\ Letting(t, "mail", Wiped) /\ Shapes'
<1>1. "mail" \in Processes
  BY DEF Processes
<1>2. Rest'
  <2>1. scars' \subseteq Scars
    BY ShapesAre DEF Settle, Rest, WipedBy, Scars
  <2>2. cache' \in [Processes -> Cells \union {None}]
    BY <1>1, ShapesAre DEF Settle, Rest, Forgotten
  <2> QED BY <2>1, <2>2, ShapesAre DEF Settle, Rest, disk, outside, bounds
<1>3. task' = [Released("mail", Wiped) EXCEPT ![t] = Idle] /\ cache' = Forgotten("mail")
  BY DEF Settle
<1> QED BY <1>1, <1>2, <1>3, ReleaseStops

LEMMA ReleaseStep ==
  ASSUME CustodyAssumption, Shapes, NEW t \in Tasks, Release(t)
  PROVE  /\ task[t].pc = "release" /\ task[t].op = "delete"
         /\ Became(t, "delete", "row", task[t].handle, task[t].key, None)
         /\ Letting(t, "mail", Wiped) /\ Shapes'
<1>1. "mail" \in Processes /\ task[t].pc = "release" /\ task[t].op = "delete"
  BY ShapesAre DEF Processes, Release, Doing, AtWork
<1>2. Rest'
  <2>1. scars' \subseteq Scars
    BY ShapesAre DEF Release, Rest, WipedBy, Scars
  <2>2. cache' \in [Processes -> Cells \union {None}]
    BY <1>1, ShapesAre DEF Release, Rest, Forgotten
  <2>3. faults' \in 0 .. MaxFaults
    BY Spent, ShapesAre DEF Release, Rest
  <2>4. grant' \in BOOLEAN
    <3>1. grant \in BOOLEAN
      BY ShapesAre DEF Rest
    <3>2. grant' = (grant /\ ~Revocable) \/ grant' = grant
      BY DEF Release
    <3> QED BY <3>1, <3>2, Zenon
  <2> QED BY <2>1, <2>2, <2>3, <2>4, ShapesAre DEF Release, Rest, disk
<1>3. task' = [Released("mail", Wiped) EXCEPT ![t].pc = "row"] /\ cache' = Forgotten("mail")
  BY DEF Release
<1> QED BY <1>1, <1>2, <1>3, ReleaseGoes

LEMMA ForgetStep ==
  ASSUME CustodyAssumption, Shapes, NEW t \in Tasks, ForgetKey(t)
  PROVE  /\ task[t].pc = "forget" /\ task[t].op = "delete"
         /\ Became(t, "delete", "unlink", task[t].handle, task[t].key, None)
         /\ Letting(t, "web", Wiped) /\ Shapes'
<1>1. "web" \in Processes /\ task[t].pc = "forget" /\ task[t].op = "delete"
  BY ShapesAre DEF Processes, ForgetKey, Doing, AtWork, PastRow
<1>2. Rest'
  <2>1. scars' \subseteq Scars
    BY ShapesAre DEF ForgetKey, Rest, WipedBy, Scars
  <2>2. cache' \in [Processes -> Cells \union {None}]
    BY <1>1, ShapesAre DEF ForgetKey, Rest, Forgotten
  <2> QED BY <2>1, <2>2, ShapesAre DEF ForgetKey, Rest, disk, outside, bounds
<1>3. task' = [Released("web", Wiped) EXCEPT ![t].pc = "unlink"] /\ cache' = Forgotten("web")
  BY DEF ForgetKey
<1> QED BY <1>1, <1>2, <1>3, ReleaseGoes

LEMMA StoreStep ==
  ASSUME CustodyAssumption, Shapes, NEW t \in Tasks, StoreKey(t)
  PROVE  /\ task[t].pc = "store" /\ task[t].key \in Keys /\ task[t].handle \in Handles
         /\ Process(task[t].op) \in Processes
         /\ \E pc \in {"guard", "open"} :
              /\ Became(t, task[t].op, pc, task[t].handle, task[t].key, None)
              /\ pc = "guard" <=> task[t].op = "signIn"
         /\ Letting(t, Process(task[t].op), cache[Process(task[t].op)].key) /\ Shapes'
<1> DEFINE p == Process(task[t].op)
           k == task[t].key
           pc == IF task[t].op = "signIn" THEN "guard" ELSE "open"
<1>0. task[t].pc = "store" /\ record' = [handle |-> task[t].handle, key |-> k]
      /\ cache' = Loaded(p, k) /\ task' = [Detached(p) EXCEPT ![t].pc = pc]
      /\ UNCHANGED <<row, file, outside, drawn, minted, history, bounds>>
  BY DEF StoreKey, Doing
<1>1. /\ p \in Processes /\ k \in Keys /\ task[t].handle \in Handles
      /\ task[t].op \in {"signIn", "voice", "doc"} /\ task[t].held = None
  <2>1. AtWork(task[t])
    BY DEF Shapes
  <2> QED BY <1>0, <2>1, WriterHome DEF AtWork, Writing, Working
<1>p. pc \in {"guard", "open"} /\ (pc = "guard" <=> task[t].op = "signIn")
  OBVIOUS
<1> HIDE DEF p, k, pc
<1>2. Rest'
  <2>1. record' \in Record
    BY <1>0, <1>1 DEF Record
  <2>2. cache' \in [Processes -> Cells \union {None}]
    BY <1>0, <1>1, ShapesAre DEF Loaded, Rest, Cells
  <2> QED BY <1>0, <2>1, <2>2, ShapesAre DEF Rest, outside, history, bounds
<1>3. /\ task' \in [Tasks -> Works]
      /\ \A s \in Tasks \ {t} : task'[s] = Detached(p)[s]
      /\ task'[t].op = task[t].op /\ task'[t].pc = pc /\ task'[t].handle = task[t].handle
      /\ task'[t].key = task[t].key /\ task'[t].held = None
  <2>1. /\ Detached(p) \in [Tasks -> Works]
        /\ Detached(p)[t].op = task[t].op /\ Detached(p)[t].handle = task[t].handle
        /\ Detached(p)[t].key = task[t].key /\ Detached(p)[t].held = task[t].held
    BY <1>1, DetachedIs, Distinct
  <2>2. [Detached(p)[t] EXCEPT !.pc = pc] \in Works
    BY <1>p, <2>1 DEF Works
  <2>3. task' = [Detached(p) EXCEPT ![t] = [Detached(p)[t] EXCEPT !.pc = pc]]
    BY <1>0
  <2>4. /\ [Detached(p)[t] EXCEPT !.pc = pc].op = task[t].op
        /\ [Detached(p)[t] EXCEPT !.pc = pc].pc = pc
        /\ [Detached(p)[t] EXCEPT !.pc = pc].handle = task[t].handle
        /\ [Detached(p)[t] EXCEPT !.pc = pc].key = task[t].key
        /\ [Detached(p)[t] EXCEPT !.pc = pc].held = None
    BY <1>1, <2>1 DEF Works
  <2> QED BY <2>1, <2>2, <2>3, <2>4
<1>4. /\ Became(t, task[t].op, pc, task[t].handle, task[t].key, None)
      /\ Letting(t, p, cache[p].key) /\ Shapes'
  <2>1. Process(task[t].op) = p /\ pc \in {"guard", "open", "save"} /\ pc # "save"
        /\ Cached # None
    BY <1>p, Distinct DEF p
  <2> QED BY <1>0, <1>1, <1>2, <1>3, <2>1, LoadGoes
<1> QED BY <1>0, <1>1, <1>p, <1>4 DEF p, k

LEMMA OpenStep ==
  ASSUME CustodyAssumption, Shapes, NEW t \in Tasks, Open(t)
  PROVE  /\ task[t].pc = "open" /\ task[t].op \in {"signIn", "voice", "doc"}
         /\ Process(task[t].op) \in Processes
         /\ Became(t, task[t].op, "save", task[t].handle, task[t].key, Cached)
         /\ Letting(t, Process(task[t].op),
                    IF cache' = cache THEN Cached ELSE cache[Process(task[t].op)].key)
         /\ Shapes'
         /\ cache' # cache => /\ Opens(task[t].handle)
                              /\ cache' = Loaded(Process(task[t].op), record.key)
<1> DEFINE p == Process(task[t].op)
           k == record.key
<1>0. /\ task[t].pc = "open"
      /\ \/ /\ Fresh(p) /\ UNCHANGED cache
            /\ task' = [task EXCEPT ![t].pc = "save", ![t].held = Cached]
         \/ /\ ~Fresh(p) /\ Opens(task[t].handle) /\ cache' = Loaded(p, k)
            /\ task' = [Detached(p) EXCEPT ![t].pc = "save", ![t].held = Cached]
      /\ UNCHANGED <<disk, outside, drawn, minted, history, bounds>>
  BY DEF Open, Doing
<1>1. /\ p \in Processes /\ task[t].op \in {"signIn", "voice", "doc"} /\ task[t].held = None
      /\ task[t].handle \in Handles
  <2>1. AtWork(task[t])
    BY DEF Shapes
  <2> QED BY <1>0, <2>1, WriterHome DEF AtWork, Writing, Working
<1>2. Opens(task[t].handle) => k \in Keys
  BY ShapesAre DEF Opens, Rest, Record
<1>d. p = Process(task[t].op)
  OBVIOUS
<1> HIDE DEF p, k
<1>3. ASSUME NEW F \in [Tasks -> Works],
             F[t].op = task[t].op, F[t].handle = task[t].handle, F[t].key = task[t].key,
             task' = [F EXCEPT ![t].pc = "save", ![t].held = Cached]
      PROVE  /\ task' \in [Tasks -> Works]
             /\ \A s \in Tasks \ {t} : task'[s] = F[s]
             /\ task'[t].op = task[t].op /\ task'[t].pc = "save"
             /\ task'[t].handle = task[t].handle /\ task'[t].key = task[t].key
             /\ task'[t].held = Cached
  <2> DEFINE w == [F[t] EXCEPT !.pc = "save", !.held = Cached]
  <2>1. /\ w \in Works /\ w.op = task[t].op /\ w.pc = "save"
        /\ w.handle = task[t].handle /\ w.key = task[t].key /\ w.held = Cached
    BY <1>3 DEF Works
  <2>2. task' = [F EXCEPT ![t] = w]
    BY <1>3
  <2> HIDE DEF w
  <2> QED BY <1>3, <2>1, <2>2
<1>4. CASE /\ Fresh(p) /\ UNCHANGED cache
           /\ task' = [task EXCEPT ![t].pc = "save", ![t].held = Cached]
  <2>1. /\ task' \in [Tasks -> Works] /\ Others(t)
        /\ Became(t, task[t].op, "save", task[t].handle, task[t].key, Cached)
    BY <1>3, <1>4, WorksOf DEF Others, Became
  <2>2. Rest'
    BY <1>0, <1>4, ShapesAre DEF Rest, disk, outside, history, bounds
  <2>3. AtWork(task'[t])
    BY <1>1, <2>1, Distinct DEF Became, AtWork, Writing, PastRow, Working
  <2>4. cache'[Process(task'[t].op)] # None
    BY <1>4, <1>d, <2>1 DEF Became, Fresh
  <2>5. Shapes'
    BY <1>4, <2>1, <2>2, <2>3, <2>4, OneShapes
  <2>6. Letting(t, p, IF cache' = cache THEN Cached ELSE cache[p].key)
    BY <1>4, <2>1 DEF Letting, Same, Others
  <2> QED BY <1>0, <1>1, <1>4, <1>d, <2>1, <2>5, <2>6
<1>5. CASE /\ ~Fresh(p) /\ Opens(task[t].handle) /\ cache' = Loaded(p, k)
           /\ task' = [Detached(p) EXCEPT ![t].pc = "save", ![t].held = Cached]
  <2>0. k \in Keys
    BY <1>2, <1>5
  <2>1. /\ Detached(p) \in [Tasks -> Works]
        /\ Detached(p)[t].op = task[t].op /\ Detached(p)[t].handle = task[t].handle
        /\ Detached(p)[t].key = task[t].key
    BY <1>1, DetachedIs
  <2>2. /\ task' \in [Tasks -> Works]
        /\ \A s \in Tasks \ {t} : task'[s] = Detached(p)[s]
        /\ task'[t].op = task[t].op /\ task'[t].pc = "save"
        /\ task'[t].handle = task[t].handle /\ task'[t].key = task[t].key
        /\ task'[t].held = Cached
    BY <1>3, <1>5, <2>1
  <2>3. Rest'
    <3>1. cache' \in [Processes -> Cells \union {None}]
      BY <1>1, <1>5, <2>0, ShapesAre DEF Loaded, Rest, Cells
    <3> QED BY <1>0, <3>1, ShapesAre DEF Rest, disk, outside, history, bounds
  <2>4. /\ Became(t, task[t].op, "save", task[t].handle, task[t].key, Cached)
        /\ Letting(t, p, cache[p].key) /\ Shapes'
    BY <1>1, <1>5, <1>d, <2>0, <2>2, <2>3, LoadGoes
  <2>5. cache' # cache
    <3>1. cache'[p] = [key |-> k, live |-> TRUE]
      BY <1>1, <1>5, ShapesAre DEF Loaded, Rest
    <3>2. cache'[p] \in Cells
      BY <2>0, <3>1 DEF Cells
    <3>3. cache'[p].live = TRUE
      BY <3>1
    <3> QED BY <1>5, <3>2, <3>3, Distinct DEF Fresh
  <2> QED BY <1>0, <1>1, <1>5, <1>d, <2>4, <2>5 DEF k
<1> QED BY <1>0, <1>4, <1>5

LEMMA KeyInHandIs ==
  ASSUME CustodyAssumption, Shapes, NEW t \in Tasks, task[t].pc = "save"
  PROVE  KeyInHand(t) \in Keys \union {Wiped}
<1>1. AtWork(task[t]) /\ task[t] \in Works
      /\ (task[t].held = Cached => cache[Process(task[t].op)] # None)
  BY ShapesAre
<1>2. Process(task[t].op) \in Processes
  BY WriterHome DEF Writing
<1>3. CASE task[t].held = Cached
  BY <1>1, <1>2, <1>3, ShapesAre DEF KeyInHand, Rest, Cells
<1>4. CASE task[t].held # Cached
  BY <1>1, <1>4 DEF KeyInHand, AtWork, Works
<1> QED BY <1>3, <1>4

LEMMA SaveStep ==
  ASSUME CustodyAssumption, Shapes, NEW t \in Tasks, Save(t)
  PROVE  /\ task[t].pc = "save" /\ Others(t) /\ Shapes'
         /\ \/ /\ task[t].op = "signIn"
               /\ Became(t, "signIn", "register", task[t].handle, task[t].key, None)
            \/ /\ task[t].op # "signIn" /\ task'[t] = Idle
               /\ Became(t, "none", "idle", None, None, None)
<1>0. AtWork(task[t]) /\ task[t].pc = "save" /\ task[t] \in Works /\ Rest
      /\ task[t].handle \in Handles
  BY ShapesAre DEF Save, Doing, AtWork, Writing, Working
<1>1. Rest'
  <2>1. KeyInHand(t) \in Keys \union {Wiped}
    BY <1>0, KeyInHandIs
  <2>2. [handle |-> task[t].handle, key |-> KeyInHand(t)] \in Sealed
    BY <1>0, <2>1 DEF Sealed
  <2>3. file' \in [Names -> Sealed \union {None}]
    BY <1>0, <2>2 DEF Save, Rest, Names
  <2>4. grant' \in BOOLEAN
    <3>1. grant' = (grant \/ task[t].op = "signIn")
      BY DEF Save
    <3> QED BY <1>0, <3>1, Zenon DEF Rest
  <2> QED BY <1>0, <2>3, <2>4 DEF Save, Rest, history, bounds
<1>2. CASE task[t].op = "signIn"
  <2> DEFINE w == [task[t] EXCEPT !.pc = "register", !.held = None]
  <2>1. /\ w \in Works /\ w.op = "signIn" /\ w.pc = "register"
        /\ w.handle = task[t].handle /\ w.key = task[t].key /\ w.held = None
    BY <1>0, <1>2 DEF Works
  <2>2. task' = [task EXCEPT ![t] = w] /\ cache' = cache
    BY <1>2 DEF Save
  <2> HIDE DEF w
  <2>3. Became(t, "signIn", "register", task[t].handle, task[t].key, None) /\ Others(t)
    BY <2>1, <2>2, WorksOf DEF Became, Others
  <2>4. AtWork(task'[t])
    BY <1>0, <2>3 DEF Became, AtWork, Writing, PastRow, Working
  <2>5. Shapes'
    BY <1>1, <2>2, <2>3, <2>4, OneShapes, Distinct DEF Became
  <2> QED BY <1>0, <1>2, <2>3, <2>5
<1>3. CASE task[t].op # "signIn"
  <2>1. Stop(t) /\ UNCHANGED cache
    BY <1>3 DEF Save
  <2> QED BY <1>0, <1>1, <1>3, <2>1, StopBecomes, StopShapes
<1> QED BY <1>2, <1>3

LEMMA RegisterStep ==
  ASSUME CustodyAssumption, Shapes, NEW t \in Tasks, Register(t)
  PROVE  /\ task[t].pc = "register" /\ task[t].op = "signIn" /\ Others(t) /\ Shapes'
         /\ Became(t, "signIn", "settle", task[t].handle, task[t].key, None)
<1>0. /\ task[t].pc = "register" /\ task[t].op = "signIn" /\ task[t].held = None
      /\ task[t].handle \in Handles
  BY ShapesAre DEF Register, Doing, AtWork, Working
<1>1. Goto(t, "settle") /\ row' = (IF row = None THEN task[t].handle ELSE row)
      /\ UNCHANGED <<record, file, cache, outside, drawn, minted, history, bounds>>
  BY DEF Register
<1>2. Became(t, "signIn", "settle", task[t].handle, task[t].key, None) /\ Others(t)
  BY <1>0, <1>1, GotoBecomes
<1>3. Rest'
  BY <1>0, <1>1, ShapesAre DEF Rest, outside, history, bounds
<1>4. AtWork(task'[t])
  BY <1>0, <1>2 DEF Became, AtWork, Writing, PastRow, Working
<1> QED BY <1>0, <1>1, <1>2, <1>3, <1>4, OneShapes, Distinct DEF Became

LEMMA DeleteGoes ==
  ASSUME CustodyAssumption, Shapes, NEW t \in Tasks, NEW pc \in {"row", "forget", "rmtree"},
         task[t].op = "delete", task[t].pc # "save", Goto(t, pc), Rest', UNCHANGED cache
  PROVE  /\ Others(t) /\ Shapes'
         /\ Became(t, "delete", pc, task[t].handle, task[t].key, None)
<1>0. task[t].held = None
  BY ShapesAre DEF AtWork
<1>1. Became(t, "delete", pc, task[t].handle, task[t].key, None) /\ Others(t)
  BY <1>0, GotoBecomes
<1>2. AtWork(task'[t])
  BY <1>1 DEF Became, AtWork, Writing, PastRow, Working
<1> QED BY <1>1, <1>2, OneShapes, Distinct DEF Became

LEMMA UnreleasedStep ==
  ASSUME CustodyAssumption, Shapes, NEW t \in Tasks, Unreleased(t)
  PROVE  /\ task[t].pc = "release" /\ task[t].op = "delete" /\ Others(t) /\ Shapes'
         /\ Became(t, "delete", "row", task[t].handle, task[t].key, None)
<1>0. task[t].pc = "release" /\ task[t].op = "delete"
  BY ShapesAre DEF Unreleased, Doing, AtWork
<1>1. Rest'
  <2>1. scars' \subseteq Scars
    BY ShapesAre DEF Unreleased, Rest, Scars
  <2>2. faults' \in 0 .. MaxFaults
    BY Spent DEF Unreleased
  <2> QED BY <2>1, <2>2, ShapesAre DEF Unreleased, Rest, disk, outside
<1>2. Goto(t, "row") /\ UNCHANGED cache
  BY DEF Unreleased
<1> QED BY <1>0, <1>1, <1>2, DeleteGoes

LEMMA DropRowStep ==
  ASSUME CustodyAssumption, Shapes, NEW t \in Tasks, DropRow(t)
  PROVE  /\ task[t].pc = "row" /\ task[t].op = "delete" /\ Others(t) /\ Shapes'
         /\ \/ /\ row = None /\ task'[t] = Idle
               /\ Became(t, "none", "idle", None, None, None)
            \/ row # None /\ Became(t, "delete", "forget", task[t].handle, task[t].key, None)
<1>0. task[t].pc = "row" /\ task[t].op = "delete"
  BY ShapesAre DEF DropRow, Doing, AtWork
<1>1. Rest' /\ UNCHANGED cache
  BY ShapesAre DEF DropRow, Rest, outside, history, bounds
<1>2. CASE row = None
  <2>1. Stop(t)
    BY <1>2 DEF DropRow
  <2> QED BY <1>0, <1>1, <1>2, <2>1, StopBecomes, StopShapes
<1>3. CASE row # None
  <2>1. Goto(t, "forget")
    BY <1>3 DEF DropRow
  <2> QED BY <1>0, <1>1, <1>3, <2>1, DeleteGoes
<1> QED BY <1>2, <1>3

LEMMA UnlinkStep ==
  ASSUME CustodyAssumption, Shapes, NEW t \in Tasks, Unlink(t)
  PROVE  /\ task[t].pc = "unlink" /\ task[t].op = "delete" /\ Others(t) /\ Shapes'
         /\ Became(t, "delete", "rmtree", task[t].handle, task[t].key, None)
<1>0. task[t].pc = "unlink" /\ task[t].op = "delete"
  BY ShapesAre DEF Unlink, Doing, AtWork, PastRow
<1>1. Rest'
  <2>1. shredded' \subseteq Keys
    BY ShapesAre DEF Unlink, Rest, Record
  <2> QED BY <2>1, ShapesAre DEF Unlink, Rest, outside, bounds
<1>2. Goto(t, "rmtree") /\ UNCHANGED cache
  BY DEF Unlink
<1> QED BY <1>0, <1>1, <1>2, DeleteGoes

LEMMA LoadStep ==
  ASSUME CustodyAssumption, Shapes, NEW t \in Tasks, Load(t)
  PROVE  /\ task[t].pc = "load" /\ task[t].op = "rotate" /\ Others(t) /\ Shapes'
         /\ record # None /\ record.handle = task[t].handle /\ record.key \in Keys
         /\ Became(t, "rotate", "restore", task[t].handle, record.key, None)
<1>0. /\ task[t].pc = "load" /\ task[t].op = "rotate" /\ task[t].held = None
      /\ task[t].handle \in Handles /\ task[t] \in Works
  BY ShapesAre DEF Load, Doing, AtWork, Working
<1>1. record # None /\ record.handle = task[t].handle /\ record.key \in Keys
  BY ShapesAre DEF Load, Opens, Rest, Record
<1>2. Rest' /\ UNCHANGED cache
  BY ShapesAre DEF Load, Rest, disk, outside, history, bounds
<1> DEFINE w == [task[t] EXCEPT !.pc = "restore", !.key = record.key]
<1>3. /\ w \in Works /\ w.op = "rotate" /\ w.pc = "restore"
      /\ w.handle = task[t].handle /\ w.key = record.key /\ w.held = None
  BY <1>0, <1>1 DEF Works
<1>4. task' = [task EXCEPT ![t] = w]
  BY DEF Load
<1> HIDE DEF w
<1>5. Became(t, "rotate", "restore", task[t].handle, record.key, None) /\ Others(t)
  BY <1>3, <1>4, WorksOf DEF Became, Others
<1>6. AtWork(task'[t])
  BY <1>0, <1>1, <1>5 DEF Became, AtWork, Writing, PastRow, Working
<1> QED BY <1>0, <1>1, <1>2, <1>5, <1>6, OneShapes, Distinct DEF Became

\* The steps that no thread of Tasks takes.
LEMMA ReadStep ==
  ASSUME CustodyAssumption, Shapes, NEW p \in Processes, Read(p)
  PROVE  /\ Shapes' /\ record # None
         /\ \A s \in Tasks :
              /\ Same(s)
              /\ task'[s].held = IF Process(task[s].op) = p /\ task[s].held = Cached
                                 THEN cache[p].key ELSE task[s].held
<1>0. Rest /\ record \in Record /\ cache' = Loaded(p, record.key) /\ task' = Detached(p)
  BY ShapesAre DEF Read, Rest
<1>1. cache' \in [Processes -> Cells \union {None}] /\ cache'[p] \in Cells
      /\ \A q \in Processes \ {p} : cache'[q] = cache[q]
  BY <1>0 DEF Loaded, Rest, Cells, Record
<1>2. scars' \subseteq Scars
  BY <1>0, OverlapScars DEF Read, Rest
<1>3. Rest'
  BY <1>0, <1>1, <1>2 DEF Read, Rest, disk, outside, bounds
<1>4. task' \in [Tasks -> Works]
  BY <1>0, DetachedIs
<1>5. ASSUME NEW s \in Tasks
      PROVE  AtWork(task'[s]) /\ (task'[s].held = Cached => cache'[Process(task'[s].op)] # None)
  <2>1. CASE cache[p] = None
    <3>1. task'[s] = task[s] /\ AtWork(task[s])
          /\ (task[s].held = Cached => cache[Process(task[s].op)] # None)
      BY <1>0, <2>1, ShapesAre DEF Detached
    <3>2. task[s].held = Cached => Process(task[s].op) \in Processes
      <4>1. task[s].held = Cached => task[s].pc = "save"
        BY <3>1, Distinct DEF AtWork
      <4> QED BY <4>1, WriterHome DEF Writing
    <3> QED BY <1>1, <2>1, <3>1, <3>2
  <2>2. CASE cache[p] # None
    <3>1. task'[s] = Released(p, cache[p].key)[s] /\ cache[p].key \in Keys
      BY <1>0, <2>2 DEF Detached, Rest, Cells
    <3> QED BY <1>1, <3>1, ReleasedThread
  <2> QED BY <2>1, <2>2
<1>6. \A s \in Tasks :
        /\ Same(s)
        /\ task'[s].held = IF Process(task[s].op) = p /\ task[s].held = Cached
                           THEN cache[p].key ELSE task[s].held
  BY <1>0, DetachedIs DEF Same
<1> QED BY <1>0, <1>3, <1>4, <1>5, <1>6, ShapesAre DEF Read

LEMMA ExpireStep ==
  ASSUME CustodyAssumption, Shapes, NEW p \in Processes, Expire(p)
  PROVE  /\ Shapes' /\ task' = task
         /\ \A q \in Processes : (cache'[q] = None <=> cache[q] = None)
                                 /\ (cache[q] # None => cache'[q].key = cache[q].key)
<1>0. Rest /\ cache[p] \in Cells /\ task' = task
  BY ShapesAre DEF Expire, Fresh, Rest
<1> DEFINE c == [cache[p] EXCEPT !.live = FALSE]
<1>1. c \in Cells /\ c.key = cache[p].key
  BY <1>0 DEF Cells
<1>2. cache' = [cache EXCEPT ![p] = c]
  BY DEF Expire
<1> HIDE DEF c
<1>3. cache' \in [Processes -> Cells \union {None}]
  BY <1>0, <1>1, <1>2 DEF Rest
<1>4. \A q \in Processes : (cache'[q] = None <=> cache[q] = None)
                           /\ (cache[q] # None => cache'[q].key = cache[q].key)
  BY <1>0, <1>1, <1>2, Distinct DEF Rest
<1>5. Rest'
  BY <1>0, <1>3 DEF Expire, Rest, disk, outside, history, bounds
<1>6. ASSUME NEW s \in Tasks
      PROVE  AtWork(task[s]) /\ (task[s].held = Cached => cache'[Process(task[s].op)] # None)
  <2>1. AtWork(task[s]) /\ (task[s].held = Cached => cache[Process(task[s].op)] # None)
    BY ShapesAre
  <2>2. task[s].held = Cached => task[s].pc = "save"
    BY <2>1, Distinct DEF AtWork
  <2> QED BY <1>4, <2>1, <2>2, WriterHome DEF Writing
<1> QED BY <1>0, <1>4, <1>5, <1>6, ShapesAre

LEMMA CrashStep ==
  ASSUME CustodyAssumption, Shapes, NEW p \in Processes, Crash(p)
  PROVE  /\ Shapes'
         /\ \A s \in Tasks : IF Process(task[s].op) = p
                             THEN task'[s] = Idle /\ Left(s) \subseteq scars'
                             ELSE task'[s] = task[s]
         /\ cache' = [cache EXCEPT ![p] = None]
<1>0. Rest /\ task \in [Tasks -> Works]
  BY ShapesAre
<1>1. \A s \in Tasks : IF Process(task[s].op) = p
                       THEN task'[s] = Idle /\ Left(s) \subseteq scars'
                       ELSE task'[s] = task[s]
  BY DEF Crash
<1>2. scars' \subseteq Scars
  BY <1>0, LeftScars DEF Crash, Rest
<1>3. crashes' \in 0 .. MaxCrashes
  BY <1>0, Distinct DEF Crash, Rest
<1>4. Rest'
  BY <1>0, <1>2, <1>3 DEF Crash, Rest, disk, outside
<1>5. task' \in [Tasks -> Works]
  <2>1. \A s \in Tasks : task'[s] \in Works
    BY <1>0, <1>1, IdleWorks
  <2> QED BY <2>1 DEF Crash
<1>6. ASSUME NEW s \in Tasks
      PROVE  AtWork(task'[s]) /\ (task'[s].held = Cached => cache'[Process(task'[s].op)] # None)
  <2>1. CASE Process(task[s].op) = p
    <3>1. AtWork(Idle) /\ Idle.held # Cached
      BY IdleWorks, Distinct DEF AtWork, Writing, PastRow, Working
    <3> QED BY <1>1, <2>1, <3>1
  <2>2. CASE Process(task[s].op) # p
    <3>1. AtWork(task[s]) /\ (task[s].held = Cached => cache[Process(task[s].op)] # None)
          /\ task'[s] = task[s]
      BY <1>1, <2>2, ShapesAre
    <3>2. task[s].held = Cached => task[s].pc = "save"
      BY <3>1, Distinct DEF AtWork
    <3> QED BY <1>0, <2>2, <3>1, <3>2, WriterHome DEF Crash, Writing, Rest
  <2> QED BY <2>1, <2>2
<1> QED BY <1>1, <1>4, <1>5, <1>6, ShapesAre DEF Crash

LEMMA ClearStep ==
  ASSUME CustodyAssumption, Shapes, ClearDoc
  PROVE  Shapes' /\ task' = task
<1>1. Rest' /\ task' = task /\ cache' = cache
  BY ShapesAre DEF ClearDoc, Rest, outside, history, bounds, Names
<1> QED BY <1>1, ShapesAre

-----------------------------------------------------------------------------
(* What every step but an arrival keeps: threads go on with their own      *)
(* operation and handle or end, and nothing but a wipe leaves zeros.       *)

Theirs == {task[s].handle : s \in {u \in Tasks : task[u].op \in Working}}

KeptBy(s) ==
  /\ task'[s] = Idle \/ (task'[s].op = task[s].op /\ task'[s].handle = task[s].handle)
  /\ task'[s].held = Wiped => task[s].held = Wiped \/ "wiped" \in scars'

Frame ==
  /\ \A s \in Tasks : KeptBy(s)
  /\ scars \subseteq scars' /\ drawn' = drawn
  /\ row' \in {row, None} \union Theirs
  /\ wrapped' \subseteq wrapped \union Theirs

LEMMA FrameKeeps ==
  ASSUME CustodyAssumption, Shapes, HandlesDrawn, Marked, Frame
  PROVE  HandlesDrawn' /\ Marked'
<1>1. \A h \in Theirs : h <= drawn
  BY DEF Theirs, HandlesDrawn
<1>2. (row' # None => row' <= drawn') /\ \A h \in wrapped' : h <= drawn'
  BY <1>1 DEF Frame, HandlesDrawn
<1>3. ASSUME NEW s \in Tasks
      PROVE  /\ task'[s].op \in Working => task'[s].handle <= drawn'
             /\ task'[s].op \in Working \union {"delete"} => task'[s].op = task[s].op
             /\ task'[s].held = Wiped => "wiped" \in scars'
  BY IdleWorks, Distinct DEF Frame, KeptBy, HandlesDrawn, Marked, Working
<1>4. HandlesDrawn'
  BY <1>2, <1>3 DEF HandlesDrawn
<1>5. Marked'
  BY <1>3 DEF Marked, Frame, Working
<1> QED BY <1>4, <1>5

LEMMA OneFrame ==
  ASSUME CustodyAssumption, Shapes, NEW t \in Tasks, Others(t),
         task'[t] = Idle \/ (task'[t].op = task[t].op /\ task'[t].handle = task[t].handle),
         task'[t].held # Wiped, scars \subseteq scars', drawn' = drawn,
         row' \in {row, None} \union Theirs, wrapped' \subseteq wrapped \union Theirs
  PROVE  Frame
BY DEF Frame, KeptBy, Others

LEMMA LettingFrame ==
  ASSUME CustodyAssumption, Shapes, NEW t \in Tasks, NEW p, NEW b, Letting(t, p, b),
         task'[t] = Idle \/ (task'[t].op = task[t].op /\ task'[t].handle = task[t].handle),
         task'[t].held # Wiped, scars \subseteq scars', drawn' = drawn,
         row' = row, wrapped' = wrapped,
         \A s \in Tasks : Process(task[s].op) = p /\ task[s].held = Cached =>
                            b # Wiped \/ "wiped" \in scars'
  PROVE  Frame
BY DEF Frame, KeptBy, Letting, Same

\* Who held the buffer when it was wiped is on record.
LEMMA WipedIsMarked ==
  ASSUME NEW p, NEW s \in Tasks, Process(task[s].op) = p, task[s].held = Cached
  PROVE  "wiped" \in WipedBy(p)
BY DEF WipedBy, Holders

LEMMA CachedKey ==
  ASSUME CustodyAssumption, Shapes, NEW s \in Tasks, task[s].held = Cached
  PROVE  /\ task[s].pc = "save" /\ Process(task[s].op) \in Processes
         /\ cache[Process(task[s].op)] # None
         /\ cache[Process(task[s].op)].key \in Keys
<1>1. task[s].pc = "save" /\ cache[Process(task[s].op)] # None
  BY ShapesAre, Distinct DEF AtWork
<1>2. Process(task[s].op) \in Processes
  BY <1>1, WriterHome DEF Writing
<1> QED BY <1>1, <1>2, ShapesAre DEF Rest, Cells

LEMMA WriteFrame ==
  ASSUME CustodyAssumption, Shapes, NEW t \in Tasks, Write(t)
  PROVE  Frame /\ Shapes'
<1>0. AtWork(task[t]) /\ Cached # Wiped /\ None # Wiped /\ Wiped \notin Keys
  BY ShapesAre, Distinct
<1>1. CASE Take(t)
  <2>1. scars' = scars /\ drawn' = drawn /\ row' = row /\ wrapped' = wrapped
    BY <1>1 DEF Take, disk, outside, history
  <2>2. task[t].held # Wiped
    BY <1>0, <1>1 DEF Take, Doing, AtWork
  <2> QED BY <1>1, <2>1, <2>2, TakeStep, OneFrame DEF Became
<1>2. CASE Guard(t)
  <2>1. scars' = scars /\ drawn' = drawn /\ row' = row /\ wrapped' = wrapped
    BY <1>2 DEF Guard, disk, outside, history
  <2>2. task[t].held # Wiped
    BY <1>0, <1>2 DEF Guard, Doing, AtWork
  <2> QED BY <1>2, <2>1, <2>2, GuardStep, OneFrame DEF Became
<1>3. CASE RefuseDeleted(t)
  <2> DEFINE p == Process(task[t].op)
  <2>1. scars' = scars \union WipedBy(p) /\ drawn' = drawn /\ row' = row /\ wrapped' = wrapped
    BY <1>3 DEF RefuseDeleted, disk, outside
  <2>2. /\ Became(t, "none", "idle", None, None, None) /\ task'[t] = Idle
        /\ Letting(t, p, Wiped) /\ Shapes'
    BY <1>3, RefuseStep
  <2> HIDE DEF p
  <2>3. \A s \in Tasks : Process(task[s].op) = p /\ task[s].held = Cached => "wiped" \in scars'
    BY <2>1, WipedIsMarked
  <2> QED BY <1>0, <2>1, <2>2, <2>3, LettingFrame DEF Became
<1>4. CASE Mint(t)
  <2>1. scars' = scars /\ drawn' = drawn /\ row' = row
        /\ wrapped' = wrapped \union {task[t].handle}
    BY <1>4 DEF Mint, disk, history
  <2>2. task[t].handle \in Theirs
    BY <1>0, <1>4 DEF Mint, Doing, AtWork, Writing, Working, Theirs
  <2> QED BY <1>0, <1>4, <2>1, <2>2, MintStep, OneFrame DEF Became
<1>5. CASE MintRefused(t) \/ WrapLost(t) \/ OpenFails(t) \/ RegisterRefused(t)
  <2>1. scars \subseteq scars' /\ drawn' = drawn /\ row' = row
    BY <1>5 DEF MintRefused, WrapLost, OpenFails, RegisterRefused, disk
  <2>2. wrapped' \subseteq wrapped \union Theirs
    <3>1. CASE WrapLost(t)
      <4>1. task[t].handle \in Theirs
        BY <1>0, <3>1 DEF WrapLost, Doing, AtWork, Writing, Working, Theirs
      <4> QED BY <3>1, <4>1 DEF WrapLost
    <3> QED BY <1>5, <3>1 DEF MintRefused, OpenFails, RegisterRefused, outside
  <2>3. task'[t] = Idle /\ task'[t].held = None /\ Others(t) /\ Shapes'
    BY <1>5, StopsShapes, StopBecomes, IdleWorks
  <2> QED BY <1>0, <2>1, <2>2, <2>3, OneFrame
<1>6. CASE StoreKey(t)
  <2> DEFINE p == Process(task[t].op)
             b == cache[p].key
  <2>1. scars' = scars /\ drawn' = drawn /\ row' = row /\ wrapped' = wrapped
    BY <1>6 DEF StoreKey, outside, history
  <2>2. /\ Letting(t, p, b) /\ Shapes' /\ task'[t].held = None
        /\ task'[t].op = task[t].op /\ task'[t].handle = task[t].handle
    BY <1>6, StoreStep DEF Became
  <2>3. \A s \in Tasks : Process(task[s].op) = p /\ task[s].held = Cached => b \in Keys
    BY CachedKey
  <2> HIDE DEF p, b
  <2> QED BY <1>0, <2>1, <2>2, <2>3, LettingFrame
<1>7. CASE Open(t)
  <2> DEFINE p == Process(task[t].op)
             b == IF cache' = cache THEN Cached ELSE cache[p].key
  <2>1. scars' = scars /\ drawn' = drawn /\ row' = row /\ wrapped' = wrapped
    BY <1>7 DEF Open, disk, outside, history
  <2>2. /\ Letting(t, p, b) /\ Shapes' /\ task'[t].held = Cached
        /\ task'[t].op = task[t].op /\ task'[t].handle = task[t].handle
    BY <1>7, OpenStep DEF Became
  <2>3. \A s \in Tasks : Process(task[s].op) = p /\ task[s].held = Cached =>
                           b \in Keys \union {Cached}
    BY CachedKey
  <2> HIDE DEF p, b
  <2> QED BY <1>0, <2>1, <2>2, <2>3, LettingFrame
<1>8. CASE Save(t)
  <2>1. scars' = scars /\ drawn' = drawn /\ row' = row /\ wrapped' = wrapped
    BY <1>8 DEF Save, history
  <2> QED BY <1>0, <1>8, <2>1, SaveStep, OneFrame DEF Became
<1>9. CASE Register(t)
  <2>1. scars' = scars /\ drawn' = drawn /\ row' \in {row, task[t].handle} /\ wrapped' = wrapped
    BY <1>9 DEF Register, outside, history
  <2>2. task[t].handle \in Theirs
    BY <1>9, RegisterStep DEF Working, Theirs
  <2> QED BY <1>0, <1>9, <2>1, <2>2, RegisterStep, OneFrame DEF Became
<1>10. CASE Settle(t)
  <2>1. scars' = scars \union WipedBy("mail") /\ drawn' = drawn /\ row' = row
        /\ wrapped' = wrapped
    BY <1>10 DEF Settle, disk, outside
  <2>2. \A s \in Tasks : Process(task[s].op) = "mail" /\ task[s].held = Cached =>
                           "wiped" \in scars'
    BY <2>1, WipedIsMarked
  <2>3. /\ Became(t, "none", "idle", None, None, None) /\ task'[t] = Idle
        /\ Letting(t, "mail", Wiped) /\ Shapes'
    BY <1>10, SettleStep
  <2> QED BY <1>0, <2>1, <2>2, <2>3, LettingFrame DEF Became
<1> QED BY <1>1, <1>2, <1>3, <1>4, <1>5, <1>6, <1>7, <1>8, <1>9, <1>10 DEF Write

LEMMA DeleteFrame ==
  ASSUME CustodyAssumption, Shapes, NEW t \in Tasks, Delete(t)
  PROVE  Frame /\ Shapes'
<1>0. Cached # Wiped /\ None # Wiped
  BY Distinct
<1>d. task[t].op = "delete" /\ task[t].pc \in {"release", "row", "forget", "unlink", "rmtree"}
  BY ShapesAre DEF Delete, Release, Unreleased, DropRow, ForgetKey, Unlink, Rmtree, Doing,
     AtWork, PastRow
<1>1. CASE Release(t)
  <2>1. scars \union WipedBy("mail") \subseteq scars' /\ drawn' = drawn /\ row' = row
        /\ wrapped' = wrapped
    BY <1>1 DEF Release, disk
  <2>2. \A s \in Tasks : Process(task[s].op) = "mail" /\ task[s].held = Cached =>
                           "wiped" \in scars'
    BY <2>1, WipedIsMarked
  <2>3. /\ task'[t].op = task[t].op /\ task'[t].handle = task[t].handle /\ task'[t].held = None
        /\ Letting(t, "mail", Wiped) /\ Shapes'
    BY <1>1, <1>d, ReleaseStep DEF Became
  <2> QED BY <1>0, <2>1, <2>2, <2>3, LettingFrame
<1>2. CASE ForgetKey(t)
  <2>1. scars \union WipedBy("web") \subseteq scars' /\ drawn' = drawn /\ row' = row
        /\ wrapped' = wrapped
    BY <1>2 DEF ForgetKey, disk, outside
  <2>2. \A s \in Tasks : Process(task[s].op) = "web" /\ task[s].held = Cached =>
                           "wiped" \in scars'
    BY <2>1, WipedIsMarked
  <2>3. /\ task'[t].op = task[t].op /\ task'[t].handle = task[t].handle /\ task'[t].held = None
        /\ Letting(t, "web", Wiped) /\ Shapes'
    BY <1>2, <1>d, ForgetStep DEF Became
  <2> QED BY <1>0, <2>1, <2>2, <2>3, LettingFrame
<1>3. CASE Unreleased(t)
  <2>1. scars \subseteq scars' /\ drawn' = drawn /\ row' = row /\ wrapped' = wrapped
    BY <1>3 DEF Unreleased, disk, outside
  <2> QED BY <1>0, <1>3, <1>d, <2>1, UnreleasedStep, OneFrame DEF Became
<1>4. CASE DropRow(t)
  <2>1. scars \subseteq scars' /\ drawn' = drawn /\ row' = None /\ wrapped' = wrapped
    BY <1>4 DEF DropRow, outside, history
  <2> QED BY <1>0, <1>4, <1>d, <2>1, DropRowStep, OneFrame DEF Became
<1>5. CASE Unlink(t)
  <2>1. scars \subseteq scars' /\ drawn' = drawn /\ row' = row /\ wrapped' = wrapped
    BY <1>5 DEF Unlink, outside
  <2> QED BY <1>0, <1>5, <1>d, <2>1, UnlinkStep, OneFrame DEF Became
<1>6. CASE Rmtree(t)
  <2>1. scars \subseteq scars' /\ drawn' = drawn /\ row' = row /\ wrapped' = wrapped
    BY <1>6 DEF Rmtree, outside, history
  <2>2. task'[t] = Idle /\ task'[t].held = None /\ Others(t) /\ Shapes'
    BY <1>6, StopsShapes, StopBecomes, IdleWorks
  <2> QED BY <1>0, <2>1, <2>2, OneFrame
<1> QED BY <1>1, <1>2, <1>3, <1>4, <1>5, <1>6 DEF Delete

LEMMA RotateFrame ==
  ASSUME CustodyAssumption, Shapes, NEW t \in Tasks, Rotate(t) \/ Unrecorded(t)
  PROVE  Frame /\ Shapes'
<1>0. None # Wiped
  BY Distinct
<1>1. scars \subseteq scars' /\ drawn' = drawn /\ row' = row /\ wrapped' = wrapped
  BY DEF Rotate, Load, LoadFails, Restore, Unrecorded, disk, outside, history
<1>2. CASE Load(t)
  BY <1>0, <1>1, <1>2, LoadStep, OneFrame DEF Became
<1>3. CASE LoadFails(t) \/ Restore(t) \/ Unrecorded(t)
  <2>1. task'[t] = Idle /\ task'[t].held = None /\ Others(t) /\ Shapes'
    BY <1>3, StopsShapes, StopBecomes, IdleWorks
  <2> QED BY <1>0, <1>1, <2>1, OneFrame
<1> QED BY <1>2, <1>3 DEF Rotate

LEMMA WorldFrame ==
  ASSUME CustodyAssumption, Shapes,
         ClearDoc \/ \E p \in Processes : Read(p) \/ Expire(p) \/ Crash(p)
  PROVE  Frame /\ Shapes'
<1>0. Cached # Wiped /\ None # Wiped /\ Wiped \notin Keys
  BY Distinct
<1>1. scars \subseteq scars' /\ drawn' = drawn /\ row' = row /\ wrapped' = wrapped
  BY DEF ClearDoc, Read, Expire, Crash, disk, outside, history
<1>2. CASE ClearDoc \/ \E p \in Processes : Expire(p)
  <2>1. task' = task /\ Shapes'
    BY <1>2, ClearStep, ExpireStep
  <2> QED BY <1>1, <2>1 DEF Frame, KeptBy
<1>3. ASSUME NEW p \in Processes, Read(p)
      PROVE  Frame /\ Shapes'
  <2>1. ASSUME NEW s \in Tasks PROVE KeptBy(s)
    BY <1>0, <1>3, <2>1, ReadStep, CachedKey DEF KeptBy, Same
  <2> QED BY <1>1, <1>3, <2>1, ReadStep DEF Frame
<1>4. ASSUME NEW p \in Processes, Crash(p)
      PROVE  Frame /\ Shapes'
  <2>1. ASSUME NEW s \in Tasks PROVE KeptBy(s)
    BY <1>0, <1>4, <2>1, CrashStep, IdleWorks DEF KeptBy
  <2> QED BY <1>1, <1>4, <2>1, CrashStep DEF Frame
<1> QED BY <1>2, <1>3, <1>4

\* An arrival is marked against every deletion at work, and a deletion
\* against everyone at work.
LEMMA ArriveMarked ==
  ASSUME CustodyAssumption, Shapes, HandlesDrawn, Marked, NEW t \in Tasks, Arrive(t)
  PROVE  HandlesDrawn' /\ Marked' /\ Shapes'
<1>1. PICK op \in {"signIn", "voice", "doc", "delete", "rotate"},
           pc \in {"take", "guard", "release", "load"}, h \in Handles \union {None} :
         Begun(t, op, pc, h)
  BY ArriveBegins
<1>2. /\ task'[t].op = op /\ task'[t].handle = h /\ task'[t].held = None
      /\ task[t] = Idle /\ task[t].op = "none"
      /\ \A s \in Tasks \ {t} : task'[s] = task[s]
      /\ row' = row /\ wrapped' = wrapped /\ drawn <= drawn'
      /\ scars \union Overlap(op) \subseteq scars'
      /\ drawn \in Nat /\ drawn' \in Nat /\ wrapped \subseteq Nat /\ (row # None => row \in Nat)
  BY <1>1, IdleWorks, ShapesAre, Distinct DEF Begun, Became, Others, disk, outside, Rest
<1>3. op \in Working => h \in Nat /\ h <= drawn'
  <2>1. CASE op = "signIn"
    BY <1>1, <2>1, Distinct DEF Begun
  <2>2. CASE op \in {"voice", "doc", "rotate"}
    BY <1>1, <1>2, <2>2 DEF Begun, HandlesDrawn
  <2> QED BY <1>1, <2>1, <2>2 DEF Working
<1>4. \A s \in Tasks : task[s].op \in Working => task[s].handle \in Nat
  BY ShapesAre, Distinct DEF AtWork
<1>5. HandlesDrawn'
  <2>1. \A s \in Tasks : task'[s].op \in Working => task'[s].handle <= drawn'
    BY <1>2, <1>3, <1>4 DEF HandlesDrawn
  <2>2. (row' # None => row' <= drawn') /\ \A x \in wrapped' : x <= drawn'
    BY <1>2 DEF HandlesDrawn
  <2> QED BY <2>1, <2>2 DEF HandlesDrawn
<1>6. Marked'
  <2>1. ASSUME NEW s \in Tasks, NEW u \in Tasks, task'[s].op = "delete", task'[u].op \in Working
        PROVE  task'[u].op \in scars'
    <3>1. CASE s # t /\ u # t
      BY <1>2, <2>1, <3>1 DEF Marked
    <3>2. CASE s = t
      <4>1. op = "delete" /\ u # t /\ task[u].op \in Working
        BY <1>2, <2>1, <3>2 DEF Working
      <4>2. task[u].op \in Overlap("delete")
        BY <4>1 DEF Overlap, Working, Raced
      <4> QED BY <1>2, <4>1, <4>2
    <3>3. CASE u = t /\ s # t
      <4>1. op \in Working /\ task[s].op = "delete" /\ op # "delete"
        BY <1>2, <2>1, <3>3 DEF Working
      <4>2. op \in Overlap(op)
        BY <4>1 DEF Overlap, InFlight
      <4> QED BY <1>2, <3>3, <4>2
    <3> QED BY <3>1, <3>2, <3>3
  <2>2. \A s \in Tasks : task'[s].held = Wiped => "wiped" \in scars'
    BY <1>2, Distinct DEF Marked
  <2> QED BY <2>1, <2>2 DEF Marked
<1> QED BY <1>5, <1>6, ArriveShapes

-----------------------------------------------------------------------------
(* The keys.                                                               *)

KeyFrame ==
  /\ UNCHANGED <<record, minted, shredded>> /\ scars \subseteq scars'
  /\ \A s \in Tasks : \/ task'[s].pc = task[s].pc /\ task'[s].key = task[s].key
                      \/ task'[s].pc \notin {"store", "restore"}

LEMMA KeyFrameKeeps ==
  ASSUME KeysMinted, KeyFrame
  PROVE  KeysMinted'
<1>1. \A s \in Tasks : task'[s].pc \in {"store", "restore"} =>
        task'[s].pc = task[s].pc /\ task'[s].key = task[s].key
  BY DEF KeyFrame
<1>2. record' = record /\ minted' = minted /\ shredded' = shredded /\ scars \subseteq scars'
  BY DEF KeyFrame
<1> QED BY <1>1, <1>2 DEF KeysMinted, OnlyRotationRestores

LEMMA KeyNumbers ==
  ASSUME CustodyAssumption, Shapes
  PROVE  /\ minted \in Nat /\ shredded \subseteq Nat
         /\ record # None => record.key \in Nat /\ record \in Record
         /\ \A t \in Tasks : task[t].pc \in {"store", "restore"} => task[t].key \in Nat
<1>1. Keys \subseteq Nat /\ MaxKeys \in Nat
  BY Distinct
<1>2. \A t \in Tasks : task[t].pc \in {"store", "restore"} => task[t].key \in Keys
  BY ShapesAre DEF AtWork
<1>3. minted \in 0 .. MaxKeys /\ shredded \subseteq Keys /\ (record # None => record \in Record)
  BY ShapesAre DEF Rest
<1>4. minted \in Nat
  BY <1>1, <1>3
<1>5. record # None => record.key \in Keys
  BY <1>3 DEF Record
<1> QED BY <1>1, <1>2, <1>3, <1>4, <1>5

LEMMA MintKeys ==
  ASSUME CustodyAssumption, Shapes, KeysMinted, NEW t \in Tasks, Mint(t)
  PROVE  KeysMinted'
<1>1. /\ task'[t].pc = "store" /\ task'[t].key = minted + 1 /\ minted' = minted + 1
      /\ \A s \in Tasks \ {t} : task'[s] = task[s]
      /\ record' = record /\ shredded' = shredded /\ scars' = scars
  BY MintStep DEF Became, Others, Mint, disk, history
<1>2. /\ record # None => record.key # minted + 1 /\ record.key <= minted + 1
      /\ \A k \in shredded : k # minted + 1 /\ k <= minted + 1
      /\ \A s \in Tasks : task[s].pc \in {"store", "restore"} =>
           task[s].key # minted + 1 /\ task[s].key <= minted + 1
      /\ minted + 1 <= minted + 1
  BY KeyNumbers DEF KeysMinted
<1>3. \A s \in Tasks : task'[s].pc = "store" =>
        /\ task'[s].key \notin shredded
        /\ record # None => record.key # task'[s].key
        /\ \A u \in Tasks \ {s} :
             task'[u].pc \in {"store", "restore"} => task'[u].key # task'[s].key
  BY <1>1, <1>2 DEF KeysMinted
<1>4. \A s \in Tasks : task'[s].pc \in {"store", "restore"} => task'[s].key <= minted'
  BY <1>1, <1>2
<1>5. \A s \in Tasks : task'[s].pc = "restore" /\ task'[s].key \in shredded => "rotate" \in scars
  BY <1>1 DEF KeysMinted
<1> QED BY <1>1, <1>2, <1>3, <1>4, <1>5 DEF KeysMinted, OnlyRotationRestores

LEMMA StoreKeys ==
  ASSUME CustodyAssumption, Shapes, KeysMinted, NEW t \in Tasks, StoreKey(t)
  PROVE  KeysMinted'
<1>1. /\ task'[t].pc \notin {"store", "restore"} /\ task[t].pc = "store"
      /\ \A s \in Tasks \ {t} : task'[s].pc = task[s].pc /\ task'[s].key = task[s].key
      /\ record'.key = task[t].key
      /\ minted' = minted /\ shredded' = shredded /\ scars' = scars
  BY StoreStep DEF Became, Letting, Same, StoreKey, history
<1>2. task[t].key <= minted /\ task[t].key \notin shredded
      /\ \A s \in Tasks \ {t} : task[s].pc = "store" => task[s].key # task[t].key
  BY <1>1 DEF KeysMinted
<1> QED BY <1>1, <1>2 DEF KeysMinted, OnlyRotationRestores

LEMMA LoadKeys ==
  ASSUME CustodyAssumption, Shapes, KeysMinted, NEW t \in Tasks, Load(t)
  PROVE  KeysMinted'
<1>1. /\ task'[t].pc = "restore" /\ task'[t].key = record.key /\ record # None
      /\ \A s \in Tasks \ {t} : task'[s] = task[s]
      /\ record' = record /\ minted' = minted /\ shredded' = shredded /\ scars' = scars
  BY LoadStep DEF Became, Others, Load, disk, history
<1> QED BY <1>1 DEF KeysMinted, OnlyRotationRestores

LEMMA RestoreKeys ==
  ASSUME CustodyAssumption, Shapes, KeysMinted, NEW t \in Tasks, Restore(t)
  PROVE  KeysMinted'
<1>1. /\ task[t].pc = "restore" /\ task'[t].pc = "idle"
      /\ \A s \in Tasks \ {t} : task'[s] = task[s]
      /\ record'.key = task[t].key
      /\ minted' = minted /\ shredded' = shredded /\ scars' = scars
  BY StopsShapes, StopBecomes, IdleWorks DEF Others, Restore, Doing, history
<1>2. task[t].key <= minted /\ (task[t].key \in shredded => "rotate" \in scars)
      /\ \A s \in Tasks \ {t} : task[s].pc = "store" => task[s].key # task[t].key
  BY <1>1 DEF KeysMinted
<1> QED BY <1>1, <1>2 DEF KeysMinted, OnlyRotationRestores

\* A rotation that has read the record overlaps the deletion that unlinks it.
LEMMA UnlinkKeys ==
  ASSUME CustodyAssumption, Shapes, KeysMinted, Marked, NEW t \in Tasks, Unlink(t)
  PROVE  KeysMinted'
<1>1. /\ task[t].op = "delete" /\ task'[t].pc = "rmtree"
      /\ \A s \in Tasks \ {t} : task'[s] = task[s]
      /\ record' = None /\ minted' = minted /\ scars' = scars
      /\ shredded' = shredded \union IF record = None THEN {} ELSE {record.key}
  BY UnlinkStep DEF Became, Others, Unlink
<1>2. \A s \in Tasks : task[s].pc = "restore" => "rotate" \in scars
  <2>1. \A s \in Tasks : task[s].pc = "restore" => task[s].op = "rotate"
    BY ShapesAre DEF AtWork
  <2> QED BY <1>1, <2>1 DEF Marked, Working
<1>3. \A k \in shredded' : k \in shredded \/ (record # None /\ k = record.key)
  BY <1>1
<1>4. \A k \in shredded' : k <= minted
  BY <1>3 DEF KeysMinted
<1>5. \A s \in Tasks : task[s].pc = "store" => task[s].key \notin shredded'
  BY <1>3 DEF KeysMinted
<1>6. \A s \in Tasks \ {t} : task'[s] = task[s]
  BY <1>1
<1>7. \A s \in Tasks : task'[s].pc \in {"store", "restore"} => task'[s] = task[s]
  BY <1>1
<1>8. \A s \in Tasks : task'[s].pc \in {"store", "restore"} => task'[s].key <= minted
  BY <1>7 DEF KeysMinted
<1>9. \A s \in Tasks : task'[s].pc = "store" =>
        /\ task'[s].key \notin shredded'
        /\ \A u \in Tasks \ {s} :
             task'[u].pc \in {"store", "restore"} => task'[u].key # task'[s].key
  BY <1>5, <1>7 DEF KeysMinted
<1>10. \A s \in Tasks : task'[s].pc = "restore" => "rotate" \in scars
  BY <1>2, <1>7
<1> QED BY <1>1, <1>4, <1>8, <1>9, <1>10 DEF KeysMinted, OnlyRotationRestores

LEMMA RmtreeKeys ==
  ASSUME CustodyAssumption, Shapes, KeysMinted, NEW t \in Tasks, Rmtree(t)
  PROVE  KeysMinted'
<1>1. /\ task'[t].pc = "idle" /\ \A s \in Tasks \ {t} : task'[s] = task[s]
      /\ record' = None /\ minted' = minted /\ shredded' = shredded /\ scars' = scars
  BY StopsShapes, StopBecomes, IdleWorks DEF Others, Rmtree, history
<1> QED BY <1>1 DEF KeysMinted, OnlyRotationRestores

LEMMA QuietKeys ==
  ASSUME CustodyAssumption, Shapes, NEW t \in Tasks,
         \/ Arrive(t) \/ Take(t) \/ Guard(t) \/ RefuseDeleted(t) \/ MintRefused(t)
         \/ WrapLost(t) \/ Open(t) \/ OpenFails(t) \/ Save(t) \/ Register(t)
         \/ RegisterRefused(t) \/ Settle(t) \/ Release(t) \/ Unreleased(t) \/ DropRow(t)
         \/ ForgetKey(t) \/ LoadFails(t) \/ Unrecorded(t)
  PROVE  KeyFrame
<1>1. CASE Arrive(t)
  <2>1. PICK op \in {"signIn", "voice", "doc", "delete", "rotate"},
             pc \in {"take", "guard", "release", "load"}, h \in Handles \union {None} :
           Begun(t, op, pc, h)
    BY <1>1, ArriveBegins
  <2> QED BY <2>1 DEF Begun, Became, Others, KeyFrame, disk
<1>2. CASE \/ Take(t) \/ Guard(t) \/ RefuseDeleted(t) \/ MintRefused(t)
           \/ WrapLost(t) \/ Open(t) \/ OpenFails(t) \/ Save(t) \/ Register(t)
           \/ RegisterRefused(t) \/ Settle(t) \/ Release(t) \/ Unreleased(t) \/ DropRow(t)
           \/ ForgetKey(t) \/ LoadFails(t) \/ Unrecorded(t)
  <2>1. record' = record
    BY <1>2 DEF Take, Guard, RefuseDeleted, MintRefused, WrapLost, Open, OpenFails, Save,
       Register, RegisterRefused, Settle, Release, Unreleased, DropRow, ForgetKey, LoadFails,
       Unrecorded, disk
  <2>2. minted' = minted /\ shredded' = shredded
    BY <1>2 DEF Take, Guard, RefuseDeleted, MintRefused, WrapLost, Open, OpenFails, Save,
       Register, RegisterRefused, Settle, Release, Unreleased, DropRow, ForgetKey, LoadFails,
       Unrecorded, history
  <2>3. scars \subseteq scars'
    BY <1>2 DEF Take, Guard, RefuseDeleted, MintRefused, WrapLost, Open, OpenFails, Save,
       Register, RegisterRefused, Settle, Release, Unreleased, DropRow, ForgetKey, LoadFails,
       Unrecorded, history
  <2>4. \A s \in Tasks \ {t} : task'[s].pc = task[s].pc /\ task'[s].key = task[s].key
    BY <1>2, TakeStep, GuardStep, RefuseStep, OpenStep, SaveStep, RegisterStep, SettleStep,
       ReleaseStep, UnreleasedStep, DropRowStep, ForgetStep, StopsShapes, StopBecomes
       DEF Others, Letting, Same
  <2>5. task'[t].pc \notin {"store", "restore"}
    BY <1>2, TakeStep, GuardStep, RefuseStep, OpenStep, SaveStep, RegisterStep, SettleStep,
       ReleaseStep, UnreleasedStep, DropRowStep, ForgetStep, StopsShapes, StopBecomes
       DEF Became
  <2> QED BY <2>1, <2>2, <2>3, <2>4, <2>5 DEF KeyFrame
<1> QED BY <1>1, <1>2

LEMMA WorldKeys ==
  ASSUME CustodyAssumption, Shapes,
         ClearDoc \/ \E p \in Processes : Read(p) \/ Expire(p) \/ Crash(p)
  PROVE  KeyFrame
<1>1. UNCHANGED <<record, minted, shredded>> /\ scars \subseteq scars'
  BY DEF ClearDoc, Read, Expire, Crash, disk, history
<1>2. ASSUME NEW s \in Tasks
      PROVE  \/ task'[s].pc = task[s].pc /\ task'[s].key = task[s].key
             \/ task'[s].pc \notin {"store", "restore"}
  BY ClearStep, ReadStep, ExpireStep, CrashStep, IdleWorks DEF Same
<1> QED BY <1>1, <1>2 DEF KeyFrame

-----------------------------------------------------------------------------
(* Whose the account is: LockInv.                                          *)

\* Calm, scar by scar.
LEMMA CalmIs ==
  /\ Calm <=> /\ "twins" \notin scars /\ "stranded" \notin scars /\ "halfDeleted" \notin scars
              /\ \A o \in Working : o \notin scars
  /\ Calm' <=> /\ "twins" \notin scars' /\ "stranded" \notin scars' /\ "halfDeleted" \notin scars'
               /\ \A o \in Working : o \notin scars'
BY DEF Calm, Working

\* What a calm state says, and what a step has to show for the next.
Locked ==
  /\ \A t \in Tasks : Ours(t)
  /\ \A s, t \in Tasks : Alone(s, t)
  /\ AccountHas

\* While a deletion is at work in a calm state, nobody else is.
LEMMA CalmDeletion ==
  ASSUME Shapes, Marked, Calm, NEW t \in Tasks, task[t].op = "delete"
  PROVE  /\ \A s \in Tasks : task[s].op \in {"none", "delete"}
         /\ \A s \in Tasks : task[s].pc \in {"idle", "release", "row", "forget", "unlink", "rmtree"}
<1>1. \A s \in Tasks : task[s].op \notin Working
  BY CalmIs DEF Marked
<1>2. \A s \in Tasks : task[s] \in Works /\ AtWork(task[s])
  BY ShapesAre
<1>3. \A s \in Tasks : task[s].op \in {"none", "delete"}
  BY <1>1, <1>2 DEF Works, Working
<1>4. \A s \in Tasks : task[s].pc \in {"idle", "release", "row", "forget", "unlink", "rmtree"}
  BY <1>2, <1>3 DEF AtWork, Writing, Works
<1> QED BY <1>3, <1>4

\* Threads that end or stay where they are leave the account locked, if those
\* whose end strands it say so.
LEMMA EndsLock ==
  ASSUME CustodyAssumption, Shapes, LockInv,
         \A s \in Tasks : Same(s) \/ (task'[s] = Idle /\ Left(s) \subseteq scars'),
         Calm' => Calm /\ record' = record, row' = row, wrapped' = wrapped, drawn' = drawn
  PROVE  LockInv'
<1> SUFFICES ASSUME Calm' PROVE Locked'
  BY DEF LockInv, Locked
<1>1. Calm /\ Locked /\ record' = record
  BY DEF LockInv, Locked
<1>2. /\ Idle.op = "none" /\ Idle.pc = "idle"
      /\ "stranded" \notin scars' /\ "halfDeleted" \notin scars'
  BY IdleWorks, CalmIs
<1>3. \A s \in Tasks : Same(s) \/ (task'[s].op = "none" /\ task'[s].pc = "idle")
  BY <1>2
<1>4. \A s \in Tasks : Ours(s)'
  <2>1. ASSUME NEW s \in Tasks PROVE Ours(s)'
    <3>1. Ours(s)
      BY <1>1 DEF Locked
    <3>2. CASE Same(s)
      BY <1>1, <3>1, <3>2 DEF Ours, Same
    <3>3. CASE task'[s].op = "none" /\ task'[s].pc = "idle"
      BY <3>3 DEF Ours, Working, PastRow
    <3> QED BY <1>3, <3>2, <3>3
  <2> QED BY <2>1
<1>5. \A s, t \in Tasks : Alone(s, t)'
  BY <1>1, <1>3 DEF Locked, Alone, Same
<1>6. ASSUME NEW s \in Tasks,
             \/ task[s].pc = "store" /\ task[s].handle = row
             \/ row = None /\ task[s].pc \in {"guard", "open", "save", "register", "forget", "unlink"}
      PROVE  Same(s)
  <2>1. CASE task[s].pc = "store" /\ task[s].handle = row
    <3>1. "stranded" \in Left(s)
      BY <2>1 DEF Left, Doing
    <3> QED BY <1>2, <3>1
  <2>2. CASE row = None /\ task[s].pc \in {"guard", "open", "save", "register"}
    <3>1. task[s].op = "signIn"
      BY <1>1, <2>2, ShapesAre DEF Locked, Ours, AtWork, Writing
    <3>2. task[s].handle # row
      BY <2>2, <3>1, ShapesAre, Distinct DEF AtWork, Working
    <3>3. "stranded" \in Left(s)
      BY <2>2, <3>1, <3>2 DEF Left
    <3> QED BY <1>2, <3>3
  <2>3. CASE task[s].pc \in {"forget", "unlink"}
    <3>1. "halfDeleted" \in Left(s)
      BY <2>3 DEF Left
    <3> QED BY <1>2, <3>1
  <2> QED BY <1>6, <2>1, <2>2, <2>3
<1>7. AccountHas'
  BY <1>1, <1>6 DEF Locked, AccountHas, Same
<1> QED BY <1>4, <1>5, <1>7 DEF Locked

\* One thread goes on and the account stays as it was.
LEMMA GoesLock ==
  ASSUME CustodyAssumption, Shapes, LockInv, NEW t \in Tasks,
         \A s \in Tasks \ {t} : Same(s),
         Calm' => Calm, row' = row, record' = record, wrapped' = wrapped, drawn' = drawn,
         task'[t].op = task[t].op, task'[t].pc # "store",
         Calm => Ours(t)',
         task[t].pc # "store",
         Calm /\ row = None /\ record # None
           /\ task[t].pc \in {"guard", "open", "save", "register", "forget", "unlink"} =>
              task'[t].pc \in {"guard", "open", "save", "register", "forget", "unlink"}
  PROVE  LockInv'
<1> SUFFICES ASSUME Calm' PROVE Locked'
  BY DEF LockInv, Locked
<1>1. Calm /\ Locked
  BY DEF LockInv, Locked
<1>2. \A s \in Tasks : Ours(s)'
  <2>1. ASSUME NEW s \in Tasks \ {t} PROVE Ours(s)'
    BY <1>1, <2>1 DEF Locked, Ours, Same
  <2> QED BY <1>1, <2>1
<1>3. \A s, u \in Tasks : Alone(s, u)'
  BY <1>1 DEF Locked, Alone, Same
<1>4. AccountHas'
  <2>1. row' # None /\ record' # None => record'.handle = row'
    BY <1>1 DEF Locked, AccountHas
  <2>2. row' # None /\ record' = None /\ row' \in wrapped' =>
          \E s \in Tasks : task'[s].pc = "store" /\ task'[s].handle = row'
    BY <1>1 DEF Locked, AccountHas, Same
  <2>3. row' = None /\ record' # None =>
          \E s \in Tasks :
            task'[s].pc \in {"guard", "open", "save", "register", "forget", "unlink"}
    BY <1>1 DEF Locked, AccountHas, Same
  <2> QED BY <2>1, <2>2, <2>3 DEF AccountHas
<1> QED BY <1>2, <1>3, <1>4 DEF Locked

LEMMA CalmBefore ==
  ASSUME scars \subseteq scars'
  PROVE  Calm' => Calm
BY CalmIs

\* The steps that only end threads, or that touch none.
LEMMA EndingSteps ==
  ASSUME CustodyAssumption, Shapes, Marked, LockInv, NEW t \in Tasks,
         \/ RefuseDeleted(t) \/ MintRefused(t) \/ OpenFails(t) \/ RegisterRefused(t)
         \/ Settle(t) \/ LoadFails(t) \/ Restore(t) \/ Unrecorded(t)
         \/ Save(t) /\ task[t].op # "signIn"
         \/ DropRow(t) /\ row = None
  PROVE  LockInv'
<1>0. scars \subseteq scars' /\ row' = row /\ wrapped' = wrapped /\ drawn' = drawn
  BY DEF RefuseDeleted, MintRefused, OpenFails, RegisterRefused, Settle, LoadFails, Restore,
     Unrecorded, Save, DropRow, disk, outside, history
<1>1. Left(t) \subseteq scars'
  <2>1. CASE MintRefused(t) \/ OpenFails(t) \/ RegisterRefused(t) \/ Unrecorded(t)
    BY <2>1 DEF MintRefused, OpenFails, RegisterRefused, Unrecorded
  <2>2. CASE \/ RefuseDeleted(t) \/ Settle(t) \/ LoadFails(t) \/ Restore(t)
             \/ Save(t) /\ task[t].op # "signIn"
             \/ DropRow(t) /\ row = None
    BY <2>2 DEF RefuseDeleted, Settle, LoadFails, Restore, Save, DropRow, Doing, Left
  <2> QED BY <2>1, <2>2
<1>2. task'[t] = Idle /\ \A s \in Tasks \ {t} : Same(s)
  <2>1. CASE \/ MintRefused(t) \/ OpenFails(t) \/ RegisterRefused(t) \/ Unrecorded(t)
             \/ LoadFails(t) \/ Restore(t)
    BY <2>1, StopsShapes, StopBecomes DEF Others, Same
  <2>2. CASE RefuseDeleted(t) \/ Settle(t)
    BY <2>2, RefuseStep, SettleStep DEF Letting
  <2>3. CASE Save(t) /\ task[t].op # "signIn"
    BY <2>3, SaveStep DEF Others, Same
  <2>4. CASE DropRow(t) /\ row = None
    BY <2>4, DropRowStep DEF Others, Same
  <2> QED BY <2>1, <2>2, <2>3, <2>4
<1>3. Calm' => Calm /\ record' = record
  <2>1. CASE Restore(t)
    <3>1. task[t].pc = "restore" /\ record' = [handle |-> task[t].handle, key |-> task[t].key]
      BY <2>1 DEF Restore, Doing
    <3>2. Calm => Ours(t)
      BY DEF LockInv
    <3>3. Calm => record \in Record /\ record.handle = task[t].handle /\ record.key = task[t].key
      BY <3>1, <3>2, ShapesAre DEF Ours, Rest
    <3>4. Calm => record' = record
      BY <3>1, <3>3 DEF Record
    <3> QED BY <1>0, <3>4, CalmBefore
  <2>2. CASE ~Restore(t)
    <3>1. record' = record
      BY <2>2 DEF RefuseDeleted, MintRefused, OpenFails, RegisterRefused, Settle, LoadFails,
         Unrecorded, Save, DropRow, disk
    <3> QED BY <1>0, <3>1, CalmBefore
  <2> QED BY <2>1, <2>2
<1> QED BY <1>0, <1>1, <1>2, <1>3, EndsLock

LEMMA WorldLock ==
  ASSUME CustodyAssumption, Shapes, LockInv,
         ClearDoc \/ \E p \in Processes : Read(p) \/ Expire(p) \/ Crash(p)
  PROVE  LockInv'
<1>1. scars \subseteq scars' /\ record' = record /\ row' = row /\ wrapped' = wrapped
      /\ drawn' = drawn
  BY DEF ClearDoc, Read, Expire, Crash, disk, outside, history
<1>2. \A s \in Tasks : Same(s) \/ (task'[s] = Idle /\ Left(s) \subseteq scars')
  BY ClearStep, ReadStep, ExpireStep, CrashStep DEF Same
<1> QED BY <1>1, <1>2, CalmBefore, EndsLock

\* The steps that take a thread further and leave the account as it is.
LEMMA GoingSteps ==
  ASSUME CustodyAssumption, Shapes, Marked, LockInv, NEW t \in Tasks,
         \/ Take(t) \/ Guard(t) \/ Open(t) \/ Load(t) \/ Release(t) \/ Unreleased(t)
         \/ ForgetKey(t)
         \/ Save(t) /\ task[t].op = "signIn"
  PROVE  LockInv'
<1>0. scars \subseteq scars' /\ row' = row /\ record' = record /\ wrapped' = wrapped
      /\ drawn' = drawn
  BY DEF Take, Guard, Open, Load, Release, Unreleased, ForgetKey, Save, disk, outside, history
<1>1. Calm' => Calm
  BY <1>0, CalmBefore
<1>2. \A s \in Tasks \ {t} : Same(s)
  BY TakeStep, GuardStep, OpenStep, LoadStep, ReleaseStep, UnreleasedStep, ForgetStep, SaveStep
     DEF Others, Same, Letting
<1>3. Calm => Ours(t)
  BY DEF LockInv
<1>4. CASE Take(t)
  <2>1. /\ task[t].pc = "take" /\ task'[t].op = task[t].op /\ task'[t].handle = task[t].handle
        /\ task'[t].pc = IF record = None THEN "mint" ELSE "guard"
    BY <1>4, TakeStep DEF Became
  <2>2. Calm => Ours(t)'
    BY <1>0, <1>3, <2>1 DEF Ours, PastRow
  <2> QED BY <1>0, <1>1, <1>2, <2>1, <2>2, GoesLock
<1>5. CASE Guard(t)
  <2>1. PICK pc \in {"open", "mint"} :
          /\ task[t].pc = "guard" /\ task'[t].op = task[t].op /\ task'[t].handle = task[t].handle
          /\ task'[t].pc = pc /\ (pc = "open" <=> record # None)
    BY <1>5, GuardStep DEF Became
  <2>2. task[t].op \in Working
    BY <2>1, ShapesAre DEF AtWork, Writing, Working
  <2>3. Calm => (row # None /\ record # None => record.handle = row)
    BY DEF LockInv, AccountHas
  <2>4. Calm => Ours(t)'
    BY <1>0, <1>3, <2>1, <2>2, <2>3 DEF Ours, PastRow
  <2> QED BY <1>0, <1>1, <1>2, <2>1, <2>4, GoesLock
<1>6. CASE Open(t)
  <2>1. /\ task[t].pc = "open" /\ task'[t].op = task[t].op /\ task'[t].handle = task[t].handle
        /\ task'[t].pc = "save"
    BY <1>6, OpenStep DEF Became
  <2>2. Calm => Ours(t)'
    BY <1>0, <1>3, <2>1 DEF Ours, PastRow
  <2> QED BY <1>0, <1>1, <1>2, <2>1, <2>2, GoesLock
<1>7. CASE Load(t)
  <2>1. /\ task[t].pc = "load" /\ task'[t].op = task[t].op /\ task'[t].handle = task[t].handle
        /\ task'[t].pc = "restore" /\ task'[t].key = record.key
    BY <1>7, LoadStep DEF Became
  <2>2. Calm => Ours(t)'
    BY <1>0, <1>3, <2>1 DEF Ours, PastRow
  <2> QED BY <1>0, <1>1, <1>2, <2>1, <2>2, GoesLock
<1>8. CASE Release(t) \/ Unreleased(t)
  <2>1. /\ task[t].pc = "release" /\ task'[t].op = "delete" /\ task[t].op = "delete"
        /\ task'[t].pc = "row"
    BY <1>8, ReleaseStep, UnreleasedStep DEF Became
  <2>2. Calm => Ours(t)'
    BY <1>0, <1>3, <2>1 DEF Ours, PastRow, Working
  <2> QED BY <1>0, <1>1, <1>2, <2>1, <2>2, GoesLock
<1>9. CASE ForgetKey(t)
  <2>1. /\ task[t].pc = "forget" /\ task'[t].op = "delete" /\ task[t].op = "delete"
        /\ task'[t].pc = "unlink"
    BY <1>9, ForgetStep DEF Became
  <2>2. Calm => Ours(t)'
    BY <1>0, <1>3, <2>1 DEF Ours, PastRow, Working
  <2> QED BY <1>0, <1>1, <1>2, <2>1, <2>2, GoesLock
<1>10. CASE Save(t) /\ task[t].op = "signIn"
  <2>1. /\ task[t].pc = "save" /\ task'[t].op = task[t].op /\ task'[t].handle = task[t].handle
        /\ task'[t].pc = "register"
    BY <1>10, SaveStep DEF Became
  <2>2. Calm => Ours(t)'
    BY <1>0, <1>3, <2>1 DEF Ours, PastRow
  <2> QED BY <1>0, <1>1, <1>2, <2>1, <2>2, GoesLock
<1> QED BY <1>4, <1>5, <1>6, <1>7, <1>8, <1>9, <1>10

\* A key is minted under a handle no thread at "store" has.
LEMMA MintLock ==
  ASSUME CustodyAssumption, Shapes, LockInv, NEW t \in Tasks, Mint(t)
  PROVE  LockInv'
<1> SUFFICES ASSUME Calm' PROVE Locked'
  BY DEF LockInv, Locked
<1>1. /\ task[t].pc = "mint" /\ record = None /\ task[t].handle \notin wrapped
      /\ wrapped' = wrapped \union {task[t].handle}
      /\ row' = row /\ record' = record /\ drawn' = drawn /\ scars' = scars
  BY DEF Mint, Doing, disk, history
<1>2. /\ task'[t].pc = "store" /\ task'[t].op = task[t].op /\ task'[t].handle = task[t].handle
      /\ \A s \in Tasks \ {t} : task'[s] = task[s]
  BY MintStep DEF Became, Others
<1>3. Calm /\ Locked
  BY <1>1, CalmBefore DEF LockInv, Locked
<1>4. \A s \in Tasks : AtWork(task[s])
  BY ShapesAre
<1>5. task[t].op \in {"signIn", "voice", "doc"}
  BY <1>1, <1>4 DEF AtWork, Writing
<1>6. \A s \in Tasks \ {t} : row = None => task[s].op # "signIn"
  BY <1>1, <1>3, <1>5 DEF Locked, Ours, Alone
<1>7. \A s \in Tasks : task[s].pc # "store"
  <2>1. ASSUME NEW s \in Tasks, task[s].pc = "store" PROVE FALSE
    <3>1. task[s].op \in {"signIn", "voice", "doc"} /\ s # t /\ task[s].handle \in wrapped
      BY <1>1, <1>3, <1>4, <2>1 DEF AtWork, Writing, Locked, Ours
    <3>2. row # None
      BY <1>3, <1>6, <3>1 DEF Locked, Ours
    <3>3. task[s].handle = row /\ task[t].handle = row
      BY <1>3, <1>5, <3>1, <3>2 DEF Locked, Ours, Working
    <3> QED BY <1>1, <3>1, <3>3
  <2> QED BY <2>1
<1>8. ASSUME NEW s \in Tasks PROVE Ours(s)'
  <2>1. CASE s = t
    BY <1>1, <1>2, <1>3, <1>5, <2>1 DEF Locked, Ours, Working, PastRow
  <2>2. CASE s # t
    <3>1. row = None => task[s].pc \notin {"take", "mint"}
      BY <1>3, <1>4, <1>6, <2>2 DEF AtWork, Writing, Locked, Ours
    <3> QED BY <1>1, <1>2, <1>3, <2>2, <3>1 DEF Locked, Ours
  <2> QED BY <2>1, <2>2
<1>9. \A s, u \in Tasks : Alone(s, u)'
  BY <1>1, <1>2, <1>3, <1>7 DEF Locked, Alone
<1>10. AccountHas'
  BY <1>1, <1>2, <1>3, <1>7 DEF Locked, AccountHas
<1> QED BY <1>8, <1>9, <1>10 DEF Locked

LEMMA WrapLostLock ==
  ASSUME CustodyAssumption, Shapes, LockInv, NEW t \in Tasks, WrapLost(t)
  PROVE  LockInv'
<1> SUFFICES ASSUME Calm' PROVE Locked'
  BY DEF LockInv, Locked
<1>1. /\ task[t].pc = "mint" /\ record = None
      /\ wrapped' = wrapped \union {task[t].handle}
      /\ row' = row /\ record' = record /\ drawn' = drawn
      /\ scars' = scars \union IF task[t].handle = row THEN {"stranded"} ELSE {}
  BY DEF WrapLost, Doing, disk
<1>2. /\ task'[t].pc = "idle" /\ task'[t].op = "none"
      /\ \A s \in Tasks \ {t} : task'[s] = task[s]
  BY StopsShapes, StopBecomes, IdleWorks DEF Others
<1>3. Calm /\ Locked /\ task[t].handle # row
  BY <1>1, CalmBefore, CalmIs DEF LockInv, Locked
<1>4. \A s \in Tasks : AtWork(task[s])
  BY ShapesAre
<1>5. row = None /\ \A s \in Tasks \ {t} : task[s].op # "signIn"
  BY <1>1, <1>3, <1>4 DEF Locked, Ours, Alone, AtWork, Writing, Working
<1>6. ASSUME NEW s \in Tasks PROVE Ours(s)'
  <2>1. CASE s = t
    BY <1>1, <1>2, <2>1 DEF Ours, Working, PastRow
  <2>2. CASE s # t
    <3>1. task[s].pc \notin {"take", "mint"}
      BY <1>3, <1>4, <1>5, <2>2 DEF AtWork, Writing, Locked, Ours
    <3> QED BY <1>1, <1>2, <1>3, <2>2, <3>1 DEF Locked, Ours
  <2> QED BY <2>1, <2>2
<1>7. \A s, u \in Tasks : Alone(s, u)'
  BY <1>1, <1>2, <1>3 DEF Locked, Alone
<1>8. AccountHas'
  BY <1>1, <1>5 DEF AccountHas
<1> QED BY <1>6, <1>7, <1>8 DEF Locked

LEMMA StoreLock ==
  ASSUME CustodyAssumption, Shapes, LockInv, NEW t \in Tasks, StoreKey(t)
  PROVE  LockInv'
<1> SUFFICES ASSUME Calm' PROVE Locked'
  BY DEF LockInv, Locked
<1>1. /\ task[t].pc = "store" /\ task[t].handle \in Handles
      /\ record' = [handle |-> task[t].handle, key |-> task[t].key]
      /\ row' = row /\ wrapped' = wrapped /\ drawn' = drawn /\ scars' = scars
  BY StoreStep DEF StoreKey, outside, history
<1>2. /\ task'[t].op = task[t].op /\ task'[t].handle = task[t].handle
      /\ task'[t].pc \in {"guard", "open"} /\ (task'[t].pc = "guard" <=> task[t].op = "signIn")
      /\ \A s \in Tasks \ {t} : Same(s)
  BY StoreStep DEF Became, Letting
<1>3. Calm /\ Locked
  BY <1>1, CalmBefore DEF LockInv, Locked
<1>4. record = None /\ record' # None /\ record'.handle = task[t].handle
  <2>1. record = None
    BY <1>1, <1>3 DEF Locked, Ours
  <2>2. record' \in Sealed
    <3>1. task[t].key \in Keys
      BY StoreStep
    <3> QED BY <1>1, <3>1 DEF Sealed
  <2> QED BY <1>1, <2>1, <2>2, Distinct
<1>5. \A s \in Tasks : AtWork(task[s])
  BY ShapesAre
<1>6. \A s \in Tasks \ {t} : task[s].pc # "store" /\ (row = None => task[s].op # "signIn")
  BY <1>1, <1>3, <1>5 DEF Locked, Ours, Alone, AtWork, Writing
<1>7. ASSUME NEW s \in Tasks PROVE Ours(s)'
  <2>1. CASE s = t
    BY <1>1, <1>2, <1>3, <1>4, <2>1 DEF Locked, Ours, Working, PastRow
  <2>2. CASE s # t
    <3>1. Ours(s) /\ Same(s)
      BY <1>2, <1>3, <2>2 DEF Locked
    <3>2. task[s].pc \notin {"store", "open", "save", "register", "load", "restore"}
      BY <1>4, <1>6, <2>2, <3>1 DEF Ours
    <3>3. row = None => task[s].pc \notin {"take", "mint", "guard"}
      BY <1>5, <1>6, <2>2, <3>1 DEF Ours, AtWork, Writing
    <3> QED BY <1>1, <3>1, <3>2, <3>3 DEF Ours, Same
  <2> QED BY <2>1, <2>2
<1>8. \A s, u \in Tasks : Alone(s, u)'
  BY <1>1, <1>2, <1>3 DEF Locked, Alone, Same
<1>9. AccountHas'
  <2>1. row # None => record'.handle = row
    BY <1>1, <1>3, <1>4, <1>5 DEF Locked, Ours, AtWork, Writing, Working
  <2> QED BY <1>1, <1>2, <1>4, <2>1 DEF AccountHas
<1> QED BY <1>7, <1>8, <1>9 DEF Locked

LEMMA RegisterLock ==
  ASSUME CustodyAssumption, Shapes, Marked, LockInv, NEW t \in Tasks, Register(t)
  PROVE  LockInv'
<1> SUFFICES ASSUME Calm' PROVE Locked'
  BY DEF LockInv, Locked
<1>1. /\ task[t].pc = "register" /\ task[t].op = "signIn" /\ task[t].handle \in Handles
      /\ row' = (IF row = None THEN task[t].handle ELSE row)
      /\ record' = record /\ wrapped' = wrapped /\ drawn' = drawn /\ scars' = scars
  BY RegisterStep, ShapesAre DEF Register, Doing, outside, history, AtWork, Working
<1>2. /\ task'[t].pc = "settle" /\ task'[t].op = "signIn" /\ task'[t].handle = task[t].handle
      /\ \A s \in Tasks \ {t} : task'[s] = task[s]
  BY RegisterStep DEF Became, Others
<1>3. Calm /\ Locked
  BY <1>1, CalmBefore DEF LockInv, Locked
<1>4. row' # None /\ record # None /\ record.handle = task[t].handle
      /\ task[t].handle = row'
  <2>1. Ours(t)
    BY <1>3 DEF Locked
  <2> QED BY <1>1, <2>1, Distinct DEF Ours, Working
<1>5. \A s \in Tasks : AtWork(task[s])
  BY ShapesAre
<1>6. \A s \in Tasks : task[s].pc \notin PastRow
  <2>1. \A s \in Tasks : task[s].op # "delete"
    BY <1>1, <1>3, CalmDeletion
  <2> QED BY <1>5, <2>1 DEF AtWork
<1>7. ASSUME NEW s \in Tasks \ {t} PROVE Ours(s)'
  <2>1. Ours(s) /\ task'[s] = task[s]
    BY <1>2, <1>3 DEF Locked
  <2>2. row = None => task[s].op \notin Working
    BY <1>1, <1>3, <2>1 DEF Locked, Ours, Alone, Working
  <2>3. task[s].op \in Working => task[s].handle = row'
    BY <1>1, <2>1, <2>2 DEF Ours
  <2> QED BY <1>1, <1>4, <1>6, <2>1, <2>3 DEF Ours
<1>8. Ours(t)'
  BY <1>2, <1>4 DEF Ours, PastRow
<1>9. \A s, u \in Tasks : Alone(s, u)'
  BY <1>1, <1>2, <1>3, <1>4 DEF Locked, Alone
<1>10. AccountHas'
  BY <1>1, <1>4 DEF AccountHas
<1> QED BY <1>7, <1>8, <1>9, <1>10 DEF Locked

\* The deletion's own steps: in a calm state nobody else is at work.
LEMMA DeletionLock ==
  ASSUME CustodyAssumption, Shapes, Marked, LockInv, NEW t \in Tasks,
         \/ DropRow(t) /\ row # None
         \/ Unlink(t) \/ Rmtree(t)
  PROVE  LockInv'
<1> SUFFICES ASSUME Calm' PROVE Locked'
  BY DEF LockInv, Locked
<1>1. scars \subseteq scars' /\ wrapped' = wrapped /\ drawn' = drawn
  BY DEF DropRow, Unlink, Rmtree, outside, history
<1>2. Calm /\ Locked
  BY <1>1, CalmBefore DEF LockInv, Locked
<1>3. /\ task[t].op = "delete" /\ task[t].pc \in {"row", "unlink", "rmtree"}
      /\ \A s \in Tasks \ {t} : task'[s] = task[s]
      /\ task'[t].op \in {"none", "delete"} /\ task'[t].pc \in {"idle", "forget", "rmtree"}
      /\ (DropRow(t) /\ row # None => task'[t].pc = "forget")
  <2>1. CASE DropRow(t) /\ row # None
    BY <2>1, DropRowStep DEF Became, Others
  <2>2. CASE Unlink(t)
    <3>1. ~DropRow(t)
      BY <2>2 DEF Unlink, DropRow, Doing
    <3> QED BY <2>2, <3>1, UnlinkStep DEF Became, Others
  <2>3. CASE Rmtree(t)
    <3>1. task[t].pc = "rmtree" /\ ~DropRow(t) /\ task[t].op = "delete"
      BY <2>3, ShapesAre DEF Rmtree, DropRow, Doing, AtWork, PastRow
    <3> QED BY <2>3, <3>1, StopsShapes, StopBecomes, IdleWorks DEF Others
  <2> QED BY <2>1, <2>2, <2>3
<1>4. row' = None
  <2>1. CASE DropRow(t) /\ row # None
    BY <2>1 DEF DropRow
  <2>2. CASE Unlink(t) \/ Rmtree(t)
    <3>1. row = None
      BY <1>2, <2>2 DEF Unlink, Rmtree, Doing, Locked, Ours, PastRow
    <3> QED BY <2>2, <3>1 DEF Unlink, Rmtree
  <2> QED BY <2>1, <2>2
<1>5. \A s \in Tasks : /\ task'[s].op \in {"none", "delete"}
                       /\ task'[s].pc \in {"idle", "release", "row", "forget", "unlink", "rmtree"}
  BY <1>2, <1>3, CalmDeletion
<1>6. \A s \in Tasks : Ours(s)'
  BY <1>4, <1>5 DEF Ours, Working
<1>7. \A s, u \in Tasks : Alone(s, u)'
  BY <1>5 DEF Alone
<1>8. AccountHas'
  <2>1. CASE DropRow(t) /\ row # None
    BY <1>3, <1>4, <2>1 DEF AccountHas
  <2>2. CASE Unlink(t) \/ Rmtree(t)
    BY <1>4, <2>2 DEF Unlink, Rmtree, AccountHas
  <2> QED BY <2>1, <2>2
<1> QED BY <1>6, <1>7, <1>8 DEF Locked

LEMMA ArriveLock ==
  ASSUME CustodyAssumption, Shapes, HandlesDrawn, Marked, LockInv, NEW t \in Tasks, Arrive(t)
  PROVE  LockInv'
<1> SUFFICES ASSUME Calm' PROVE Locked'
  BY DEF LockInv, Locked
<1>1. PICK op \in {"signIn", "voice", "doc", "delete", "rotate"},
           pc \in {"take", "guard", "release", "load"}, h \in Handles \union {None} :
         Begun(t, op, pc, h)
  BY ArriveBegins
<1>2. /\ task'[t].op = op /\ task'[t].pc = pc /\ task'[t].handle = h
      /\ task[t].op = "none" /\ task[t].pc = "idle"
      /\ \A s \in Tasks \ {t} : task'[s] = task[s]
      /\ row' = row /\ record' = record /\ wrapped' = wrapped
      /\ scars \union Overlap(op) \subseteq scars'
  BY <1>1, IdleWorks DEF Begun, Became, Others, disk, outside
<1>3. Calm /\ Locked
  BY <1>2, CalmBefore DEF LockInv, Locked
<1>4. \A s \in Tasks : AtWork(task[s]) /\ task[s] \in Works
  BY ShapesAre
<1>5. \A s, u \in Tasks : Alone(s, u)'
  <2>1. row = None /\ op = "signIn" => \A s \in Tasks : task[s].op # "signIn"
    BY <1>1, CalmIs DEF Begun, InFlight
  <2>2. \A s \in Tasks : task'[s].pc = "store" => s # t
    BY <1>2
  <2> QED BY <1>2, <1>3, <2>1, <2>2 DEF Locked, Alone
<1>6. CASE row # None
  <2>1. h = row \/ op = "delete"
    BY <1>1, <1>6 DEF Begun
  <2>2. Ours(t)'
    <3>1. record # None => record.handle = row
      BY <1>3, <1>6 DEF Locked, AccountHas
    <3>2. pc = "load" => record # None /\ h = row
      BY <1>1 DEF Begun
    <3> QED BY <1>2, <1>6, <2>1, <3>1, <3>2 DEF Ours, Working, PastRow
  <2>3. \A s \in Tasks \ {t} : Ours(s)'
    BY <1>2, <1>3, <1>6 DEF Locked, Ours
  <2>4. AccountHas'
    BY <1>2, <1>3, <1>6 DEF Locked, AccountHas
  <2> QED BY <1>5, <2>2, <2>3, <2>4 DEF Locked
<1>7. CASE row = None
  <2>1. op = "signIn" /\ pc = "take" /\ h = drawn + 1 /\ "twins" \notin scars'
        /\ drawn' = (IF h > drawn THEN h ELSE drawn)
        /\ (InFlight("signIn") => "twins" \in scars')
    BY <1>1, <1>7, CalmIs DEF Begun
  <2>2. drawn \in Nat /\ wrapped \subseteq Nat
    BY ShapesAre, Distinct DEF Rest
  <2>3. h = drawn' /\ h \notin wrapped
    BY <2>1, <2>2 DEF HandlesDrawn
  <2>4. \A s \in Tasks : task[s].op = "none"
    <3>1. \A s \in Tasks : task[s].op # "delete"
      <4>1. ~InFlight("delete")
        <5>1. InFlight("delete") => "signIn" \in Overlap("signIn")
          BY DEF Overlap
        <5> QED BY <1>2, <2>1, <5>1, CalmIs DEF Working
      <4> QED BY <4>1 DEF InFlight
    <3>2. \A s \in Tasks : task[s].op # "signIn"
      BY <2>1 DEF InFlight
    <3> QED BY <1>3, <1>7, <3>1, <3>2 DEF Locked, Ours
  <2>5. \A s \in Tasks : task[s].pc = "idle"
    BY <1>4, <2>4 DEF AtWork, Writing, PastRow, Works
  <2>6. record = None
    BY <1>3, <1>7, <2>5 DEF Locked, AccountHas
  <2>7. Ours(t)'
    BY <1>2, <1>7, <2>1, <2>3, <2>6 DEF Ours, PastRow
  <2>8. \A s \in Tasks \ {t} : Ours(s)'
    BY <1>2, <1>7, <2>4, <2>5 DEF Ours, Working, PastRow
  <2>9. AccountHas'
    BY <1>2, <1>7, <2>6 DEF AccountHas
  <2> QED BY <1>5, <2>7, <2>8, <2>9 DEF Locked
<1> QED BY <1>6, <1>7

LEMMA LockStep ==
  ASSUME CustodyAssumption, Shapes, HandlesDrawn, Marked, LockInv, Next
  PROVE  LockInv'
<1>1. ASSUME NEW t \in Tasks, Arrive(t)
      PROVE  LockInv'
  BY <1>1, ArriveLock
<1>2. ASSUME NEW t \in Tasks, Write(t)
      PROVE  LockInv'
  BY <1>2, EndingSteps, GoingSteps, MintLock, WrapLostLock, StoreLock, RegisterLock DEF Write
<1>3. ASSUME NEW t \in Tasks, Delete(t)
      PROVE  LockInv'
  BY <1>3, EndingSteps, GoingSteps, DeletionLock DEF Delete
<1>4. ASSUME NEW t \in Tasks, Rotate(t) \/ Unrecorded(t)
      PROVE  LockInv'
  BY <1>4, EndingSteps, GoingSteps DEF Rotate
<1> QED BY <1>1, <1>2, <1>3, <1>4, WorldLock DEF Next

-----------------------------------------------------------------------------
(* What is on disk, in the caches and in hand: FileInv.                    *)

Matching ==
  /\ (\A t \in Tasks : task[t].pc # "rmtree") => \A n \in Names : file[n] \in {None, record}
  /\ record # None => \A p \in Processes : cache[p] # None => cache[p].key = record.key
  /\ record = None => cache["web"] = None /\ (row # None => cache["mail"] = None)
  /\ \A t \in Tasks : task[t].pc \in {"unlink", "rmtree"} => cache["web"] = None
  /\ \A t \in Tasks : task[t].pc = "save" => task[t].held \in {Cached, record.key}

LEMMA SoundIs ==
  ASSUME scars \subseteq scars', Sound'
  PROVE  /\ Sound /\ Calm /\ Calm' /\ "read" \notin scars' /\ "wiped" \notin scars'
         /\ "stranded" \notin scars' /\ "halfDeleted" \notin scars'
         /\ \A o \in Working : o \notin scars'
BY CalmIs DEF Sound

LEMMA MatchingIs ==
  /\ FileInv <=> (Sound => Matching)
  /\ FileInv' <=> (Sound' => Matching')
BY DEF FileInv, Matching

\* Files vanish, caches are dropped or age, threads move about.
LEMMA QuietMatching ==
  ASSUME Matching,
         record' = record, record = None /\ row' # None => row # None,
         \A n \in Names : file'[n] \in {file[n], None},
         \A p \in Processes :
           cache'[p] = None \/ (cache[p] # None /\ cache'[p].key = cache[p].key),
         \A s \in Tasks :
           /\ task'[s].pc \in {"unlink", "rmtree"} =>
                task[s].pc \in {"unlink", "rmtree"} \/ cache'["web"] = None
           /\ task'[s].pc = "save" => task[s].pc = "save" /\ task'[s].held = task[s].held
           /\ task[s].pc = "rmtree" => task'[s].pc = "rmtree"
  PROVE  Matching'
<1>1. "web" \in Processes /\ "mail" \in Processes
  BY DEF Processes
<1>2. (\A s \in Tasks : task'[s].pc # "rmtree") => \A n \in Names : file'[n] \in {None, record}
  BY DEF Matching
<1>3. record # None => \A p \in Processes : cache'[p] # None => cache'[p].key = record.key
  BY DEF Matching
<1>4. record = None => cache'["web"] = None /\ (row' # None => cache'["mail"] = None)
  BY <1>1 DEF Matching
<1>5. \A s \in Tasks : task'[s].pc \in {"unlink", "rmtree"} => cache'["web"] = None
  BY <1>1 DEF Matching
<1>6. \A s \in Tasks : task'[s].pc = "save" => task'[s].held \in {Cached, record.key}
  BY DEF Matching
<1> QED BY <1>2, <1>3, <1>4, <1>5, <1>6 DEF Matching

\* Threads the wipe did not reach, in a sound state.
LEMMA LettingSound ==
  ASSUME NEW t \in Tasks, NEW p, NEW b, Letting(t, p, b), "wiped" \notin scars',
         b = Wiped => WipedBy(p) \subseteq scars'
  PROVE  b = Wiped => \A s \in Tasks \ {t} : task'[s].held = task[s].held
BY WipedIsMarked DEF Letting

LEMMA QuietThreads ==
  ASSUME CustodyAssumption, Shapes, NEW t \in Tasks, "wiped" \notin scars',
         \/ Arrive(t) \/ Take(t) \/ Guard(t) \/ RefuseDeleted(t) \/ Mint(t) \/ MintRefused(t)
         \/ WrapLost(t) \/ OpenFails(t) \/ Register(t) \/ RegisterRefused(t) \/ Settle(t)
         \/ Release(t) \/ Unreleased(t) \/ DropRow(t) \/ ForgetKey(t)
         \/ Load(t) \/ LoadFails(t) \/ Restore(t) \/ Unrecorded(t)
  PROVE  /\ \A s \in Tasks \ {t} : task'[s].pc = task[s].pc /\ task'[s].held = task[s].held
         /\ task'[t].pc # "save" /\ task[t].pc # "rmtree" /\ task'[t].pc # "rmtree"
         /\ task'[t].pc = "unlink" => ForgetKey(t)
<1>1. CASE Arrive(t)
  <2>1. PICK op \in {"signIn", "voice", "doc", "delete", "rotate"},
             pc \in {"take", "guard", "release", "load"}, h \in Handles \union {None} :
           Begun(t, op, pc, h)
    BY <1>1, ArriveBegins
  <2> QED BY <2>1, IdleWorks DEF Begun, Became, Others
<1>2. CASE Take(t) \/ Guard(t) \/ Mint(t) \/ Register(t) \/ Unreleased(t) \/ DropRow(t) \/ Load(t)
  <2>1. /\ Others(t) /\ task'[t].pc \notin {"save", "rmtree", "unlink"}
    BY <1>2, TakeStep, GuardStep, MintStep, RegisterStep, UnreleasedStep, DropRowStep, LoadStep
       DEF Became
  <2>2. task[t].pc # "rmtree"
    BY <1>2 DEF Take, Guard, Mint, Register, Unreleased, DropRow, Load, Doing
  <2> QED BY <2>1, <2>2 DEF Others
<1>3. CASE \/ MintRefused(t) \/ WrapLost(t) \/ OpenFails(t) \/ RegisterRefused(t)
           \/ LoadFails(t) \/ Restore(t) \/ Unrecorded(t)
  <2>1. Others(t) /\ task'[t].pc = "idle"
    BY <1>3, StopsShapes, StopBecomes DEF Became
  <2>2. task[t].pc # "rmtree"
    BY <1>3 DEF MintRefused, WrapLost, OpenFails, RegisterRefused, LoadFails, Restore,
       Unrecorded, Doing
  <2> QED BY <2>1, <2>2 DEF Others
<1>4. CASE RefuseDeleted(t)
  <2> DEFINE p == Process(task[t].op)
  <2>1. Letting(t, p, Wiped) /\ WipedBy(p) \subseteq scars' /\ task'[t].pc = "idle"
    BY <1>4, RefuseStep DEF RefuseDeleted, Became
  <2> HIDE DEF p
  <2>2. \A s \in Tasks \ {t} : task'[s].held = task[s].held
    BY <2>1, LettingSound
  <2> QED BY <1>4, <2>1, <2>2 DEF Letting, Same, RefuseDeleted, Doing
<1>5. CASE Settle(t) \/ Release(t)
  <2>1. Letting(t, "mail", Wiped) /\ WipedBy("mail") \subseteq scars'
        /\ task'[t].pc \in {"idle", "row"} /\ task[t].pc # "rmtree"
    BY <1>5, SettleStep, ReleaseStep DEF Settle, Release, Became, Doing
  <2>2. \A s \in Tasks \ {t} : task'[s].held = task[s].held
    BY <2>1, LettingSound
  <2> QED BY <2>1, <2>2 DEF Letting, Same
<1>6. CASE ForgetKey(t)
  <2>1. Letting(t, "web", Wiped) /\ WipedBy("web") \subseteq scars'
        /\ task'[t].pc = "unlink" /\ task[t].pc # "rmtree"
    BY <1>6, ForgetStep DEF ForgetKey, Became, Doing
  <2>2. \A s \in Tasks \ {t} : task'[s].held = task[s].held
    BY <2>1, LettingSound
  <2> QED BY <1>6, <2>1, <2>2 DEF Letting, Same
<1> QED BY <1>1, <1>2, <1>3, <1>4, <1>5, <1>6

LEMMA QuietFiles ==
  ASSUME CustodyAssumption, Shapes, LockInv, FileInv, NEW t \in Tasks, scars \subseteq scars',
         \/ Arrive(t) \/ Take(t) \/ Guard(t) \/ RefuseDeleted(t) \/ Mint(t) \/ MintRefused(t)
         \/ WrapLost(t) \/ OpenFails(t) \/ Register(t) \/ RegisterRefused(t) \/ Settle(t)
         \/ Release(t) \/ Unreleased(t) \/ DropRow(t) \/ ForgetKey(t)
         \/ Load(t) \/ LoadFails(t) \/ Restore(t) \/ Unrecorded(t)
  PROVE  FileInv'
<1> SUFFICES ASSUME Sound' PROVE Matching'
  BY MatchingIs
<1>1. Sound /\ Calm /\ Matching /\ Locked /\ "wiped" \notin scars'
  BY SoundIs, MatchingIs DEF LockInv, Locked
<1>2. /\ \A s \in Tasks \ {t} : task'[s].pc = task[s].pc /\ task'[s].held = task[s].held
      /\ task'[t].pc # "save" /\ task[t].pc # "rmtree" /\ task'[t].pc # "rmtree"
      /\ task'[t].pc = "unlink" => ForgetKey(t)
  BY <1>1, QuietThreads
<1>3. record' = record
  <2>1. CASE Restore(t)
    <3>1. task[t].pc = "restore" /\ record' = [handle |-> task[t].handle, key |-> task[t].key]
      BY <2>1 DEF Restore, Doing
    <3>2. record \in Record /\ record.handle = task[t].handle /\ record.key = task[t].key
      BY <1>1, <3>1, ShapesAre DEF Locked, Ours, Rest
    <3> QED BY <3>1, <3>2 DEF Record
  <2>2. CASE ~Restore(t)
    <3>1. CASE Arrive(t)
      BY <3>1, ArriveBegins DEF Begun, disk
    <3> QED BY <2>2, <3>1 DEF Take, Guard, RefuseDeleted, Mint, MintRefused, WrapLost,
            OpenFails, Register, RegisterRefused, Settle, Release, Unreleased, DropRow,
            ForgetKey, Load, LoadFails, Unrecorded, disk
  <2> QED BY <2>1, <2>2
<1>4. record = None /\ row' # None => row # None
  <2>1. CASE Register(t)
    BY <1>1, <2>1 DEF Register, Doing, Locked, Ours
  <2>2. CASE Arrive(t)
    BY <2>2, ArriveBegins DEF Begun, disk
  <2>3. CASE ~Register(t) /\ ~Arrive(t)
    <3>1. row' \in {row, None}
      BY <2>3 DEF Take, Guard, RefuseDeleted, Mint, MintRefused, WrapLost,
         OpenFails, RegisterRefused, Settle, Release, Unreleased, DropRow,
         ForgetKey, Load, LoadFails, Restore, Unrecorded, disk
    <3> QED BY <3>1
  <2> QED BY <2>1, <2>2, <2>3
<1>5. \A n \in Names : file'[n] \in {file[n], None}
  <2>1. CASE RegisterRefused(t)
    BY <2>1, ShapesAre DEF RegisterRefused, Rest
  <2>2. CASE Arrive(t)
    BY <2>2, ArriveBegins DEF Begun, disk
  <2>3. CASE ~RegisterRefused(t) /\ ~Arrive(t)
    <3>1. file' = file
      BY <2>3 DEF Take, Guard, RefuseDeleted, Mint, MintRefused, WrapLost,
         OpenFails, Register, Settle, Release, Unreleased, DropRow,
         ForgetKey, Load, LoadFails, Restore, Unrecorded, disk
    <3> QED BY <3>1
  <2> QED BY <2>1, <2>2, <2>3
<1>6. /\ \A p \in Processes : cache'[p] = None \/ cache'[p] = cache[p]
      /\ ForgetKey(t) => cache'["web"] = None
  <2>1. CASE RefuseDeleted(t) \/ Settle(t) \/ Release(t) \/ ForgetKey(t)
    BY <2>1, ShapesAre DEF RefuseDeleted, Settle, Release, ForgetKey, Forgotten, Rest, Processes
  <2>2. CASE Arrive(t)
    <3>1. cache' = cache
      BY <2>2, ArriveBegins DEF Begun
    <3>2. ~ForgetKey(t)
      BY <2>2, ArriveBegins, IdleWorks DEF Begun, ForgetKey, Doing
    <3> QED BY <3>1, <3>2
  <2>3. CASE \/ Take(t) \/ Guard(t) \/ Mint(t) \/ MintRefused(t)
             \/ WrapLost(t) \/ OpenFails(t) \/ Register(t) \/ RegisterRefused(t)
             \/ Unreleased(t) \/ DropRow(t)
             \/ Load(t) \/ LoadFails(t) \/ Restore(t)
    <3>1. cache' = cache
      BY <2>3 DEF Take, Guard, Mint, MintRefused, WrapLost, OpenFails, Register,
         RegisterRefused, Unreleased, DropRow, Load, LoadFails, Restore
    <3>2. ~ForgetKey(t)
      BY <2>3 DEF Take, Guard, Mint, MintRefused, WrapLost, OpenFails, Register,
         RegisterRefused, Unreleased, DropRow, Load, LoadFails, Restore, ForgetKey, Doing
    <3> QED BY <3>1, <3>2
  <2>4. CASE Unrecorded(t) /\ ~ForgetKey(t)
    BY <2>4 DEF Unrecorded
  <2> QED BY <2>1, <2>2, <2>3, <2>4
<1>7. \A s \in Tasks :
        /\ task'[s].pc \in {"unlink", "rmtree"} =>
             task[s].pc \in {"unlink", "rmtree"} \/ cache'["web"] = None
        /\ task'[s].pc = "save" => task[s].pc = "save" /\ task'[s].held = task[s].held
        /\ task[s].pc = "rmtree" => task'[s].pc = "rmtree"
  BY <1>2, <1>6
<1>8. \A p \in Processes :
        cache'[p] = None \/ (cache[p] # None /\ cache'[p].key = cache[p].key)
  BY <1>6
<1> QED BY <1>1, <1>3, <1>4, <1>5, <1>7, <1>8, QuietMatching

LEMMA StoreFiles ==
  ASSUME CustodyAssumption, Shapes, Marked, LockInv, FileInv, NEW t \in Tasks, StoreKey(t)
  PROVE  FileInv'
<1> SUFFICES ASSUME Sound' PROVE Matching'
  BY MatchingIs
<1> DEFINE p == Process(task[t].op)
<1>1. /\ task[t].pc = "store" /\ task[t].key \in Keys /\ p \in Processes
      /\ record' = [handle |-> task[t].handle, key |-> task[t].key]
      /\ cache' = [cache EXCEPT ![p] = [key |-> task[t].key, live |-> TRUE]]
      /\ row' = row /\ file' = file /\ scars' = scars
  BY StoreStep DEF StoreKey, history, Loaded
<1>2. /\ task'[t].pc \in {"guard", "open"} /\ \A s \in Tasks \ {t} : task'[s].pc = task[s].pc
  BY StoreStep DEF Became, Letting, Same
<1>3. Calm /\ Matching /\ Locked
  BY <1>1, SoundIs, MatchingIs DEF LockInv, Locked
<1>4. record = None /\ task[t].op \in {"signIn", "voice", "doc"}
  BY <1>1, <1>3, ShapesAre DEF Locked, Ours, AtWork, Writing
<1>5. \A s \in Tasks : task[s].pc \notin {"unlink", "rmtree", "save"}
  <2>1. \A s \in Tasks : task[s].op # "delete"
    BY <1>3, <1>4, CalmDeletion
  <2>2. \A s \in Tasks : AtWork(task[s])
    BY ShapesAre
  <2> QED BY <1>3, <1>4, <2>1, <2>2 DEF AtWork, PastRow, Locked, Ours
<1>6. \A s \in Tasks : task'[s].pc \notin {"unlink", "rmtree", "save"}
  BY <1>2, <1>5
<1>7. \A n \in Names : file'[n] = None
  BY <1>1, <1>3, <1>4, <1>5 DEF Matching
<1>8. record' # None /\ record'.key = task[t].key
  BY <1>1, Distinct, StoreStep DEF Sealed
<1>9. \A q \in Processes : cache'[q] # None => cache'[q].key = task[t].key
  <2>1. \A q \in Processes \ {p} : cache[q] = None
    <3>1. row = None => p = "mail"
      BY <1>3, <1>4, Homes DEF Locked, Ours
    <3> QED BY <1>3, <1>4, <3>1 DEF Matching, Processes
  <2>2. cache \in [Processes -> Cells \union {None}]
    BY ShapesAre DEF Rest
  <2> QED BY <1>1, <2>1, <2>2
<1> QED BY <1>6, <1>7, <1>8, <1>9 DEF Matching

\* Opening puts the record's key into the cache and into the hands of those
\* who held the buffer.
LEMMA OpenFiles ==
  ASSUME CustodyAssumption, Shapes, Marked, LockInv, FileInv, NEW t \in Tasks, Open(t)
  PROVE  FileInv'
<1> SUFFICES ASSUME Sound' PROVE Matching'
  BY MatchingIs
<1> DEFINE p == Process(task[t].op)
           b == IF cache' = cache THEN Cached ELSE cache[p].key
<1>1. /\ task[t].pc = "open" /\ task[t].op \in {"signIn", "voice", "doc"} /\ p \in Processes
      /\ task'[t].pc = "save" /\ task'[t].held = Cached /\ Letting(t, p, b)
      /\ row' = row /\ record' = record /\ file' = file /\ scars' = scars
      /\ cache' = cache \/ cache' = [cache EXCEPT ![p] = [key |-> record.key, live |-> TRUE]]
  BY OpenStep DEF Open, disk, history, Became, Loaded
<1>2. Calm /\ Matching /\ Locked
  BY <1>1, SoundIs, MatchingIs DEF LockInv, Locked
<1>3. record # None
  BY <1>1, <1>2 DEF Locked, Ours
<1>4. \A s \in Tasks : task[s].pc \notin {"unlink", "rmtree"}
  <2>1. \A s \in Tasks : task[s].op # "delete"
    BY <1>1, <1>2, CalmDeletion
  <2> QED BY <2>1, ShapesAre DEF AtWork, PastRow
<1>5. \A q \in Processes : cache'[q] # None => cache'[q].key = record.key
  <2>1. cache \in [Processes -> Cells \union {None}]
    BY ShapesAre DEF Rest
  <2> QED BY <1>1, <1>2, <1>3, <2>1 DEF Matching
<1>6. ASSUME NEW s \in Tasks, task'[s].pc = "save"
      PROVE  task'[s].held \in {Cached, record.key}
  <2>1. CASE s = t
    BY <1>1, <2>1
  <2>2. CASE s # t
    <3>1. task[s].pc = "save" /\ task[s].held \in {Cached, record.key}
      BY <1>1, <1>2, <1>6, <2>2 DEF Letting, Same, Matching
    <3>2. Process(task[s].op) = p /\ task[s].held = Cached => b \in {Cached, record.key}
      BY <1>2, <1>3, CachedKey DEF Matching
    <3>3. task'[s].held = IF Process(task[s].op) = p /\ task[s].held = Cached
                          THEN b ELSE task[s].held
      BY <1>1, <2>2 DEF Letting
    <3> HIDE DEF b, p
    <3> QED BY <3>1, <3>2, <3>3
  <2> QED BY <2>1, <2>2
<1>7. \A s \in Tasks : task'[s].pc \notin {"unlink", "rmtree"}
  BY <1>1, <1>4 DEF Letting, Same
<1>8. \A n \in Names : file'[n] \in {None, record'}
  BY <1>1, <1>2, <1>4 DEF Matching
<1> QED BY <1>1, <1>3, <1>5, <1>6, <1>7, <1>8 DEF Matching

\* What a writer in a sound state seals is the record's own pair.
LEMMA SealedIs ==
  ASSUME CustodyAssumption, Shapes, Matching, Locked, NEW t \in Tasks, task[t].pc = "save"
  PROVE  record # None /\ [handle |-> task[t].handle, key |-> KeyInHand(t)] = record
<1>1. record # None /\ record.handle = task[t].handle
  BY DEF Locked, Ours
<1>2. KeyInHand(t) = record.key
  <2>1. CASE task[t].held = Cached
    BY <1>1, <2>1, CachedKey DEF KeyInHand, Matching
  <2>2. CASE task[t].held # Cached
    BY <2>2 DEF KeyInHand, Matching
  <2> QED BY <2>1, <2>2
<1>3. record \in Record
  BY <1>1, ShapesAre DEF Rest
<1> QED BY <1>1, <1>2, <1>3 DEF Record

LEMMA SaveFiles ==
  ASSUME CustodyAssumption, Shapes, Marked, LockInv, FileInv, NEW t \in Tasks, Save(t)
  PROVE  FileInv'
<1> SUFFICES ASSUME Sound' PROVE Matching'
  BY MatchingIs
<1>1. /\ task[t].pc = "save" /\ task'[t].pc \in {"register", "idle"}
      /\ \A s \in Tasks \ {t} : task'[s] = task[s]
      /\ row' = row /\ record' = record /\ cache' = cache /\ scars' = scars
  BY SaveStep, IdleWorks DEF Save, history, Became, Others
<1>2. Calm /\ Matching /\ Locked
  BY <1>1, SoundIs, MatchingIs DEF LockInv, Locked
<1>3. [handle |-> task[t].handle, key |-> KeyInHand(t)] = record
  BY <1>1, <1>2, SealedIs
<1>4. \A n \in Names : file'[n] \in {file[n], record}
  <2>1. file' = [file EXCEPT ![IF task[t].op = "signIn" THEN "token" ELSE "doc"] = record]
    BY <1>3 DEF Save
  <2>2. file \in [Names -> Sealed \union {None}]
    BY ShapesAre DEF Rest
  <2> QED BY <2>1, <2>2
<1>5. \A s \in Tasks : task[s].pc # "rmtree"
  <2>1. task[t].op \in {"signIn", "voice", "doc"}
    BY <1>1, ShapesAre DEF AtWork, Writing
  <2>2. \A s \in Tasks : task[s].op # "delete"
    BY <1>2, <2>1, CalmDeletion
  <2> QED BY <2>2, ShapesAre DEF AtWork, PastRow
<1>6. \A n \in Names : file'[n] \in {None, record}
  BY <1>2, <1>4, <1>5 DEF Matching
<1>7. \A s \in Tasks : /\ task'[s].pc \in {"unlink", "rmtree"} => task[s].pc \in {"unlink", "rmtree"}
                       /\ task'[s].pc = "save" => task'[s] = task[s]
  BY <1>1
<1> QED BY <1>1, <1>2, <1>6, <1>7 DEF Matching

LEMMA ErasingFiles ==
  ASSUME CustodyAssumption, Shapes, Marked, LockInv, FileInv, NEW t \in Tasks,
         Unlink(t) \/ Rmtree(t)
  PROVE  FileInv'
<1> SUFFICES ASSUME Sound' PROVE Matching'
  BY MatchingIs
<1>1. /\ task[t].op = "delete" /\ task[t].pc \in {"unlink", "rmtree"}
      /\ \A s \in Tasks \ {t} : task'[s] = task[s]
      /\ task'[t].pc \in {"rmtree", "idle"} /\ (task'[t].pc = "idle" => Rmtree(t))
      /\ record' = None /\ row' = row /\ cache' = cache /\ scars' = scars
  <2>1. CASE Unlink(t)
    BY <2>1, UnlinkStep DEF Unlink, Became, Others
  <2>2. CASE Rmtree(t)
    <3>1. task[t].pc = "rmtree" /\ task[t].op = "delete"
      BY <2>2, ShapesAre DEF Rmtree, Doing, AtWork, PastRow
    <3> QED BY <2>2, <3>1, StopsShapes, StopBecomes, IdleWorks DEF Others, Rmtree, history
  <2> QED BY <2>1, <2>2
<1>2. Calm /\ Matching /\ Locked
  BY <1>1, SoundIs, MatchingIs DEF LockInv, Locked
<1>3. cache["web"] = None /\ row = None
  BY <1>1, <1>2 DEF Matching, Locked, Ours, PastRow
<1>4. \A s \in Tasks : task[s].pc # "save"
  BY <1>1, <1>2, CalmDeletion
<1>5. \A s \in Tasks : task'[s].pc # "save"
  BY <1>1, <1>4
<1>6. (\A s \in Tasks : task'[s].pc # "rmtree") => \A n \in Names : file'[n] = None
  BY <1>1 DEF Rmtree
<1> QED BY <1>1, <1>3, <1>5, <1>6 DEF Matching

LEMMA ReadFiles ==
  ASSUME CustodyAssumption, Shapes, LockInv, FileInv, NEW p \in Processes, Read(p)
  PROVE  FileInv'
<1> SUFFICES ASSUME Sound' PROVE Matching'
  BY MatchingIs
<1>1. /\ cache' = [cache EXCEPT ![p] = [key |-> record.key, live |-> TRUE]]
      /\ row' = row /\ record' = record /\ file' = file /\ record # None
      /\ scars' = scars \union Overlap("read")
  BY DEF Read, disk, Loaded
<1>2. Calm /\ Matching /\ "read" \notin scars'
  BY <1>1, SoundIs, MatchingIs
<1>3. \A s \in Tasks : task[s].pc \notin {"unlink", "rmtree"}
  <2>1. \A s \in Tasks : task[s].op # "delete"
    BY <1>1, <1>2 DEF Overlap, InFlight
  <2> QED BY <2>1, ShapesAre DEF AtWork, PastRow
<1>4. \A q \in Processes : cache'[q] # None => cache'[q].key = record.key
  <2>1. cache \in [Processes -> Cells \union {None}]
    BY ShapesAre DEF Rest
  <2> QED BY <1>1, <1>2, <2>1 DEF Matching
<1>5. \A s \in Tasks :
        /\ task'[s].pc = task[s].pc
        /\ task'[s].held = IF Process(task[s].op) = p /\ task[s].held = Cached
                           THEN cache[p].key ELSE task[s].held
  BY ReadStep DEF Same
<1>6. ASSUME NEW s \in Tasks, task'[s].pc = "save"
      PROVE  task'[s].held \in {Cached, record.key}
  <2>1. Process(task[s].op) = p /\ task[s].held = Cached => cache[p].key = record.key
    BY <1>1, <1>2, CachedKey DEF Matching
  <2>2. task[s].pc = "save" /\ task[s].held \in {Cached, record.key}
    BY <1>2, <1>5, <1>6 DEF Matching
  <2> QED BY <1>5, <2>1, <2>2
<1> QED BY <1>1, <1>2, <1>3, <1>4, <1>5, <1>6 DEF Matching

LEMMA WorldFiles ==
  ASSUME CustodyAssumption, Shapes, LockInv, FileInv,
         ClearDoc \/ \E p \in Processes : Read(p) \/ Expire(p) \/ Crash(p)
  PROVE  FileInv'
<1>1. CASE ClearDoc \/ \E p \in Processes : Expire(p) \/ Crash(p)
  <2> SUFFICES ASSUME Sound' PROVE Matching'
    BY MatchingIs
  <2>1. /\ record' = record /\ row' = row /\ scars \subseteq scars'
        /\ \A n \in Names : file'[n] \in {file[n], None}
    BY <1>1, ShapesAre DEF ClearDoc, Expire, Crash, disk, history, Rest, Names
  <2>2. Matching /\ "halfDeleted" \notin scars'
    BY <2>1, SoundIs, MatchingIs
  <2>3. \A p \in Processes :
          cache'[p] = None \/ (cache[p] # None /\ cache'[p].key = cache[p].key)
    <3>1. cache \in [Processes -> Cells \union {None}]
      BY ShapesAre DEF Rest
    <3>2. CASE ClearDoc \/ \E p \in Processes : Crash(p)
      BY <3>1, <3>2, CrashStep DEF ClearDoc
    <3>3. CASE \E p \in Processes : Expire(p)
      BY <3>3, ExpireStep
    <3> QED BY <1>1, <3>2, <3>3
  <2>4. ASSUME NEW s \in Tasks
        PROVE  /\ task'[s].pc \in {"unlink", "rmtree"} =>
                    task[s].pc \in {"unlink", "rmtree"} \/ cache'["web"] = None
               /\ task'[s].pc = "save" => task[s].pc = "save" /\ task'[s].held = task[s].held
               /\ task[s].pc = "rmtree" => task'[s].pc = "rmtree"
    <3>1. task'[s] = task[s] \/ (task'[s] = Idle /\ Left(s) \subseteq scars')
      BY <1>1, ClearStep, ExpireStep, CrashStep
    <3>2. task[s].pc = "rmtree" => "halfDeleted" \in Left(s)
      BY DEF Left
    <3> QED BY <2>2, <3>1, <3>2, IdleWorks
  <2> QED BY <2>1, <2>2, <2>3, <2>4, QuietMatching
<1>2. CASE \E p \in Processes : Read(p)
  BY <1>2, ReadFiles
<1> QED BY <1>1, <1>2

LEMMA FileStep ==
  ASSUME CustodyAssumption, Shapes, Marked, LockInv, FileInv, Next
  PROVE  FileInv'
<1>1. ASSUME NEW t \in Tasks, Arrive(t)
      PROVE  FileInv'
  <2>1. scars \subseteq scars'
    BY <1>1, ArriveBegins DEF Begun
  <2> QED BY <1>1, <2>1, QuietFiles
<1>2. ASSUME NEW t \in Tasks, Write(t)
      PROVE  FileInv'
  <2>1. scars \subseteq scars'
    BY <1>2, WriteFrame DEF Frame
  <2> QED BY <1>2, <2>1, QuietFiles, StoreFiles, OpenFiles, SaveFiles DEF Write
<1>3. ASSUME NEW t \in Tasks, Delete(t)
      PROVE  FileInv'
  <2>1. scars \subseteq scars'
    BY <1>3, DeleteFrame DEF Frame
  <2> QED BY <1>3, <2>1, QuietFiles, ErasingFiles DEF Delete
<1>4. ASSUME NEW t \in Tasks, Rotate(t) \/ Unrecorded(t)
      PROVE  FileInv'
  <2>1. scars \subseteq scars'
    BY <1>4, RotateFrame DEF Frame
  <2> QED BY <1>4, <2>1, QuietFiles DEF Rotate
<1> QED BY <1>1, <1>2, <1>3, <1>4, WorldFiles DEF Next

-----------------------------------------------------------------------------
(* What the daemon's part of a deletion leaves: ReleaseInv.                *)

Revoked ==
  /\ grant => file["token"] # None
  /\ \A t \in Tasks : task[t].pc \in PastRow \union {"row"} => ~grant /\ cache["mail"] = None
  /\ row = None /\ grant => \E t \in Tasks : task[t].pc = "register"

LEMMA ScarlessIs ==
  ASSUME scars \subseteq scars', scars' = {}
  PROVE  scars = {} /\ Sound /\ Sound' /\ Calm /\ Calm'
BY CalmIs DEF Sound

\* The steps that neither set a grant nor touch the token, the mail daemon's
\* cache or the row, and move nobody to or from "register".
LEMMA QuietRelease ==
  ASSUME Revoked,
         grant' = grant, row' = row, file'["token"] = file["token"],
         cache'["mail"] = cache["mail"] \/ cache'["mail"] = None,
         \A s \in Tasks :
           /\ task'[s].pc \in PastRow \union {"row"} => task[s].pc \in PastRow \union {"row"}
           /\ row = None /\ task[s].pc = "register" => task'[s].pc = "register"
  PROVE  Revoked'
<1>1. \A s \in Tasks : task'[s].pc \in PastRow \union {"row"} => ~grant /\ cache'["mail"] = None
  BY DEF Revoked
<1>2. row = None /\ grant => \E s \in Tasks : task'[s].pc = "register"
  BY DEF Revoked
<1> QED BY <1>1, <1>2 DEF Revoked

\* With a deletion nowhere in sight only the token and its grant matter.
LEMMA NoDeletion ==
  ASSUME CustodyAssumption, Shapes, Marked, Calm, NEW t \in Tasks, task[t].op \in Working
  PROVE  \A s \in Tasks : task[s].pc \notin PastRow \union {"row", "release"}
<1>1. \A s \in Tasks : task[s].op # "delete"
  BY CalmDeletion DEF Working
<1> QED BY <1>1, ShapesAre DEF AtWork

LEMMA ArriveRelease ==
  ASSUME CustodyAssumption, Shapes, ReleaseInv, NEW t \in Tasks, Arrive(t)
  PROVE  ReleaseInv'
<1> SUFFICES ASSUME scars' = {} PROVE Revoked'
  BY DEF ReleaseInv, Revoked
<1>1. PICK op \in {"signIn", "voice", "doc", "delete", "rotate"},
           pc \in {"take", "guard", "release", "load"}, h \in Handles \union {None} :
         Begun(t, op, pc, h)
  BY ArriveBegins
<1>2. Revoked
  BY <1>1, ScarlessIs DEF Begun, ReleaseInv, Revoked
<1>3. /\ grant' = grant /\ row' = row /\ file' = file /\ cache' = cache
      /\ task[t].pc = "idle" /\ task'[t].pc = pc /\ \A s \in Tasks \ {t} : task'[s] = task[s]
  BY <1>1, IdleWorks DEF Begun, Became, Others, disk, outside
<1>4. \A s \in Tasks :
        /\ task'[s].pc \in PastRow \union {"row"} => task[s].pc \in PastRow \union {"row"}
        /\ row = None /\ task[s].pc = "register" => task'[s].pc = "register"
  BY <1>3 DEF PastRow
<1> QED BY <1>2, <1>3, <1>4, QuietRelease

\* A writer's steps: no deletion is past its release while it is at work.
LEMMA WriterRelease ==
  ASSUME CustodyAssumption, Shapes, Marked, ReleaseInv, NEW t \in Tasks,
         Write(t) \/ Rotate(t)
  PROVE  ReleaseInv'
<1> SUFFICES ASSUME scars' = {} PROVE Revoked'
  BY DEF ReleaseInv, Revoked
<1>0. scars \subseteq scars'
  BY WriteFrame, RotateFrame DEF Frame
<1>1. Revoked /\ Calm
  BY <1>0, ScarlessIs DEF ReleaseInv, Revoked
<1>2. task[t].op \in Working
  BY ShapesAre DEF Write, Rotate, Take, Guard, RefuseDeleted, Mint, MintRefused, WrapLost,
     StoreKey, Open, OpenFails, Save, Register, RegisterRefused, Settle, Load, LoadFails,
     Restore, Doing, AtWork, Writing, Working
<1>3. \A s \in Tasks : task[s].pc \notin PastRow \union {"row"}
  BY <1>1, <1>2, NoDeletion
<1>4. CASE Save(t)
  <2>1. /\ task'[t].pc \in {"register", "idle"} /\ (task'[t].pc = "register" <=> task[t].op = "signIn")
        /\ \A s \in Tasks \ {t} : task'[s] = task[s]
        /\ row' = row /\ task[t].pc = "save"
    BY <1>4, SaveStep, IdleWorks DEF Save, Became, Others
  <2>2. \A s \in Tasks : task'[s].pc \notin PastRow \union {"row"}
    BY <1>3, <2>1 DEF PastRow
  <2>3. grant' => grant \/ task[t].op = "signIn"
    BY <1>4 DEF Save
  <2>4. grant' => file'["token"] # None
    <3>1. CASE task[t].op = "signIn"
      <4>1. [handle |-> task[t].handle, key |-> KeyInHand(t)] \in Sealed
        <5>1. task[t].handle \in Handles
          BY <1>2, ShapesAre DEF AtWork
        <5> QED BY <2>1, <5>1, KeyInHandIs DEF Sealed
      <4>2. file'["token"] = [handle |-> task[t].handle, key |-> KeyInHand(t)]
        BY <1>4, <3>1, ShapesAre DEF Save, Rest, Names
      <4> QED BY <4>1, <4>2, Distinct
    <3>2. CASE task[t].op # "signIn"
      <4>1. file'["token"] = file["token"]
        BY <1>4, <3>2, ShapesAre DEF Save, Rest, Names
      <4> QED BY <1>1, <2>3, <3>2, <4>1 DEF Revoked
    <3> QED BY <3>1, <3>2
  <2>5. row' = None /\ grant' => \E s \in Tasks : task'[s].pc = "register"
    BY <1>1, <2>1, <2>3 DEF Revoked
  <2> QED BY <2>2, <2>4, <2>5 DEF Revoked
<1>5. CASE ~Save(t)
  <2>1. grant' = grant
    BY <1>5 DEF Write, Rotate, Take, Guard, RefuseDeleted, Mint, MintRefused, WrapLost,
       StoreKey, Open, OpenFails, Register, RegisterRefused, Settle, Load, LoadFails,
       Restore, outside
  <2>2. \A s \in Tasks : task'[s].pc \notin PastRow \union {"row"}
    <3>1. \A s \in Tasks : task'[s] = Idle \/ task'[s].op = task[s].op
      BY WriteFrame, RotateFrame DEF Frame, KeptBy
    <3>2. \A s \in Tasks : task[s].op # "delete"
      BY <1>1, <1>2, CalmDeletion DEF Working
    <3>3. \A s \in Tasks : AtWork(task'[s])
      BY WriteFrame, RotateFrame, ShapesAre
    <3> QED BY <3>1, <3>2, <3>3, IdleWorks DEF AtWork
  <2>3. CASE Register(t)
    <3>1. row' # None /\ file' = file
      <4>1. task[t].handle \in Handles
        BY <1>2, ShapesAre DEF AtWork
      <4> QED BY <2>3, <4>1, Distinct DEF Register
    <3> QED BY <1>1, <2>1, <2>2, <3>1 DEF Revoked
  <2>4. CASE RegisterRefused(t)
    <3>1. Left(t) \subseteq scars' /\ task[t].pc = "register" /\ row = None
      BY <2>4 DEF RegisterRefused, Doing
    <3>2. task[t].op = "signIn" /\ task[t].handle # row
      BY <3>1, ShapesAre, Distinct DEF AtWork, Working
    <3>3. "stranded" \in Left(t)
      BY <3>1, <3>2 DEF Left
    <3> QED BY <3>1, <3>3
  <2>5. CASE ~Register(t) /\ ~RegisterRefused(t)
    <3>1. row' = row /\ file' = file
      BY <1>5, <2>5 DEF Write, Rotate, Take, Guard, RefuseDeleted, Mint, MintRefused, WrapLost,
         StoreKey, Open, OpenFails, Settle, Load, LoadFails, Restore, disk
    <3>2. task[t].pc # "register"
      BY <1>5, <2>5 DEF Write, Rotate, Take, Guard, RefuseDeleted, Mint, MintRefused, WrapLost,
         StoreKey, Open, OpenFails, Settle, Load, LoadFails, Restore, Doing
    <3>3. \A s \in Tasks \ {t} : task'[s].pc = task[s].pc
      BY <1>5, <2>5, TakeStep, GuardStep, RefuseStep, MintStep, StopsShapes, StopBecomes,
         StoreStep, OpenStep, SettleStep, LoadStep
         DEF Write, Rotate, Others, Letting, Same
    <3> QED BY <1>1, <2>1, <2>2, <3>1, <3>2, <3>3 DEF Revoked
  <2> QED BY <2>3, <2>4, <2>5
<1> QED BY <1>4, <1>5

\* The daemon can revoke what it is asked to: the token is sealed under the
\* account's key, which the record or a fresh cache opens.
LEMMA GrantIsRevocable ==
  ASSUME CustodyAssumption, Shapes, Marked, LockInv, FileInv, ReleaseInv, scars = {},
         NEW t \in Tasks, task[t].op = "delete", grant
  PROVE  Revocable
<1>1. Revoked /\ Sound /\ Calm /\ Locked /\ Matching
  <2>1. Sound /\ Calm
    BY CalmIs DEF Sound
  <2> QED BY <2>1, MatchingIs DEF ReleaseInv, Revoked, LockInv, Locked
<1>2. row # None
  BY <1>1, CalmDeletion DEF Revoked
<1>3. \A s \in Tasks : task[s].pc # "rmtree"
  BY <1>1, <1>2 DEF Locked, Ours, PastRow
<1>4. file["token"] # None /\ file["token"] = record /\ record # None
  BY <1>1, <1>3 DEF Revoked, Matching, Names
<1>5. record.handle = row
  BY <1>1, <1>2, <1>4 DEF Locked, AccountHas
<1>6. Fresh("mail") => cache["mail"].key = record.key
  BY <1>1, <1>4 DEF Fresh, Matching, Processes
<1> QED BY <1>2, <1>4, <1>5, <1>6 DEF Revocable, Opens

LEMMA DeleteRelease ==
  ASSUME CustodyAssumption, Shapes, Marked, LockInv, FileInv, ReleaseInv,
         NEW t \in Tasks, Delete(t)
  PROVE  ReleaseInv'
<1> SUFFICES ASSUME scars' = {} PROVE Revoked'
  BY DEF ReleaseInv, Revoked
<1>0. scars \subseteq scars'
  BY DeleteFrame DEF Frame
<1>1. scars = {} /\ Revoked /\ Sound /\ Calm /\ Locked
  BY <1>0, ScarlessIs DEF ReleaseInv, Revoked, LockInv, Locked
<1>2. "mail" \in Processes /\ cache \in [Processes -> Cells \union {None}]
  BY ShapesAre DEF Processes, Rest
<1>3. CASE Release(t)
  <2>1. /\ task[t].op = "delete" /\ task[t].pc = "release" /\ task'[t].pc = "row"
        /\ \A s \in Tasks \ {t} : task'[s].pc = task[s].pc
    BY <1>3, ReleaseStep DEF Became, Letting, Same
  <2>2. /\ row' = row /\ file' = file /\ cache'["mail"] = None
        /\ grant' = (grant /\ ~Revocable)
    <3>1. "unreleased" \notin scars'
      OBVIOUS
    <3> QED BY <1>2, <1>3, <3>1 DEF Release, disk, Forgotten
  <2>3. ~grant'
    <3>1. CASE grant
      <4>1. Revocable
        BY <1>1, <2>1, <3>1, GrantIsRevocable
      <4> QED BY <2>2, <4>1
    <3>2. CASE ~grant
      BY <2>2, <3>2
    <3> QED BY <3>1, <3>2
  <2> QED BY <2>2, <2>3 DEF Revoked
<1>4. CASE Unreleased(t)
  BY <1>4 DEF Unreleased
<1>5. CASE DropRow(t)
  <2>1. task[t].pc = "row" /\ grant' = grant /\ file' = file /\ cache' = cache
    BY <1>5 DEF DropRow, Doing, outside
  <2>2. ~grant' /\ cache'["mail"] = None
    BY <1>1, <2>1 DEF Revoked
  <2> QED BY <2>2 DEF Revoked
<1>6. CASE ForgetKey(t)
  <2>1. task[t].pc = "forget" /\ grant' = grant /\ cache'["mail"] = cache["mail"]
    BY <1>2, <1>6 DEF ForgetKey, Doing, outside, Forgotten
  <2>2. ~grant' /\ cache'["mail"] = None
    BY <1>1, <2>1 DEF Revoked, PastRow
  <2> QED BY <2>2 DEF Revoked
<1>7. CASE Unlink(t) \/ Rmtree(t)
  <2>1. task[t].pc \in {"unlink", "rmtree"} /\ grant' = grant /\ cache' = cache
    BY <1>7, StopsShapes DEF Unlink, Rmtree, Doing, outside
  <2>2. ~grant' /\ cache'["mail"] = None
    BY <1>1, <2>1 DEF Revoked, PastRow
  <2> QED BY <2>2 DEF Revoked
<1> QED BY <1>3, <1>4, <1>5, <1>6, <1>7 DEF Delete

LEMMA UnrecordedRelease ==
  ASSUME CustodyAssumption, Shapes, ReleaseInv, NEW t \in Tasks, Unrecorded(t)
  PROVE  ReleaseInv'
<1> SUFFICES ASSUME scars' = {} PROVE Revoked'
  BY DEF ReleaseInv, Revoked
<1>1. /\ scars \subseteq scars' /\ task[t].pc \in {"settle", "forget"} /\ task'[t].pc = "idle"
      /\ \A s \in Tasks \ {t} : task'[s] = task[s]
      /\ grant' = grant /\ row' = row /\ file' = file /\ cache' = cache
  BY StopsShapes, StopBecomes, IdleWorks DEF Others, Unrecorded, disk, outside
<1>2. Revoked
  BY <1>1, ScarlessIs DEF ReleaseInv, Revoked
<1>3. \A s \in Tasks :
        /\ task'[s].pc \in PastRow \union {"row"} => task[s].pc \in PastRow \union {"row"}
        /\ row = None /\ task[s].pc = "register" => task'[s].pc = "register"
  BY <1>1 DEF PastRow
<1> QED BY <1>1, <1>2, <1>3, QuietRelease

LEMMA WorldRelease ==
  ASSUME CustodyAssumption, Shapes, Marked, ReleaseInv,
         ClearDoc \/ \E p \in Processes : Read(p) \/ Expire(p) \/ Crash(p)
  PROVE  ReleaseInv'
<1> SUFFICES ASSUME scars' = {} PROVE Revoked'
  BY DEF ReleaseInv, Revoked
<1>1. grant' = grant /\ row' = row /\ scars \subseteq scars' /\ file'["token"] = file["token"]
  BY ShapesAre DEF ClearDoc, Read, Expire, Crash, disk, outside, history, Rest, Names
<1>2. Revoked
  BY <1>1, ScarlessIs DEF ReleaseInv, Revoked
<1>3. "mail" \in Processes /\ cache \in [Processes -> Cells \union {None}]
  BY ShapesAre DEF Processes, Rest
<1>4. ASSUME NEW s \in Tasks
      PROVE  /\ task'[s].pc \in PastRow \union {"row"} => task[s].pc \in PastRow \union {"row"}
             /\ row = None /\ task[s].pc = "register" => task'[s].pc = "register"
  <2>1. task'[s].pc = task[s].pc \/ (task'[s].pc = "idle" /\ Left(s) \subseteq scars')
    BY ClearStep, ReadStep, ExpireStep, CrashStep, IdleWorks DEF Same
  <2>2. row = None /\ task[s].pc = "register" => "stranded" \in Left(s)
    <3>1. row = None /\ task[s].pc = "register" => task[s].op = "signIn" /\ task[s].handle # row
      BY ShapesAre, Distinct DEF AtWork, Working
    <3> QED BY <3>1 DEF Left
  <2> QED BY <2>1, <2>2 DEF PastRow
<1>5. CASE \E p \in Processes : Read(p)
  <2>1. PICK p \in Processes : Read(p)
    BY <1>5
  <2>2. \A s \in Tasks : task[s].op # "delete"
    BY <2>1 DEF Read, Overlap, InFlight
  <2>3. \A s \in Tasks : task[s].pc \notin PastRow \union {"row"}
    BY <2>2, ShapesAre DEF AtWork
  <2>4. \A s \in Tasks : task'[s].pc = task[s].pc
    BY <2>1, ReadStep DEF Same
  <2> QED BY <1>1, <1>2, <2>3, <2>4 DEF Revoked
<1>6. CASE ClearDoc \/ \E p \in Processes : Expire(p) \/ Crash(p)
  <2>1. cache'["mail"] = None \/ cache["mail"] # None
    BY <1>3, <1>6, ExpireStep, CrashStep DEF ClearDoc
  <2>2. \A s \in Tasks : task'[s].pc \in PastRow \union {"row"} => cache'["mail"] = None
    BY <1>2, <1>4, <2>1 DEF Revoked
  <2> QED BY <1>1, <1>2, <1>4, <2>2 DEF Revoked
<1> QED BY <1>5, <1>6

LEMMA ReleaseStepInv ==
  ASSUME CustodyAssumption, Shapes, Marked, LockInv, FileInv, ReleaseInv, Next
  PROVE  ReleaseInv'
<1>1. ASSUME NEW t \in Tasks, Arrive(t) \/ Write(t) \/ Delete(t) \/ Rotate(t) \/ Unrecorded(t)
      PROVE  ReleaseInv'
  BY <1>1, ArriveRelease, WriterRelease, DeleteRelease, UnrecordedRelease
<1> QED BY <1>1, WorldRelease DEF Next

-----------------------------------------------------------------------------
(* The theorems.                                                           *)

LEMMA FrameStep ==
  ASSUME CustodyAssumption, Shapes, HandlesDrawn, Marked, Next
  PROVE  Shapes' /\ HandlesDrawn' /\ Marked'
<1>1. ASSUME NEW t \in Tasks, Arrive(t)
      PROVE  Shapes' /\ HandlesDrawn' /\ Marked'
  BY <1>1, ArriveMarked
<1>2. ASSUME NEW t \in Tasks, Write(t) \/ Delete(t) \/ Rotate(t) \/ Unrecorded(t)
      PROVE  Shapes' /\ HandlesDrawn' /\ Marked'
  <2>1. Shapes' /\ Frame
    BY <1>2, WriteFrame, DeleteFrame, RotateFrame
  <2> QED BY <2>1, FrameKeeps
<1>3. ASSUME ClearDoc \/ \E p \in Processes : Read(p) \/ Expire(p) \/ Crash(p)
      PROVE  Shapes' /\ HandlesDrawn' /\ Marked'
  <2>1. Shapes' /\ Frame
    BY <1>3, WorldFrame
  <2> QED BY <2>1, FrameKeeps
<1> QED BY <1>1, <1>2, <1>3 DEF Next

LEMMA KeyStep ==
  ASSUME CustodyAssumption, Shapes, KeysMinted, Marked, Next
  PROVE  KeysMinted'
<1>1. ASSUME NEW t \in Tasks,
             Arrive(t) \/ Write(t) \/ Delete(t) \/ Rotate(t) \/ Unrecorded(t)
      PROVE  KeysMinted'
  BY <1>1, QuietKeys, KeyFrameKeeps, MintKeys, StoreKeys, LoadKeys, RestoreKeys, UnlinkKeys,
     RmtreeKeys DEF Write, Delete, Rotate
<1>2. ASSUME ClearDoc \/ \E p \in Processes : Read(p) \/ Expire(p) \/ Crash(p)
      PROVE  KeysMinted'
  BY <1>2, WorldKeys, KeyFrameKeeps
<1> QED BY <1>1, <1>2 DEF Next

LEMMA StepIInv ==
  ASSUME CustodyAssumption, IInv, [Next]_vars
  PROVE  IInv'
<1>1. CASE Next
  <2>1. Shapes' /\ HandlesDrawn' /\ Marked'
    BY <1>1, FrameStep DEF IInv
  <2>2. KeysMinted'
    BY <1>1, KeyStep DEF IInv
  <2>3. LockInv'
    BY <1>1, LockStep DEF IInv
  <2>4. FileInv' /\ ReleaseInv'
    BY <1>1, FileStep, ReleaseStepInv DEF IInv
  <2> QED BY <2>1, <2>2, <2>3, <2>4 DEF IInv
<1>2. CASE UNCHANGED vars
  <2>1. /\ row' = row /\ record' = record /\ file' = file /\ cache' = cache
        /\ wrapped' = wrapped /\ grant' = grant /\ task' = task /\ drawn' = drawn
        /\ minted' = minted /\ shredded' = shredded /\ scars' = scars
        /\ started' = started /\ faults' = faults /\ crashes' = crashes
    BY <1>2 DEF vars, disk, outside, history, bounds
  <2>2. Shapes'
    <3>1. Rest'
      BY <2>1, ShapesAre DEF IInv, Rest
    <3> QED BY <2>1, <3>1, ShapesAre DEF IInv
  <2>3. HandlesDrawn' /\ KeysMinted' /\ Marked'
    BY <2>1 DEF IInv, HandlesDrawn, KeysMinted, Marked, OnlyRotationRestores
  <2>4. LockInv'
    BY <2>1 DEF IInv, LockInv, Calm, Ours, Alone, AccountHas
  <2>5. FileInv' /\ ReleaseInv'
    BY <2>1 DEF IInv, FileInv, Sound, Calm, ReleaseInv
  <2> QED BY <2>2, <2>3, <2>4, <2>5 DEF IInv
<1> QED BY <1>1, <1>2

LEMMA Invariance == Spec => []IInv
<1>1. Init => IInv
  BY InitIInv, CustodyAssumption
<1>2. IInv /\ [Next]_vars => IInv'
  BY StepIInv, CustodyAssumption
<1> QED BY <1>1, <1>2, PTL DEF Spec

\* Every thread carries what its place in the operation needs, and the
\* account's parts are what the code stores there.
THEOREM TypeCorrect == Spec => []TypeOK
<1>1. IInv => TypeOK
  BY DEF IInv, Shapes
<1> QED BY <1>1, Invariance, PTL

\* A sign-in can always repair or continue an account, unless one of the
\* named overlaps or interruptions happened to it (provisioning.py provision,
\* keyring.py create, account.py delete_account).
THEOREM NobodyIsLockedOut == Spec => []NeverLockedOut
<1>1. IInv => NeverLockedOut
  <2> SUFFICES ASSUME IInv, Calm
               PROVE  /\ row # None =>
                           IF record # None THEN record.handle = row
                           ELSE row \in wrapped =>
                                  \E t \in Tasks : Doing(t, "store") /\ task[t].handle = row
                      /\ row = None /\ Quiet => record = None
    BY DEF NeverLockedOut, Calm
  <2>1. AccountHas
    BY DEF IInv, LockInv
  <2> QED BY <2>1 DEF AccountHas, Doing, Quiet
<1> QED BY <1>1, Invariance, PTL

\* What was stored can be read back, and only a rotation that read the record
\* before a deletion can bring a destroyed key back (keyring.py destroy,
\* rewrap, write_encrypted).
THEOREM StoredFilesHold == Spec => []FilesHold
<1>1. IInv => OnlyRotationRestores
  BY DEF IInv, KeysMinted
<1>2. IInv => FilesOpen
  <2> SUFFICES ASSUME IInv, Sound, row # None, NEW n \in Names, file[n] # None
               PROVE  Opens(row) /\ file[n] = [handle |-> row, key |-> record.key]
    BY DEF FilesOpen, Sound, Calm, Raced
  <2>1. Locked /\ Matching /\ Rest
    BY MatchingIs, ShapesAre DEF IInv, LockInv, Locked, Sound
  <2>2. file[n] = record /\ record # None
    BY <2>1 DEF Matching, Locked, Ours, PastRow
  <2>3. record.handle = row /\ record \in Record
    BY <2>1, <2>2 DEF Locked, AccountHas, Rest
  <2>4. record = [handle |-> row, key |-> record.key]
    BY <2>3 DEF Record
  <2> QED BY <2>2, <2>3, <2>4 DEF Opens
<1> QED BY <1>1, <1>2, Invariance, PTL DEF FilesHold

\* Only rmtree itself ends a deletion there without a scar.
LEMMA DeletionEnds ==
  ASSUME CustodyAssumption, Shapes, NEW t \in Tasks, task[t].pc = "rmtree", task'[t] = Idle,
         scars' = {}, [Next]_vars
  PROVE  Rmtree(t)
<1>0. task'[t].pc = "idle" /\ task[t].op = "delete"
  BY IdleWorks, ShapesAre DEF AtWork, PastRow
<1>1. ASSUME NEW u \in Tasks, Arrive(u)
      PROVE  FALSE
  <2>1. u # t /\ task'[t] = task[t]
    BY <1>0, <1>1, ArriveBegins, IdleWorks DEF Begun, Others
  <2> QED BY <1>0, <2>1
<1>2. ASSUME NEW u \in Tasks, Write(u) \/ Delete(u) \/ Rotate(u) \/ Unrecorded(u), u # t
      PROVE  task'[t].pc = task[t].pc
  BY <1>2, TakeStep, GuardStep, RefuseStep, MintStep, StopsShapes, StopBecomes, StoreStep,
     OpenStep, SaveStep, RegisterStep, SettleStep, ReleaseStep, UnreleasedStep, DropRowStep,
     ForgetStep, UnlinkStep, LoadStep
     DEF Write, Delete, Rotate, Others, Letting, Same
<1>3. Write(t) \/ Delete(t) \/ Rotate(t) \/ Unrecorded(t) => Rmtree(t)
  BY DEF Write, Delete, Rotate, Take, Guard, RefuseDeleted, Mint, MintRefused, WrapLost,
     StoreKey, Open, OpenFails, Save, Register, RegisterRefused, Settle, Release, Unreleased,
     DropRow, ForgetKey, Unlink, Load, LoadFails, Restore, Unrecorded, Doing
<1>4. ASSUME NEW p \in Processes, Crash(p)
      PROVE  FALSE
  <2>1. "halfDeleted" \in Left(t)
    BY DEF Left
  <2> QED BY <1>0, <1>4, <2>1, CrashStep
<1>5. CASE ClearDoc \/ \E p \in Processes : Read(p) \/ Expire(p)
  BY <1>0, <1>5, ClearStep, ReadStep, ExpireStep DEF Same
<1>6. CASE UNCHANGED vars
  BY <1>0, <1>6 DEF vars
<1> QED BY <1>0, <1>1, <1>2, <1>3, <1>4, <1>5, <1>6 DEF Next

\* A deletion that nothing overlapped or cut short leaves nothing behind
\* (handoff_server.py _account_forget, account.py delete_account).
THEOREM DeletionsErase == Spec => DeletionErases
<1>1. IInv /\ [Next]_vars => [DeletionLeavesNothing]_vars
  <2> SUFFICES ASSUME IInv, [Next]_vars, NEW t \in Tasks,
                      Doing(t, "rmtree"), task'[t] = Idle, scars' = {}
               PROVE  /\ row' = None /\ record' = None /\ ~grant'
                      /\ \A n \in Names : file'[n] = None
                      /\ \A p \in Processes : cache'[p] = None
    BY DEF DeletionLeavesNothing
  <2>1. Rmtree(t) /\ task[t].pc = "rmtree"
    BY DeletionEnds, CustodyAssumption DEF IInv, Doing
  <2>2. scars = {}
    BY <2>1 DEF Rmtree, history
  <2>3. Sound /\ Calm
    BY <2>2, CalmIs DEF Sound
  <2>4. Revoked /\ Locked /\ Matching
    BY <2>2, <2>3, MatchingIs DEF IInv, ReleaseInv, Revoked, LockInv, Locked
  <2>5. row = None /\ ~grant /\ cache["mail"] = None /\ cache["web"] = None
    BY <2>1, <2>4 DEF Revoked, Locked, Ours, Matching, PastRow
  <2>6. /\ record' = None /\ row' = row /\ grant' = grant /\ cache' = cache
        /\ \A n \in Names : file'[n] = None
    BY <2>1 DEF Rmtree, outside
  <2> QED BY <2>5, <2>6 DEF Processes
<1> QED BY <1>1, Invariance, PTL DEF Spec, DeletionErases
=============================================================================

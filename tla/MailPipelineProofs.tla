------------------------- MODULE MailPipelineProofs -------------------------
(***************************************************************************)
(* What MailPipeline promises of a mailbox, for any accounts, renewers,    *)
(* request threads, messages and bounds.                                   *)
(*                                                                         *)
(* No cursor is ever written that somebody did not vouch for: the one a    *)
(* pass began from, the one it will store and the one a renewal carries    *)
(* past a truncated file all have nothing before them that is not behind   *)
(* the daemon or still in the pass's hands (SkipInv).  A message handled   *)
(* beyond the cursor on disk, or beyond the one last stored, is paid for   *)
(* by an interruption, or the pass is still at it (RepeatInv).             *)
(***************************************************************************)
EXTENDS MailPipeline, TLAPS

Fetching == [acct : Accounts, at : {"fetch"}, last : Cursor]
Working  == [acct : Accounts, at : {"handle", "truncate", "write"}, last : Cursor,
             todo : SUBSET Messages, to : Cursor]
Checking == [acct : Accounts, at : {"check"}, hist : Cursor]
Loading  == [acct : Accounts, at : {"load"}, hist : Cursor, first : BOOLEAN]
Storing  == [acct : Accounts, at : {"truncate", "write"}, first : BOOLEAN, cursor : Cursor]

Shapes ==
  /\ mailbox \in [Accounts -> Cursor] /\ oldest \in [Accounts -> Cursor]
  /\ pushes \subseteq Accounts /\ spool \subseteq Accounts
  /\ hook \in [Hooks -> Accounts \union {NoAccount}]
  /\ fifo \in BOOLEAN /\ woken \in BOOLEAN
  /\ file \in [Accounts -> Cursor \union {Unset, Torn}]
  /\ active \subseteq Accounts /\ batch \subseteq Accounts /\ missed \subseteq Accounts
  /\ at \in {"down", "startup", "waiting", "woke", "routed", "sweep"}
  /\ pass \in {Idle} \union Fetching \union Working
  /\ renew \in [Renewers -> {Idle} \union Checking \union Loading \union Storing]
  /\ handled \in [Accounts -> [Messages -> Nat]]
  /\ lost \subseteq (Accounts \X Messages \X Whys)
  /\ base \in [Accounts -> Cursor \union {Unset}]
  /\ stored \in [Accounts -> Cursor] /\ replays \in [Accounts -> Nat]

\* Message i of an account was drafted for, or lost for a reason.
Seen(h, l, a, i) == h[a][i] > 0 \/ \E w \in Whys : <<a, i, w>> \in l

\* A cursor of a registered account, with nothing before it that was passed over
\* and is not still to do.
Clear(h, l, b, a, c, todo) ==
  b[a] # Unset /\ \A i \in Messages \ todo : b[a] < i /\ i <= c => Seen(h, l, a, i)

SkipInv ==
  /\ \A a \in Accounts : file[a] \in Cursor => Clear(handled, lost, base, a, file[a], {})
  /\ pass \in Fetching => Clear(handled, lost, base, pass.acct, pass.last, {})
  /\ pass \in Working =>
       /\ Clear(handled, lost, base, pass.acct, pass.to, pass.todo)
       /\ pass.at # "handle" => pass.todo = {}
  /\ \A r \in Renewers :
       /\ renew[r] \in Loading /\ ~renew[r].first => file[renew[r].acct] # Unset
       /\ renew[r] \in Storing /\ ~renew[r].first =>
            Clear(handled, lost, base, renew[r].acct, renew[r].cursor, {})

\* The messages a pass has already dealt with.
Done(p, a, i) ==
  p \in Working /\ p.acct = a /\ p.last < i /\ i <= p.to /\ i \notin p.todo

\* Beyond a cursor a pass may begin from.
Ahead(s, f, a, i) == i > s[a] \/ (f[a] \in Cursor /\ i > f[a])

CursorsInv ==
  /\ \A a \in Accounts : stored[a] <= mailbox[a]
  /\ pass \in Working =>
       /\ stored[pass.acct] <= pass.to /\ pass.to <= mailbox[pass.acct]
       /\ \A i \in pass.todo : pass.last < i /\ i <= pass.to

RepeatInv ==
  /\ \A a \in Accounts, i \in Messages :
       /\ handled[a][i] <= 1 + replays[a]
       /\ Ahead(stored, file, a, i) /\ ~Done(pass, a, i) => handled[a][i] <= replays[a]
  /\ pass \in Fetching =>
       \A i \in Messages : i > pass.last => handled[pass.acct][i] <= replays[pass.acct]
  /\ pass \in Working =>
       \A i \in pass.todo : handled[pass.acct][i] <= replays[pass.acct]

IInv == Shapes /\ SkipInv /\ CursorsInv /\ RepeatInv

-----------------------------------------------------------------------------
\* Where a pass and a renewal are.

LEMMA PassKinds ==
  /\ Idle \notin Fetching \union Working /\ Fetching \intersect Working = {}
  /\ \A p \in Fetching : p.at = "fetch"
  /\ \A p \in Working : p.at # "fetch"
<1>1. /\ DOMAIN Idle = {"acct"}
      /\ \A p \in Fetching : DOMAIN p = {"acct", "at", "last"}
      /\ \A p \in Working : DOMAIN p = {"acct", "at", "last", "todo", "to"}
  BY DEF Idle, Fetching, Working
<1>2. "at" \notin {"acct"} /\ "to" \notin {"acct", "at", "last"}
  OBVIOUS
<1>3. Idle \notin Fetching \union Working /\ Fetching \intersect Working = {}
  BY <1>1, <1>2
<1> QED BY <1>3 DEF Fetching, Working

LEMMA RenewKinds ==
  /\ Idle \notin Checking \union Loading \union Storing
  /\ \A x \in Checking : x.at = "check"
  /\ \A x \in Loading : x.at = "load"
  /\ \A x \in Storing : x.at \in {"truncate", "write"}
<1>1. /\ DOMAIN Idle = {"acct"}
      /\ \A x \in Checking : DOMAIN x = {"acct", "at", "hist"}
      /\ \A x \in Loading : DOMAIN x = {"acct", "at", "hist", "first"}
      /\ \A x \in Storing : DOMAIN x = {"acct", "at", "first", "cursor"}
  BY DEF Idle, Checking, Loading, Storing
<1>2. "at" \notin {"acct"}
  OBVIOUS
<1>3. Idle \notin Checking \union Loading \union Storing
  BY <1>1, <1>2
<1> QED BY <1>3 DEF Checking, Loading, Storing

LEMMA PassAt ==
  ASSUME IInv
  PROVE  /\ InPass("fetch") => pass \in Fetching
         /\ \A step \in {"handle", "truncate", "write"} :
              InPass(step) => pass \in Working /\ pass.at = step
BY PassKinds DEF IInv, Shapes, InPass

LEMMA RenewAt ==
  ASSUME IInv, NEW r \in Renewers
  PROVE  /\ RenewStep(r, "check") => renew[r] \in Checking
         /\ RenewStep(r, "load") => renew[r] \in Loading
         /\ \A step \in {"truncate", "write"} :
              RenewStep(r, step) => renew[r] \in Storing /\ renew[r].at = step
BY RenewKinds DEF IInv, Shapes, RenewStep

\* Nothing that was clear is unclear after more was handled or lost.
LEMMA ClearStays ==
  ASSUME NEW h, NEW l, NEW b, NEW h2, NEW l2, NEW b2, NEW a, NEW c, NEW todo,
         Clear(h, l, b, a, c, todo), l \subseteq l2, b2[a] = b[a],
         \A i \in Messages : h[a][i] > 0 => h2[a][i] > 0
  PROVE  Clear(h2, l2, b2, a, c, todo)
BY DEF Clear, Seen

LEMMA InvGivesTypeOK == ASSUME IInv PROVE TypeOK
<1>1. pass.acct \in Accounts \union {NoAccount}
  BY DEF IInv, Shapes, Idle, Fetching, Working
<1>2. pass = Idle \/ pass.at \in {"fetch", "handle", "truncate", "write"}
  BY DEF IInv, Shapes, Fetching, Working
<1>3. \A r \in Renewers : renew[r] = Idle \/ renew[r].at \in {"check", "load", "truncate", "write"}
  BY DEF IInv, Shapes, Checking, Loading, Storing
<1> QED BY <1>1, <1>2, <1>3 DEF IInv, Shapes, TypeOK

LEMMA InitIInv ==
  ASSUME BoundsAssumption, ValuesAssumption
  PROVE  Init => IInv
<1> SUFFICES ASSUME Init PROVE IInv
  OBVIOUS
<1>1. 0 \in Cursor /\ Unset \notin Cursor /\ MaxMail \in Nat
  BY DEF BoundsAssumption, ValuesAssumption, Cursor
<1>2. Shapes
  BY <1>1 DEF Init, Shapes
<1>3. pass = Idle /\ \A r \in Renewers : renew[r] = Idle
  BY DEF Init
<1>4. \A a \in Accounts : file[a] \in Cursor => Clear(handled, lost, base, a, file[a], {})
  BY <1>1 DEF Init, Clear, Messages
<1>5. SkipInv
  BY <1>3, <1>4, PassKinds, RenewKinds DEF SkipInv
<1>6. CursorsInv /\ RepeatInv
  BY <1>1, <1>3, PassKinds DEF Init, CursorsInv, RepeatInv
<1> QED BY <1>2, <1>5, <1>6 DEF IInv

-----------------------------------------------------------------------------
\* The steps that touch no cursor, no message and nobody's progress.

cursors == <<mailbox, file, base, stored, handled, lost, replays, pass, renew>>

LEMMA CursorsApart ==
  ASSUME IInv, UNCHANGED cursors
  PROVE  SkipInv' /\ CursorsInv' /\ RepeatInv'
BY DEF IInv, SkipInv, CursorsInv, RepeatInv, cursors

LEMMA OutsideKeeps ==
  ASSUME BoundsAssumption, IInv,
         \/ \E a \in Accounts : Forget(a) \/ FlipPlan(a)
         \/ \E h \in Hooks : Spool(h) \/ Poke(h)
         \/ Start \/ Wake \/ Route \/ Finish
  PROVE  IInv'
<1> USE DEF gmail, shared, history, daemon
<1>1. UNCHANGED cursors
  BY DEF Forget, FlipPlan, Spool, Poke, Start, Wake, Route, Finish, cursors
<1>2. SkipInv' /\ CursorsInv' /\ RepeatInv'
  BY <1>1, CursorsApart
<1>3. Shapes'
  <2>1. ASSUME NEW a \in Accounts, Forget(a) \/ FlipPlan(a) PROVE Shapes'
    BY <2>1 DEF Forget, FlipPlan, IInv, Shapes
  <2>2. ASSUME NEW h \in Hooks, Spool(h) \/ Poke(h) PROVE Shapes'
    BY <2>2 DEF Spool, Poke, IInv, Shapes
  <2>3. CASE Start \/ Wake
    BY <2>3 DEF Start, Wake, IInv, Shapes
  <2>4. CASE Route \/ Finish
    BY <2>4 DEF Route, Finish, IInv, Shapes
  <2> QED BY <2>1, <2>2, <2>3, <2>4
<1> QED BY <1>2, <1>3 DEF IInv

LEMMA NewMailKeeps ==
  ASSUME BoundsAssumption, IInv, NEW a \in Accounts, NewMail(a)
  PROVE  IInv'
<1>1. mailbox' \in [Accounts -> Cursor] /\ \A b \in Accounts : mailbox[b] <= mailbox'[b]
  BY DEF NewMail, IInv, Shapes, Cursor, BoundsAssumption
<1>2. Shapes'
  BY <1>1 DEF NewMail, IInv, Shapes, shared, daemon, history
<1>3. SkipInv' /\ RepeatInv'
  BY DEF NewMail, IInv, SkipInv, RepeatInv, shared, daemon, history
<1>4. CursorsInv'
  <2>1. \A b \in Accounts : mailbox[b] \in Nat /\ mailbox'[b] \in Nat /\ stored[b] \in Nat
    BY <1>1 DEF IInv, Shapes, Cursor
  <2>2. pass \in Working => pass.acct \in Accounts /\ pass.to \in Nat
    BY DEF Working, Cursor
  <2>3. UNCHANGED <<stored, pass>>
    BY DEF NewMail, daemon, history
  <2> QED BY <1>1, <2>1, <2>2, <2>3 DEF IInv, CursorsInv
<1> QED BY <1>2, <1>3, <1>4 DEF IInv

-----------------------------------------------------------------------------
\* The daemon stops, and one account's pass.

LEMMA StopKeeps ==
  ASSUME BoundsAssumption, IInv, Exit \/ Crash
  PROVE  IInv'
<1>1. /\ pass' = Idle /\ renew' = [r \in Renewers |-> Idle]
      /\ replays' = IF pass # Idle THEN [replays EXCEPT ![pass.acct] = @ + 1] ELSE replays
      /\ UNCHANGED <<mailbox, file, base, stored, handled, lost>>
  BY DEF Exit, Crash, Stopped, gmail
<1>2. Shapes'
  <2>1. replays' \in [Accounts -> Nat]
    <3>1. replays \in [Accounts -> Nat]
      BY DEF IInv, Shapes
    <3>2. pass # Idle => pass.acct \in Accounts
      BY DEF IInv, Shapes, Fetching, Working
    <3> QED BY <1>1, <3>1, <3>2
  <2> QED BY <1>1, <2>1 DEF Exit, Crash, Stopped, gmail, IInv, Shapes
<1>3. SkipInv'
  <2>1. \A r \in Renewers : renew'[r] = Idle
    BY <1>1
  <2> QED BY <1>1, <2>1, PassKinds, RenewKinds DEF IInv, SkipInv
<1>4. CursorsInv'
  BY <1>1, PassKinds DEF IInv, CursorsInv
<1>5. RepeatInv'
  <2>1. \A a \in Accounts : replays[a] \in Nat /\ replays'[a] \in Nat /\ replays[a] <= replays'[a]
    BY <1>1 DEF IInv, Shapes
  <2>2. \A a \in Accounts, i \in Messages : handled[a][i] \in Nat
    BY DEF IInv, Shapes
  <2>3. \A a \in Accounts, i \in Messages : Done(pass, a, i) => replays'[a] = 1 + replays[a]
    <3>1. pass \in Working => replays' = [replays EXCEPT ![pass.acct] = @ + 1]
      BY <1>1, PassKinds
    <3>2. replays \in [Accounts -> Nat]
      BY DEF IInv, Shapes
    <3> QED BY <3>1, <3>2 DEF Done
  <2>4. \A a \in Accounts, i \in Messages :
          /\ handled[a][i] <= 1 + replays'[a]
          /\ Ahead(stored, file, a, i) => handled[a][i] <= replays'[a]
    BY <2>1, <2>2, <2>3 DEF IInv, RepeatInv
  <2> QED BY <1>1, <2>4, PassKinds DEF RepeatInv
<1> QED BY <1>2, <1>3, <1>4, <1>5 DEF IInv

\* What the pass leaves alone while it only moves.
LEMMA BeginKeeps ==
  ASSUME BoundsAssumption, ValuesAssumption, IInv, Begin
  PROVE  IInv'
<1> USE DEF gmail, shared
<1>1. /\ pass = Idle /\ UNCHANGED <<mailbox, file, base, stored, handled, lost, replays, renew>>
      /\ missed' \subseteq Accounts /\ batch' \subseteq Accounts
  BY DEF Begin, IInv, Shapes
<1>2. \/ pass' = Idle
      \/ \E a \in Accounts : /\ file[a] \in Cursor
                             /\ pass' = [acct |-> a, at |-> "fetch", last |-> file[a]]
  BY DEF Begin, IInv, Shapes
<1>3. CASE pass' = Idle
  BY <1>1, <1>3, CursorsApart DEF Begin, IInv, Shapes, cursors
<1>4. ASSUME NEW a \in Accounts, file[a] \in Cursor,
             pass' = [acct |-> a, at |-> "fetch", last |-> file[a]]
      PROVE  IInv'
  <2>1. pass' \in Fetching /\ pass' \notin Working /\ pass \notin Working
        /\ pass'.acct = a /\ pass'.last = file[a]
    BY <1>1, <1>4, PassKinds DEF Fetching
  <2>2. Shapes'
    BY <1>1, <2>1 DEF Begin, IInv, Shapes
  <2>3. SkipInv'
    BY <1>1, <1>4, <2>1 DEF IInv, SkipInv
  <2>4. CursorsInv'
    BY <1>1, <2>1 DEF IInv, CursorsInv
  <2>5. RepeatInv'
    BY <1>1, <1>4, <2>1 DEF IInv, RepeatInv, Done, Ahead
  <2> QED BY <2>2, <2>3, <2>4, <2>5 DEF IInv
<1> QED BY <1>2, <1>3, <1>4

LEMMA FetchFailsKeeps ==
  ASSUME BoundsAssumption, IInv, FetchFails
  PROVE  IInv'
<1> USE DEF gmail, shared
<1>1. /\ pass \in Fetching /\ pass \notin Working /\ pass' = Idle /\ missed' = missed \union {me}
      /\ UNCHANGED <<mailbox, file, base, stored, handled, lost, replays, renew>>
  BY PassAt, PassKinds DEF FetchFails, GiveUp
<1>2. Shapes'
  BY <1>1 DEF FetchFails, IInv, Shapes, Fetching, me
<1>3. SkipInv' /\ CursorsInv'
  BY <1>1, PassKinds DEF IInv, SkipInv, CursorsInv
<1>4. RepeatInv'
  BY <1>1, PassKinds DEF IInv, RepeatInv, Done
<1> QED BY <1>2, <1>3, <1>4 DEF IInv

\* What a fetch found: everything up to the mailbox's id is to do, or was lost
\* just now, or was before the cursor the pass began from.
LEMMA Fetched ==
  ASSUME BoundsAssumption, IInv, Fetch
  PROVE  /\ pass \in Fetching
         /\ UNCHANGED <<mailbox, file, base, stored, handled, replays, renew, missed>>
         /\ \E todo \in SUBSET Messages :
              /\ pass' = [acct |-> me, at |-> "handle", last |-> pass.last,
                          todo |-> todo, to |-> mailbox[me]]
              /\ \A i \in todo : pass.last < i /\ i <= mailbox[me]
              /\ lost \subseteq lost' /\ lost' \subseteq Accounts \X Messages \X Whys
              /\ \A i \in Messages \ todo :
                   pass.last < i /\ i <= mailbox[me] => \E w \in Whys : <<me, i, w>> \in lost'
<1> DEFINE added == {i \in Messages : pass.last < i /\ i <= mailbox[me]}
           first == {i \in added : Cardinality({j \in added : j < i}) < MaxEmails}
           Got(todo, gone) ==
             /\ pass' = [acct |-> me, at |-> "handle", last |-> pass.last,
                         todo |-> todo, to |-> mailbox[me]]
             /\ lost' = lost \union gone
<1>1. pass \in Fetching /\ me \in Accounts
      /\ UNCHANGED <<mailbox, file, base, stored, handled, replays, renew, missed>>
  BY PassAt DEF Fetch, Fetching, me, gmail, shared
<1>2. \/ Got({}, Reason(added, "stale"))
      \/ Got(first, Reason(added \ first, "over-limit"))
      \/ \E i \in first : Got(first \ {i}, Reason(added \ first, "over-limit")
                                             \union Reason({i}, "fetch-error"))
  BY DEF Fetch
<1>3. first \subseteq added /\ added \subseteq Messages
  OBVIOUS
<1>4. lost \subseteq Accounts \X Messages \X Whys
  BY DEF IInv, Shapes
<1>5. PICK todo \in SUBSET added, gone \in SUBSET (Accounts \X Messages \X Whys) :
        /\ Got(todo, gone)
        /\ \A i \in added \ todo : \E w \in Whys : <<me, i, w>> \in gone
  <2> HIDE DEF added, first
  <2>1. CASE Got({}, Reason(added, "stale"))
    <3> DEFINE gone == Reason(added, "stale")
    <3>1. /\ gone \subseteq Accounts \X Messages \X Whys
          /\ \A i \in added \ {} : \E w \in Whys : <<me, i, w>> \in gone
      BY <1>1, <1>3 DEF Reason, Whys
    <3> HIDE DEF gone, Got
    <3> QED BY <2>1, <3>1 DEF gone
  <2>2. CASE Got(first, Reason(added \ first, "over-limit"))
    <3> DEFINE gone == Reason(added \ first, "over-limit")
    <3>1. /\ gone \subseteq Accounts \X Messages \X Whys
          /\ \A i \in added \ first : \E w \in Whys : <<me, i, w>> \in gone
      BY <1>1, <1>3 DEF Reason, Whys
    <3> HIDE DEF gone, Got
    <3> QED BY <1>3, <2>2, <3>1 DEF gone
  <2>3. ASSUME NEW i \in first,
               Got(first \ {i}, Reason(added \ first, "over-limit")
                                  \union Reason({i}, "fetch-error"))
        PROVE  \E todo \in SUBSET added, gone \in SUBSET (Accounts \X Messages \X Whys) :
                 /\ Got(todo, gone)
                 /\ \A j \in added \ todo : \E w \in Whys : <<me, j, w>> \in gone
    <3> DEFINE gone == Reason(added \ first, "over-limit") \union Reason({i}, "fetch-error")
    <3>1. Got(first \ {i}, gone) /\ first \ {i} \in SUBSET added
      BY <1>3, <2>3
    <3>2. gone \subseteq Accounts \X Messages \X Whys
      BY <1>1, <1>3 DEF Reason, Whys
    <3>3. \A j \in added \ (first \ {i}) : \E w \in Whys : <<me, j, w>> \in gone
      BY <1>3 DEF Reason, Whys
    <3> HIDE DEF gone, Got
    <3> QED BY <3>1, <3>2, <3>3
  <2> QED BY <1>2, <2>1, <2>2, <2>3
<1>6. todo \in SUBSET Messages /\ \A i \in todo : pass.last < i /\ i <= mailbox[me]
  BY <1>5
<1>7. \A i \in Messages \ todo :
        pass.last < i /\ i <= mailbox[me] => \E w \in Whys : <<me, i, w>> \in lost'
  BY <1>5
<1> QED BY <1>1, <1>4, <1>5, <1>6, <1>7

LEMMA FetchKeeps ==
  ASSUME BoundsAssumption, IInv, Fetch
  PROVE  IInv'
<1>1. /\ pass \in Fetching /\ pass \notin Working /\ me \in Accounts /\ pass.last \in Cursor
      /\ UNCHANGED <<mailbox, file, base, stored, handled, replays, renew, missed>>
  BY Fetched, PassKinds DEF Fetching, me
<1>2. PICK todo \in SUBSET Messages :
        /\ pass' = [acct |-> me, at |-> "handle", last |-> pass.last,
                    todo |-> todo, to |-> mailbox[me]]
        /\ \A i \in todo : pass.last < i /\ i <= mailbox[me]
        /\ lost \subseteq lost' /\ lost' \subseteq Accounts \X Messages \X Whys
        /\ \A i \in Messages \ todo :
             pass.last < i /\ i <= mailbox[me] => \E w \in Whys : <<me, i, w>> \in lost'
  BY Fetched
<1>3. /\ pass' \in Working /\ pass' \notin Fetching /\ pass'.acct = me /\ pass'.at = "handle"
      /\ pass'.last = pass.last /\ pass'.todo = todo /\ pass'.to = mailbox[me]
  BY <1>1, <1>2, PassKinds DEF Working, IInv, Shapes
<1>4. Shapes'
  BY <1>1, <1>2, <1>3 DEF Fetch, IInv, Shapes, gmail, shared
<1>5. \A a, c, t : Clear(handled, lost, base, a, c, t) => Clear(handled', lost', base', a, c, t)
  BY <1>1, <1>2, ClearStays
<1>6. Clear(handled', lost', base', me, mailbox[me], todo)
  <2>1. Clear(handled', lost', base', me, pass.last, {})
    BY <1>1, <1>5 DEF IInv, SkipInv, me
  <2>2. ASSUME NEW i \in Messages \ todo, base'[me] < i, i <= mailbox[me]
        PROVE  Seen(handled', lost', me, i)
    <3>1. i <= pass.last \/ pass.last < i
      BY <1>1 DEF Messages, Cursor
    <3>2. CASE i <= pass.last
      BY <2>1, <2>2, <3>2 DEF Clear
    <3>3. CASE pass.last < i
      BY <1>2, <2>2, <3>3 DEF Seen
    <3> QED BY <3>1, <3>2, <3>3
  <2> QED BY <2>1, <2>2 DEF Clear
<1>7. SkipInv'
  BY <1>1, <1>3, <1>5, <1>6 DEF IInv, SkipInv
<1>8. CursorsInv'
  BY <1>1, <1>2, <1>3 DEF IInv, CursorsInv, Shapes, Cursor
<1>9. RepeatInv'
  <2>1. \A i \in todo : i \in Messages /\ handled[me][i] <= replays[me]
    BY <1>1, <1>2 DEF IInv, RepeatInv, me
  <2>2. \A a \in Accounts, i \in Messages : ~Done(pass, a, i)
    BY <1>1 DEF Done
  <2> QED BY <1>1, <1>3, <2>1, <2>2 DEF IInv, RepeatInv
<1> QED BY <1>4, <1>7, <1>8, <1>9 DEF IInv

\* One message is dealt with: drafted for, or one or all of them given up.
LEMMA Dealt ==
  ASSUME IInv, Handle
  PROVE  /\ pass \in Working /\ pass.at = "handle" /\ me \in Accounts
         /\ UNCHANGED <<mailbox, file, base, stored, replays, renew, missed>>
         /\ \E gone \in SUBSET pass.todo :
              /\ pass' = [pass EXCEPT !.todo = pass.todo \ gone]
              /\ \/ /\ lost' = lost
                    /\ \E i \in gone : /\ gone = {i}
                                       /\ handled' = [handled EXCEPT ![me][i] = @ + 1]
                 \/ handled' = handled /\ lost' = lost \union Reason(gone, "draft-error")
<1>1. pass \in Working /\ pass.at = "handle" /\ me \in Accounts
      /\ UNCHANGED <<mailbox, file, base, stored, replays, renew, missed>>
  BY PassAt DEF Handle, Working, me, gmail, shared
<1>2. PICK i \in pass.todo :
        \/ /\ pass' = [pass EXCEPT !.todo = @ \ {i}]
           /\ handled' = [handled EXCEPT ![me][i] = @ + 1] /\ lost' = lost
        \/ /\ handled' = handled
           /\ \E gone \in {{i}, pass.todo} :
                /\ pass' = [pass EXCEPT !.todo = @ \ gone]
                /\ lost' = lost \union Reason(gone, "draft-error")
  BY DEF Handle
<1>3. CASE /\ pass' = [pass EXCEPT !.todo = @ \ {i}]
           /\ handled' = [handled EXCEPT ![me][i] = @ + 1] /\ lost' = lost
  <2>1. {i} \in SUBSET pass.todo /\ pass' = [pass EXCEPT !.todo = pass.todo \ {i}]
    BY <1>3
  <2> QED BY <1>1, <1>3, <2>1
<1>4. ASSUME handled' = handled, NEW gone \in {{i}, pass.todo},
             pass' = [pass EXCEPT !.todo = @ \ gone],
             lost' = lost \union Reason(gone, "draft-error")
      PROVE  \E g \in SUBSET pass.todo :
               /\ pass' = [pass EXCEPT !.todo = pass.todo \ g]
               /\ handled' = handled /\ lost' = lost \union Reason(g, "draft-error")
  <2>1. gone \in SUBSET pass.todo /\ pass' = [pass EXCEPT !.todo = pass.todo \ gone]
    BY <1>4
  <2> QED BY <1>4, <2>1
<1> QED BY <1>1, <1>2, <1>3, <1>4

LEMMA HandleKeeps ==
  ASSUME BoundsAssumption, IInv, Handle
  PROVE  IInv'
<1>1. /\ pass \in Working /\ pass.at = "handle" /\ me \in Accounts /\ pass.todo \subseteq Messages
      /\ pass \notin Fetching
      /\ UNCHANGED <<mailbox, file, base, stored, replays, renew, missed>>
  BY Dealt, PassKinds DEF Working
<1>2. PICK gone \in SUBSET pass.todo :
        /\ pass' = [pass EXCEPT !.todo = pass.todo \ gone]
        /\ \/ /\ lost' = lost
              /\ \E i \in gone : gone = {i} /\ handled' = [handled EXCEPT ![me][i] = @ + 1]
           \/ handled' = handled /\ lost' = lost \union Reason(gone, "draft-error")
  BY Dealt
<1>3. /\ pass' \in Working /\ pass' \notin Fetching /\ pass'.acct = me /\ pass'.at = "handle"
      /\ pass'.last = pass.last /\ pass'.to = pass.to /\ pass'.todo = pass.todo \ gone
  BY <1>1, <1>2, PassKinds DEF Working, me
<1>4. handled \in [Accounts -> [Messages -> Nat]] /\ replays \in [Accounts -> Nat]
      /\ lost \subseteq Accounts \X Messages \X Whys
  BY DEF IInv, Shapes
<1>5. /\ handled' \in [Accounts -> [Messages -> Nat]]
      /\ \A a \in Accounts, i \in Messages :
           /\ handled[a][i] <= handled'[a][i]
           /\ handled'[a][i] # handled[a][i] =>
                a = me /\ i \in gone /\ handled'[a][i] = handled[a][i] + 1
           /\ a = me /\ i \in gone => Seen(handled', lost', a, i)
      /\ lost \subseteq lost' /\ lost' \subseteq Accounts \X Messages \X Whys
  <2>1. ASSUME lost' = lost, NEW i \in gone, gone = {i},
               handled' = [handled EXCEPT ![me][i] = @ + 1]
        PROVE  <1>5!1 /\ <1>5!2 /\ <1>5!3
    <3>1. i \in Messages /\ handled[me] \in [Messages -> Nat]
      BY <1>1, <1>4
    <3>2. handled' \in [Accounts -> [Messages -> Nat]]
      BY <1>1, <1>4, <2>1, <3>1
    <3>3. \A a \in Accounts, j \in Messages :
            handled'[a][j] = IF a = me /\ j = i THEN handled[a][j] + 1 ELSE handled[a][j]
      BY <1>1, <1>4, <2>1, <3>1
    <3>4. \A a \in Accounts, j \in Messages : handled[a][j] \in Nat
      BY <1>4
    <3>5. handled'[me][i] > 0
      BY <1>1, <3>1, <3>3, <3>4
    <3> QED BY <1>4, <2>1, <3>2, <3>3, <3>4, <3>5 DEF Seen
  <2>2. CASE handled' = handled /\ lost' = lost \union Reason(gone, "draft-error")
    <3>1. Reason(gone, "draft-error") \subseteq Accounts \X Messages \X Whys
      BY <1>1, <1>2 DEF Reason, Whys
    <3>2. \A i \in gone : <<me, i, "draft-error">> \in lost'
      BY <2>2 DEF Reason
    <3>3. \A a \in Accounts, j \in Messages : handled[a][j] \in Nat
      BY <1>4
    <3> QED BY <1>4, <2>2, <3>1, <3>2, <3>3 DEF Seen, Whys
  <2> QED BY <1>2, <2>1, <2>2
<1>6. Shapes'
  BY <1>1, <1>3, <1>5 DEF Handle, IInv, Shapes, gmail, shared
<1>7. \A a \in Accounts : \A c, t : Clear(handled, lost, base, a, c, t) =>
                                      Clear(handled', lost', base', a, c, t)
  BY <1>1, <1>4, <1>5, ClearStays
<1>8. SkipInv'
  <2>1. \A a \in Accounts : file[a] \in Cursor => Clear(handled', lost', base', a, file[a], {})
    BY <1>7 DEF IInv, SkipInv
  <2>2. Clear(handled', lost', base', me, pass.to, pass.todo \ gone)
    <3>1. Clear(handled', lost', base', me, pass.to, pass.todo)
      BY <1>1, <1>7 DEF IInv, SkipInv, me
    <3>2. \A i \in gone : i \in Messages => Seen(handled', lost', me, i)
      BY <1>1, <1>5
    <3> QED BY <3>1, <3>2 DEF Clear
  <2>3. \A r \in Renewers : renew[r] \in Storing => renew[r].acct \in Accounts
    BY DEF Storing
  <2>4. \A r \in Renewers : renew[r] \in Storing /\ ~renew[r].first =>
          Clear(handled', lost', base', renew[r].acct, renew[r].cursor, {})
    BY <1>7, <2>3 DEF IInv, SkipInv
  <2> QED BY <1>1, <1>3, <2>1, <2>2, <2>4 DEF IInv, SkipInv
<1>9. CursorsInv'
  BY <1>1, <1>3 DEF IInv, CursorsInv, me
<1>10. RepeatInv'
  <2>1. \A a \in Accounts, i \in Messages :
          handled[a][i] \in Nat /\ handled'[a][i] \in Nat /\ replays[a] \in Nat
    BY <1>4, <1>5
  <2>2. \A i \in pass.todo : Done(pass', me, i) <=> i \in gone
    BY <1>1, <1>3 DEF Done, IInv, CursorsInv, me
  <2>3. \A a \in Accounts, i \in Messages : Done(pass, a, i) => Done(pass', a, i)
    BY <1>1, <1>3 DEF Done, me
  <2>4. \A i \in pass.todo : handled[me][i] <= replays[me]
    BY <1>1 DEF IInv, RepeatInv, me
  <2>5. ASSUME NEW a \in Accounts, NEW i \in Messages
        PROVE  /\ handled'[a][i] <= 1 + replays[a]
               /\ Ahead(stored, file, a, i) /\ ~Done(pass', a, i) => handled'[a][i] <= replays[a]
    <3>1. CASE handled'[a][i] = handled[a][i]
      BY <2>3, <3>1 DEF IInv, RepeatInv
    <3>2. CASE handled'[a][i] # handled[a][i]
      <4>1. a = me /\ i \in gone /\ handled'[a][i] = handled[a][i] + 1
        BY <1>5, <3>2
      <4>2. handled[a][i] <= replays[a] /\ Done(pass', a, i)
        BY <2>2, <2>4, <4>1
      <4> QED BY <2>1, <4>1, <4>2
    <3> QED BY <3>1, <3>2
  <2>6. \A i \in pass.todo \ gone : handled'[me][i] <= replays[me]
    BY <1>1, <1>5, <2>4
  <2> QED BY <1>1, <1>3, <2>5, <2>6 DEF RepeatInv
<1> QED BY <1>6, <1>8, <1>9, <1>10 DEF IInv

LEMMA UpdateLoadKeeps ==
  ASSUME BoundsAssumption, IInv, UpdateLoad
  PROVE  IInv'
<1> USE DEF gmail, shared
<1>1. /\ pass \in Working /\ pass \notin Fetching /\ pass.at = "handle" /\ pass.todo = {}
      /\ me \in Accounts
      /\ UNCHANGED <<mailbox, file, base, stored, handled, lost, renew>>
  BY PassAt, PassKinds DEF UpdateLoad, Working, me
<1>2. replays \in [Accounts -> Nat] /\ handled \in [Accounts -> [Messages -> Nat]]
  BY DEF IInv, Shapes
<1>3. CASE pass' = Idle /\ missed' = missed \union {me} /\ replays' = [replays EXCEPT ![me] = @ + 1]
  <2>1. Shapes'
    BY <1>1, <1>2, <1>3 DEF UpdateLoad, IInv, Shapes
  <2>2. SkipInv' /\ CursorsInv'
    BY <1>1, <1>3, PassKinds DEF IInv, SkipInv, CursorsInv
  <2>3. \A a \in Accounts, i \in Messages :
          /\ handled[a][i] \in Nat /\ replays[a] \in Nat
          /\ replays'[a] = IF a = me THEN replays[a] + 1 ELSE replays[a]
    BY <1>1, <1>2, <1>3
  <2>4. \A a \in Accounts, i \in Messages : Done(pass, a, i) => a = me
    BY DEF Done, me
  <2>5. \A a \in Accounts, i \in Messages :
          /\ handled[a][i] <= 1 + replays'[a]
          /\ Ahead(stored, file, a, i) => handled[a][i] <= replays'[a]
    BY <2>3, <2>4 DEF IInv, RepeatInv
  <2>6. RepeatInv'
    BY <1>1, <1>3, <2>5, PassKinds DEF RepeatInv
  <2> QED BY <2>1, <2>2, <2>6 DEF IInv
<1>4. CASE pass' = [pass EXCEPT !.at = "truncate"] /\ UNCHANGED <<missed, replays>>
  <2>1. /\ pass' \in Working /\ pass' \notin Fetching /\ pass'.acct = pass.acct
        /\ pass'.last = pass.last /\ pass'.to = pass.to /\ pass'.todo = pass.todo
    BY <1>1, <1>4, PassKinds DEF Working
  <2>2. Shapes'
    BY <1>1, <1>4, <2>1 DEF UpdateLoad, IInv, Shapes
  <2>3. SkipInv' /\ CursorsInv'
    BY <1>1, <2>1 DEF IInv, SkipInv, CursorsInv
  <2>4. RepeatInv'
    BY <1>1, <1>4, <2>1 DEF IInv, RepeatInv, Done
  <2> QED BY <2>2, <2>3, <2>4 DEF IInv
<1> QED BY <1>3, <1>4 DEF UpdateLoad, GiveUp, Move

LEMMA TruncateKeeps ==
  ASSUME BoundsAssumption, ValuesAssumption, IInv, Truncate
  PROVE  IInv'
<1> USE DEF gmail, shared, history
<1>1. /\ pass \in Working /\ pass.at = "truncate" /\ pass.todo = {} /\ me \in Accounts
      /\ file' = [file EXCEPT ![me] = Torn] /\ pass' = [pass EXCEPT !.at = "write"]
      /\ UNCHANGED <<mailbox, base, stored, handled, lost, replays, renew>>
  <2>1. pass \in Working /\ pass.at = "truncate"
    BY PassAt DEF Truncate
  <2>2. me \in Accounts /\ pass.todo = {}
    BY <2>1 DEF Working, me, IInv, SkipInv
  <2> QED BY <2>1, <2>2 DEF Truncate, Move
<1>2. /\ pass' \in Working /\ pass' \notin Fetching /\ pass'.acct = pass.acct
      /\ pass'.last = pass.last /\ pass'.to = pass.to /\ pass'.todo = pass.todo
  BY <1>1, PassKinds DEF Working
<1>3. Torn \notin Cursor /\ Torn # Unset
  BY DEF ValuesAssumption, Cursor
<1>4. \A a \in Accounts : file'[a] # file[a] => file'[a] = Torn
  BY <1>1 DEF IInv, Shapes
<1>5. Shapes'
  BY <1>1, <1>2 DEF Truncate, IInv, Shapes
<1>6. SkipInv'
  <2>1. \A a \in Accounts : file'[a] \in Cursor => Clear(handled, lost, base, a, file'[a], {})
    BY <1>3, <1>4 DEF IInv, SkipInv
  <2>2. \A r \in Renewers : renew[r] \in Loading => renew[r].acct \in Accounts
    BY DEF Loading
  <2>3. \A r \in Renewers : renew[r] \in Loading /\ ~renew[r].first => file'[renew[r].acct] # Unset
    BY <1>3, <1>4, <2>2 DEF IInv, SkipInv
  <2> QED BY <1>1, <1>2, <2>1, <2>3 DEF IInv, SkipInv
<1>7. CursorsInv'
  BY <1>1, <1>2 DEF IInv, CursorsInv
<1>8. RepeatInv'
  <2>1. \A a \in Accounts, i \in Messages : /\ Ahead(stored, file', a, i) => Ahead(stored, file, a, i)
                                            /\ Done(pass', a, i) <=> Done(pass, a, i)
    BY <1>1, <1>2, <1>3, <1>4 DEF Ahead, Done
  <2> QED BY <1>1, <1>2, <2>1 DEF IInv, RepeatInv
<1> QED BY <1>5, <1>6, <1>7, <1>8 DEF IInv

\* What a write leaves in a file: the cursor it carries, or nothing that parses.
LEMMA WrittenIs ==
  ASSUME NEW a \in Accounts, NEW c \in Cursor, NEW x \in Written(a, c)
  PROVE  x = c \/ x = Torn
BY DEF Written

LEMMA WriteKeeps ==
  ASSUME BoundsAssumption, ValuesAssumption, IInv, Write
  PROVE  IInv'
<1> USE DEF gmail, shared
<1>1. /\ pass \in Working /\ pass.todo = {} /\ me \in Accounts /\ pass.to \in Cursor
      /\ stored' = [stored EXCEPT ![me] = pass.to] /\ pass' = Idle
      /\ UNCHANGED <<mailbox, base, handled, lost, replays, renew>>
  <2>1. pass \in Working /\ pass.at = "write"
    BY PassAt DEF Write
  <2>2. me \in Accounts /\ pass.todo = {} /\ pass.to \in Cursor
    BY <2>1 DEF Working, me, IInv, SkipInv
  <2> QED BY <2>1, <2>2 DEF Write
<1>2. PICK x \in {pass.to, Torn} : file' = [file EXCEPT ![me] = x]
  BY <1>1, WrittenIs DEF Write
<1>3. Torn \notin Cursor /\ Torn # Unset /\ Unset \notin Cursor
  BY DEF ValuesAssumption, Cursor
<1>4. /\ \A a \in Accounts : file'[a] = IF a = me THEN x ELSE file[a]
      /\ \A a \in Accounts : stored'[a] = IF a = me THEN pass.to ELSE stored[a]
  BY <1>1, <1>2 DEF IInv, Shapes
<1>5. Shapes'
  BY <1>1, <1>2 DEF Write, IInv, Shapes
<1>6. SkipInv'
  <2>1. \A a \in Accounts : file'[a] \in Cursor => Clear(handled, lost, base, a, file'[a], {})
    BY <1>1, <1>3, <1>4 DEF IInv, SkipInv, me
  <2>2. \A r \in Renewers : renew[r] \in Loading => renew[r].acct \in Accounts
    BY DEF Loading
  <2>3. \A r \in Renewers : renew[r] \in Loading /\ ~renew[r].first => file'[renew[r].acct] # Unset
    BY <1>1, <1>3, <1>4, <2>2 DEF IInv, SkipInv
  <2> QED BY <1>1, <2>1, <2>3, PassKinds DEF IInv, SkipInv
<1>7. CursorsInv'
  BY <1>1, <1>4, PassKinds DEF IInv, CursorsInv, me
<1>8. RepeatInv'
  <2>1. ASSUME NEW a \in Accounts, NEW i \in Messages, Ahead(stored', file', a, i)
        PROVE  Ahead(stored, file, a, i) /\ ~Done(pass, a, i)
    <3>1. CASE a = me
      <4>1. i > pass.to /\ i \in Int /\ pass.to \in Int /\ stored[a] \in Int
        BY <1>1, <1>3, <1>4, <2>1, <3>1 DEF Ahead, Messages, Cursor, IInv, Shapes
      <4>2. i > stored[a]
        BY <1>1, <3>1, <4>1 DEF IInv, CursorsInv, me
      <4> QED BY <4>1, <4>2 DEF Ahead, Done
    <3>2. CASE a # me
      BY <1>4, <2>1, <3>2 DEF Ahead, Done, me
    <3> QED BY <3>1, <3>2
  <2> QED BY <1>1, <2>1, PassKinds DEF IInv, RepeatInv
<1> QED BY <1>5, <1>6, <1>7, <1>8 DEF IInv

-----------------------------------------------------------------------------
\* A renewal.

\* A step that only moves one renewer, to a place it may be.
LEMMA RenewerMoves ==
  ASSUME BoundsAssumption, IInv, NEW r \in Renewers,
         NEW x \in {Idle} \union Checking \union Loading \union Storing,
         renew' = [renew EXCEPT ![r] = x],
         x \in Loading /\ ~x.first => file[x.acct] # Unset,
         x \in Storing /\ ~x.first => Clear(handled, lost, base, x.acct, x.cursor, {}),
         UNCHANGED <<gmail, hook, shared, file, active, daemon, history>>
  PROVE  IInv'
<1> USE DEF gmail, shared, daemon, history
<1>1. \A u \in Renewers : renew'[u] = IF u = r THEN x ELSE renew[u]
  BY DEF IInv, Shapes
<1>2. Shapes'
  BY DEF IInv, Shapes
<1>3. SkipInv'
  <2>1. \A u \in Renewers :
          /\ renew'[u] \in Loading /\ ~renew'[u].first => file[renew'[u].acct] # Unset
          /\ renew'[u] \in Storing /\ ~renew'[u].first =>
               Clear(handled, lost, base, renew'[u].acct, renew'[u].cursor, {})
    BY <1>1 DEF IInv, SkipInv
  <2> QED BY <2>1 DEF IInv, SkipInv
<1>4. CursorsInv' /\ RepeatInv'
  BY DEF IInv, CursorsInv, RepeatInv
<1> QED BY <1>2, <1>3, <1>4 DEF IInv

LEMMA RenewBeginsKeeps ==
  ASSUME BoundsAssumption, ValuesAssumption, IInv, NEW r \in Renewers,
         RenewCall(r) \/ RenewCheck(r) \/ RenewLoad(r)
  PROVE  IInv'
<1>1. CASE RenewCall(r)
  <2>1. PICK a \in Accounts :
          renew' = [renew EXCEPT ![r] = [acct |-> a, at |-> "check", hist |-> mailbox[a]]]
    BY <1>1 DEF RenewCall
  <2> DEFINE x == [acct |-> a, at |-> "check", hist |-> mailbox[a]]
  <2>2. x \in Checking
    BY DEF Checking, IInv, Shapes
  <2>3. x \notin Loading /\ x \notin Storing
    BY <2>2, RenewKinds
  <2>4. UNCHANGED <<gmail, hook, shared, file, active, daemon, history>>
    BY <1>1 DEF RenewCall
  <2> HIDE DEF x
  <2> QED BY <2>1, <2>2, <2>3, <2>4, RenewerMoves DEF x
<1>2. CASE RenewCheck(r)
  <2>1. renew[r] \in Checking /\ UNCHANGED <<gmail, hook, shared, file, active, daemon, history>>
    BY <1>2, RenewAt DEF RenewCheck
  <2> DEFINE x == [acct |-> renew[r].acct, at |-> "load", hist |-> renew[r].hist,
                   first |-> file[renew[r].acct] = Unset]
  <2>2. x \in Loading /\ (~x.first => file[x.acct] # Unset)
    BY <2>1 DEF Loading, Checking
  <2>3. x \notin Storing
    BY <2>2, RenewKinds
  <2>4. renew' = [renew EXCEPT ![r] = Idle] \/ renew' = [renew EXCEPT ![r] = x]
    BY <1>2 DEF RenewCheck, IInv, Shapes
  <2> HIDE DEF x
  <2> QED BY <2>1, <2>2, <2>3, <2>4, RenewerMoves, RenewKinds
<1>3. CASE RenewLoad(r)
  <2>1. renew[r] \in Loading /\ UNCHANGED <<gmail, hook, shared, file, active, daemon, history>>
    BY <1>3, RenewAt DEF RenewLoad
  <2> DEFINE a == renew[r].acct
             x == [acct |-> a, at |-> "truncate", first |-> renew[r].first,
                   cursor |-> IF renew[r].first THEN renew[r].hist ELSE file[a]]
  <2>2. a \in Accounts /\ renew[r].hist \in Cursor /\ renew[r].first \in BOOLEAN
    BY <2>1 DEF Loading
  <2>3. file[a] # Torn /\ ~renew[r].first => file[a] \in Cursor
    BY <2>1, <2>2 DEF IInv, Shapes, SkipInv
  <2>4. file[a] # Torn => x \in Storing
    BY <2>2, <2>3 DEF Storing
  <2>5. file[a] # Torn /\ ~x.first => Clear(handled, lost, base, x.acct, x.cursor, {})
    BY <2>2, <2>3 DEF IInv, SkipInv
  <2>6. \/ renew' = [renew EXCEPT ![r] = Idle]
        \/ file[a] # Torn /\ renew' = [renew EXCEPT ![r] = x]
    BY <1>3 DEF RenewLoad, IInv, Shapes
  <2> HIDE DEF x, a
  <2>7. CASE renew' = [renew EXCEPT ![r] = Idle]
    BY <2>1, <2>7, RenewerMoves, RenewKinds
  <2>8. CASE file[a] # Torn /\ renew' = [renew EXCEPT ![r] = x]
    <3>1. x \notin Loading
      BY <2>4, <2>8, RenewKinds
    <3> QED BY <2>1, <2>4, <2>5, <2>8, <3>1, RenewerMoves
  <2> QED BY <2>6, <2>7, <2>8
<1> QED BY <1>1, <1>2, <1>3

LEMMA RenewTruncateKeeps ==
  ASSUME BoundsAssumption, ValuesAssumption, IInv, NEW r \in Renewers, RenewTruncate(r)
  PROVE  IInv'
<1> USE DEF gmail, shared, daemon, history
<1> DEFINE x == [renew[r] EXCEPT !.at = "write"]
<1>1. /\ renew[r] \in Storing /\ renew[r].acct \in Accounts
      /\ file' = [file EXCEPT ![renew[r].acct] = Torn] /\ renew' = [renew EXCEPT ![r] = x]
      /\ UNCHANGED <<mailbox, base, stored, handled, lost, replays, pass>>
  BY RenewAt DEF RenewTruncate, Storing, IInv, Shapes
<1>2. x \in Storing /\ x.acct = renew[r].acct /\ x.cursor = renew[r].cursor
      /\ x.first = renew[r].first
  BY <1>1 DEF Storing
<1> HIDE DEF x
<1>3. \A u \in Renewers : renew'[u] = IF u = r THEN x ELSE renew[u]
  BY <1>1 DEF IInv, Shapes
<1>4. Torn \notin Cursor /\ Torn # Unset
  BY DEF ValuesAssumption, Cursor
<1>5. \A a \in Accounts : file'[a] # file[a] => file'[a] = Torn
  BY <1>1 DEF IInv, Shapes
<1>6. Shapes'
  <2>1. file' \in [Accounts -> Cursor \union {Unset, Torn}]
    BY <1>1 DEF IInv, Shapes
  <2>2. renew' \in [Renewers -> {Idle} \union Checking \union Loading \union Storing]
    BY <1>1, <1>2 DEF IInv, Shapes
  <2> QED BY <2>1, <2>2 DEF RenewTruncate, IInv, Shapes
<1>7. SkipInv'
  <2>1. \A a \in Accounts : file'[a] \in Cursor => Clear(handled, lost, base, a, file'[a], {})
    BY <1>4, <1>5 DEF IInv, SkipInv
  <2>2. \A u \in Renewers : renew[u] \in Loading => renew[u].acct \in Accounts
    BY DEF Loading
  <2>3. \A u \in Renewers : renew'[u] \in Loading /\ ~renew'[u].first =>
                              file'[renew'[u].acct] # Unset
    BY <1>2, <1>3, <1>4, <1>5, <2>2, RenewKinds DEF IInv, SkipInv
  <2>4. \A u \in Renewers : renew'[u] \in Storing /\ ~renew'[u].first =>
          Clear(handled, lost, base, renew'[u].acct, renew'[u].cursor, {})
    BY <1>1, <1>2, <1>3 DEF IInv, SkipInv
  <2> QED BY <1>1, <2>1, <2>3, <2>4 DEF IInv, SkipInv
<1>8. CursorsInv'
  BY <1>1 DEF IInv, CursorsInv
<1>9. RepeatInv'
  <2>1. \A a \in Accounts, i \in Messages : Ahead(stored, file', a, i) => Ahead(stored, file, a, i)
    BY <1>4, <1>5 DEF Ahead
  <2> QED BY <1>1, <2>1 DEF IInv, RepeatInv
<1> QED BY <1>6, <1>7, <1>8, <1>9 DEF IInv

\* The cursor a renewal stores is clear, given the reasons its step records: it
\* is the account's first, it was the file's, or what it passes over is lost.
LEMMA RenewWriteKeeps ==
  ASSUME BoundsAssumption, ValuesAssumption, IInv, NEW r \in Renewers, RenewWrite(r)
  PROVE  IInv'
<1> USE DEF gmail, shared, daemon
<1> DEFINE a == renew[r].acct
           cursor == renew[r].cursor
           between == {i \in Messages : base[a] < i /\ i <= cursor} \ Behind(a)
           again == {<<a, i, "registered-again">> : i \in between}
<1>1. renew[r] \in Storing /\ a \in Accounts /\ cursor \in Cursor
  BY RenewAt DEF RenewWrite, Storing
<1>2. /\ renew' = [renew EXCEPT ![r] = Idle]
      /\ base' = IF base[a] = Unset THEN [base EXCEPT ![a] = cursor] ELSE base
      /\ replays' = IF cursor < stored[a] THEN [replays EXCEPT ![a] = @ + 1] ELSE replays
      /\ UNCHANGED <<mailbox, oldest, pushes, hook, spool, fifo, active, at, woken, batch,
                     pass, stored, handled, missed>>
  BY DEF RenewWrite
<1>3. PICK c \in {cursor, Torn} :
        /\ file' = [file EXCEPT ![a] = c]
        /\ lost' = IF c = cursor /\ renew[r].first /\ base[a] # Unset
                   THEN lost \union again ELSE lost
  BY <1>1, WrittenIs DEF RenewWrite
<1>4. Torn \notin Cursor /\ Torn # Unset /\ Unset \notin Cursor
  BY DEF ValuesAssumption, Cursor
<1>5. lost \subseteq lost' /\ lost' \subseteq Accounts \X Messages \X Whys
  <2>1. again \subseteq Accounts \X Messages \X Whys
    BY <1>1 DEF Whys
  <2> HIDE DEF again
  <2> QED BY <1>3, <2>1 DEF IInv, Shapes
<1>6. \A b \in Accounts : /\ file'[b] = IF b = a THEN c ELSE file[b]
                          /\ base'[b] = IF b = a /\ base[a] = Unset THEN cursor ELSE base[b]
                          /\ replays'[b] = IF b = a /\ cursor < stored[a]
                                           THEN replays[b] + 1 ELSE replays[b]
                          /\ replays[b] \in Nat
  BY <1>1, <1>2, <1>3 DEF IInv, Shapes
<1>7. \A u \in Renewers : renew'[u] = IF u = r THEN Idle ELSE renew[u]
  BY <1>2 DEF IInv, Shapes
<1>8. Shapes'
  <2>1. file' \in [Accounts -> Cursor \union {Unset, Torn}]
    BY <1>1, <1>3 DEF IInv, Shapes
  <2>2. base' \in [Accounts -> Cursor \union {Unset}] /\ replays' \in [Accounts -> Nat]
    BY <1>1, <1>2 DEF IInv, Shapes
  <2>3. renew' \in [Renewers -> {Idle} \union Checking \union Loading \union Storing]
    BY <1>2 DEF IInv, Shapes
  <2> QED BY <1>2, <1>5, <2>1, <2>2, <2>3 DEF IInv, Shapes
<1>9. \A b \in Accounts : \A d, t : Clear(handled, lost, base, b, d, t) =>
                                      Clear(handled', lost', base', b, d, t)
  <2>1. ASSUME NEW b \in Accounts, NEW d, NEW t, Clear(handled, lost, base, b, d, t)
        PROVE  Clear(handled', lost', base', b, d, t)
    <3>1. base'[b] = base[b]
      BY <1>6, <2>1 DEF Clear
    <3>2. handled' = handled /\ lost \subseteq lost'
      BY <1>2, <1>5
    <3> QED BY <2>1, <3>1, <3>2 DEF Clear, Seen
  <2> QED BY <2>1
<1>10. c = cursor => Clear(handled', lost', base', a, cursor, {})
  <2> SUFFICES ASSUME c = cursor PROVE Clear(handled', lost', base', a, cursor, {})
    OBVIOUS
  <2>1. CASE base[a] = Unset
    <3>1. base'[a] = cursor /\ cursor # Unset
      BY <1>1, <1>4, <1>6, <2>1
    <3>2. \A i \in Messages : ~(cursor < i /\ i <= cursor)
      BY <1>1 DEF Messages, Cursor
    <3> QED BY <3>1, <3>2 DEF Clear
  <2>2. CASE base[a] # Unset /\ ~renew[r].first
    BY <1>1, <1>9, <2>2 DEF IInv, SkipInv
  <2>3. CASE base[a] # Unset /\ renew[r].first
    <3>1. base'[a] = base[a] /\ lost' = lost \union again
      BY <1>1, <1>3, <1>6, <2>3
    <3>2. ASSUME NEW i \in Messages, base[a] < i, i <= cursor
          PROVE  Seen(handled', lost', a, i)
      <4>1. CASE i \in Behind(a)
        BY <1>2, <1>5, <4>1 DEF Behind, Seen
      <4>2. CASE i \notin Behind(a)
        <5>1. <<a, i, "registered-again">> \in again
          BY <3>2, <4>2
        <5> QED BY <3>1, <5>1 DEF Seen, Whys
      <4> QED BY <4>1, <4>2
    <3> QED BY <2>3, <3>1, <3>2 DEF Clear
  <2> QED BY <2>1, <2>2, <2>3
<1> HIDE DEF a, cursor, between, again
<1>11. SkipInv'
  <2>1. \A b \in Accounts : file'[b] \in Cursor => Clear(handled', lost', base', b, file'[b], {})
    <3>1. ASSUME NEW b \in Accounts, b # a, file'[b] \in Cursor
          PROVE  Clear(handled', lost', base', b, file'[b], {})
      <4>1. file'[b] = file[b] /\ Clear(handled, lost, base, b, file[b], {})
        BY <1>6, <3>1 DEF IInv, SkipInv
      <4> QED BY <1>9, <4>1
    <3>2. file'[a] \in Cursor => file'[a] = cursor /\ c = cursor
      BY <1>1, <1>3, <1>4, <1>6
    <3> QED BY <1>10, <3>1, <3>2
  <2>2. pass \in Fetching => Clear(handled', lost', base', pass.acct, pass.last, {})
    BY <1>9 DEF IInv, SkipInv, Fetching
  <2>3. pass \in Working => Clear(handled', lost', base', pass.acct, pass.to, pass.todo)
    BY <1>9 DEF IInv, SkipInv, Working
  <2>4. \A u \in Renewers : renew'[u] \in Loading /\ ~renew'[u].first =>
                              file'[renew'[u].acct] # Unset
    <3>1. \A u \in Renewers : renew[u] \in Loading => renew[u].acct \in Accounts
      BY DEF Loading
    <3>2. c # Unset
      BY <1>1, <1>3, <1>4
    <3> QED BY <1>6, <1>7, <3>1, <3>2, RenewKinds DEF IInv, SkipInv
  <2>5. \A u \in Renewers : renew'[u] \in Storing /\ ~renew'[u].first =>
          Clear(handled', lost', base', renew'[u].acct, renew'[u].cursor, {})
    <3>1. \A u \in Renewers : renew[u] \in Storing => renew[u].acct \in Accounts
      BY DEF Storing
    <3> QED BY <1>7, <1>9, <3>1, RenewKinds DEF IInv, SkipInv
  <2> QED BY <1>2, <2>1, <2>2, <2>3, <2>4, <2>5 DEF IInv, SkipInv
<1>12. CursorsInv'
  BY <1>2 DEF IInv, CursorsInv
<1>13. RepeatInv'
  <2>1. \A b \in Accounts, i \in Messages : handled[b][i] \in Nat
    BY DEF IInv, Shapes
  <2>2. \A b \in Accounts : replays[b] <= replays'[b] /\ replays'[b] \in Nat
    BY <1>6
  <2>3. ASSUME NEW b \in Accounts, NEW i \in Messages
        PROVE  /\ handled[b][i] <= 1 + replays'[b]
               /\ Ahead(stored, file', b, i) /\ ~Done(pass, b, i) => handled[b][i] <= replays'[b]
    <3>1. handled[b][i] <= 1 + replays[b]
      BY DEF IInv, RepeatInv
    <3>2. CASE b = a /\ cursor < stored[a]
      BY <1>6, <2>1, <3>1, <3>2
    <3>3. CASE ~(b = a /\ cursor < stored[a])
      <4>1. replays'[b] = replays[b]
        BY <1>6, <3>3
      <4>2. Ahead(stored, file', b, i) => Ahead(stored, file, b, i)
        <5>1. CASE b # a
          BY <1>6, <5>1 DEF Ahead
        <5>2. CASE b = a
          <6>1. i \in Int /\ stored[a] \in Int /\ cursor \in Int /\ stored[a] <= cursor
            BY <1>1, <3>3, <5>2 DEF Messages, Cursor, IInv, Shapes
          <6>2. file'[a] \in Cursor => file'[a] = cursor
            BY <1>1, <1>3, <1>4, <1>6
          <6> QED BY <5>2, <6>1, <6>2 DEF Ahead
        <5> QED BY <5>1, <5>2
      <4> QED BY <3>1, <4>1, <4>2 DEF IInv, RepeatInv
    <3> QED BY <3>2, <3>3
  <2>4. pass \in Fetching \union Working => pass.acct \in Accounts
    BY DEF Fetching, Working
  <2>5. pass \in Working => pass.todo \subseteq Messages
    BY DEF Working
  <2>6. pass \in Fetching =>
          \A i \in Messages : i > pass.last => handled[pass.acct][i] <= replays'[pass.acct]
    BY <1>6, <2>1, <2>2, <2>4 DEF IInv, RepeatInv
  <2>7. pass \in Working => \A i \in pass.todo : handled[pass.acct][i] <= replays'[pass.acct]
    BY <1>6, <2>1, <2>2, <2>4, <2>5 DEF IInv, RepeatInv
  <2> QED BY <1>2, <2>3, <2>6, <2>7 DEF RepeatInv
<1> QED BY <1>8, <1>11, <1>12, <1>13 DEF IInv

-----------------------------------------------------------------------------
LEMMA StepIInv ==
  ASSUME BoundsAssumption, ValuesAssumption, IInv, [Next]_vars
  PROVE  IInv'
<1>1. ASSUME NEW a \in Accounts, NewMail(a) \/ Forget(a) \/ FlipPlan(a)
      PROVE  IInv'
  BY <1>1, NewMailKeeps, OutsideKeeps
<1>2. ASSUME NEW h \in Hooks, Spool(h) \/ Poke(h)
      PROVE  IInv'
  BY <1>2, OutsideKeeps
<1>3. CASE Daemon
  BY <1>3, OutsideKeeps, StopKeeps, BeginKeeps, FetchFailsKeeps, FetchKeeps, HandleKeeps,
     UpdateLoadKeeps, TruncateKeeps, WriteKeeps DEF Daemon
<1>4. ASSUME NEW r \in Renewers, Renew(r)
      PROVE  IInv'
  BY <1>4, RenewBeginsKeeps, RenewTruncateKeeps, RenewWriteKeeps DEF Renew
<1>5. CASE Crash
  BY <1>5, StopKeeps
<1>6. CASE UNCHANGED vars
  <2>1. UNCHANGED cursors
    BY <1>6 DEF vars, gmail, history, daemon, cursors
  <2>2. Shapes'
    BY <1>6 DEF vars, gmail, shared, daemon, history, IInv, Shapes
  <2> QED BY <2>1, <2>2, CursorsApart DEF IInv
<1> QED BY <1>1, <1>2, <1>3, <1>4, <1>5, <1>6 DEF Next

LEMMA Invariance == Spec => []IInv
<1>1. Init => IInv
  BY InitIInv, BoundsAssumption, ValuesAssumption
<1>2. IInv /\ [Next]_vars => IInv'
  BY StepIInv, BoundsAssumption, ValuesAssumption
<1> QED BY <1>1, <1>2, PTL DEF Spec

\* The state files, the spool, the passes and the renewals are what the code
\* takes them for.
THEOREM TypeCorrect == Spec => []TypeOK
<1>1. IInv => TypeOK
  BY InvGivesTypeOK
<1> QED BY <1>1, Invariance, PTL

\* However passes, renewals, crashes and Gmail's failures overlap, the cursor on
\* disk never passes a message without a reason the code knows (process_account,
\* renew_account, StateStore.update).
THEOREM NoMailIsSkipped == Spec => []NoMailSkipped
<1>1. IInv => NoMailSkipped
  <2> SUFFICES ASSUME IInv, NEW a \in Accounts, file[a] \in Cursor,
                      NEW i \in Messages, base[a] < i, i <= file[a]
               PROVE  i \in Behind(a)
    BY DEF NoMailSkipped
  <2>1. Seen(handled, lost, a, i)
    BY DEF IInv, SkipInv, Clear
  <2> QED BY <2>1 DEF Seen, Behind
<1> QED BY <1>1, Invariance, PTL

\* A message is drafted for once, and once more for each pass that was interrupted
\* and each cursor that was rewound (process_account, StateStore.update).
THEOREM RepeatsAreExplained == Spec => []RepeatsExplained
<1>1. IInv => RepeatsExplained
  BY DEF IInv, RepeatInv, RepeatsExplained
<1> QED BY <1>1, Invariance, PTL
=============================================================================

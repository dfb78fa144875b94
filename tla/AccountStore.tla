---------------------------- MODULE AccountStore ----------------------------
(***************************************************************************)
(* What the account manifest promises its seven writers: each operation    *)
(* happens at one instant, to the store as it is at that instant, and      *)
(* touches what it is about and nothing else.  No lock, no file, no copy   *)
(* that can go stale, no process that dies.                                *)
(*                                                                         *)
(* Manifest.tla is the detailed specification (accounts/account.py) and    *)
(* implements this one.                                                    *)
(***************************************************************************)
EXTENDS Naturals, FiniteSets

CONSTANTS
  Addresses,     \* mailbox addresses, the account ids
  Chats,         \* Telegram chats
  Customers,     \* Polar customers
  MaxAccounts,   \* MAX_ACCOUNTS
  None           \* a field that is not set, an address with no entry

VARIABLE accounts   \* address -> its entry, or None

vars == <<accounts>>

\* What setters may put in each field, and the value a first consent starts it at.
ValuesOf == [plan_status       |-> {"active", "inactive"},
             telegram          |-> Chats \union {None},
             settings          |-> {"default", "chosen"},
             voice_file        |-> {"document", None},
             polar_customer_id |-> Customers]

Registered(store) == {a \in DOMAIN store : store[a] # None}

Fresh(handle) == [handle |-> handle, plan_status |-> "inactive", telegram |-> None,
                  settings |-> "default", voice_file |-> None,
                  polar_customer_id |-> None, token_file |-> TRUE]

Init == accounts \in [Addresses -> {None} \union {Fresh(0)}]

\* One field of one account, set to a value that is legal for it.
SetField ==
  \E a \in Registered(accounts), field \in DOMAIN ValuesOf :
    \E value \in ValuesOf[field] :
      /\ field = "polar_customer_id" =>
           \A b \in Registered(accounts) \ {a} : accounts[b].polar_customer_id # value
      /\ accounts' = [accounts EXCEPT ![a][field] = value]

\* A first consent, unpaid, under a handle nobody holds, and only while there
\* is room.
Create ==
  \E a \in Addresses \ Registered(accounts) :
    /\ Cardinality(Registered(accounts)) < MaxAccounts
    /\ accounts'[a] # None
    /\ LET handle == accounts'[a].handle
       IN /\ \A b \in Registered(accounts) : accounts[b].handle # handle
          /\ accounts' = [accounts EXCEPT ![a] = Fresh(handle)]

\* A returning user consents again: the grant is new, the rest is theirs.
Renew ==
  \E a \in Registered(accounts) :
    accounts' = [accounts EXCEPT ![a].token_file = TRUE]

Remove ==
  \E a \in Registered(accounts) : accounts' = [accounts EXCEPT ![a] = None]

Next == SetField \/ Create \/ Renew \/ Remove

Spec == Init /\ [][Next]_vars
===========================================================================

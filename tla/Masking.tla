------------------------------- MODULE Masking -------------------------------
(* What leaves this server for a model, and what comes back: the masking of   *)
(* one draft (pseudonymizer.py, as agentic_drafter.draft and                  *)
(* llm_client.complete use it).  A text is a sequence of words and tags; a    *)
(* draft masks its prompt and then every tool result with one state, which    *)
(* grows as it goes.                                                          *)
(*                                                                            *)
(* External: the analyzer, which may take any words for a person's name.      *)
EXTENDS Naturals, Sequences, FiniteSets, SequencesExt

CONSTANTS
  Lower(_),            \* a word in lower case
  Owner, Aliases, Surname, \* the account's own names, as words
  Reached,             \* its addresses and numbers: lower-case word -> "EMAIL" or "PHONE"
  Contacts,            \* its contacts, a sequence of names
  Stopwords,           \* names that are common words, in lower case
  Patterned,           \* secrets, addresses, numbers: word -> entity, by regex
  Nonce,               \* the fence's delimiter
  Given,               \* the texts a draft may have to mask
  MaxTexts, MaxTaken   \* bounds: texts per draft, names the analyzer finds in one

VARIABLES
  analyzer,  \* whether this account runs the analyzer
  persons,   \* person -> its words' roles
  tokens,    \* token_index: word -> the person it is part of
  names,     \* names: the spellings met, each with its tags
  pindex,    \* pindex: the same, by lower-case spelling
  seen,      \* seen: entity and word -> tag
  mapping,   \* mapping: tag -> what restore() puts back
  texts,     \* the texts of this draft so far
  sent,      \* what the model was given in their place
  retagged   \* history: the analyzer took a tag for a name

state == <<persons, tokens, names, pindex, seen, mapping>>
vars == <<analyzer, state, texts, sent, retagged>>

Elements(f) == {f[x] : x \in DOMAIN f}

(* Items of a text. *)
Word(w) == [kind |-> "word", n |-> 0, is |-> w]
Tag(kind, n, is) == [kind |-> kind, n |-> n, is |-> is]
User(is) == Tag("USER", 0, is)
Plain(words) == [i \in DOMAIN words |-> Word(words[i])]
Fold(text) == [i \in DOMAIN text |->
                 IF text[i].kind = "word" THEN Word(Lower(text[i].is)) ELSE text[i]]
Stop(item) == item.kind = "word" /\ Lower(item.is) \in Stopwords
Chars(tag) == CASE tag.kind = "USER"   -> 7 + Len(tag.is)
                [] tag.kind = "PERSON" -> 10 + Len(tag.is)
                [] OTHER               -> 3 + Len(tag.is)

\* re.sub of a whole-word pattern: left to right, no match inside another.
Sub(text, n, Hit(_), by) ==
  LET rest[i \in 1..Len(text) + n] ==
        IF i > Len(text) THEN <<>>
        ELSE IF i + n - 1 <= Len(text) /\ Hit(SubSeq(text, i, i + n - 1))
             THEN by \o rest[i + n]
             ELSE <<text[i]>> \o rest[i + 1]
  IN rest[1]

SubName(text, name, by) == Sub(text, Len(name), LAMBDA w : w = name, by)
SubAnyCase(text, name, by) == Sub(text, Len(name), LAMBDA w : Fold(w) = Fold(name), by)

\* sorted(key=len, reverse=True) over a dict: what equals in length, in any order.
LongestFirst(Op(_, _), base, set, Size(_)) ==
  LET top == Max({Size(x) : x \in set} \cup {0})
  IN FoldLeft(LAMBDA acc, n : FoldSet(LAMBDA x, a : Op(a, x), acc, {x \in set : Size(x) = top - n}),
              base, [n \in 1..top |-> n - 1])

Firsts == <<Owner>> \o Aliases

\* UserIdentity.mask_user: full names in any case, addresses, the last name and
\* the first names as they are spelt, and the numbers.
MaskUser(text) ==
  LET full  == FoldLeft(LAMBDA t, f : SubAnyCase(t, Plain(<<f, Surname>>), <<User("FIRST"), User("LAST")>>),
                        text, Firsts)
      mails == [i \in DOMAIN full |->
                  IF full[i].kind = "word" /\ Lower(full[i].is) \in DOMAIN Reached
                  THEN User(Reached[Lower(full[i].is)]) ELSE full[i]]
      last  == SubName(mails, Plain(<<Surname>>), <<User("LAST")>>)
  IN FoldLeft(LAMBDA t, f : SubName(t, Plain(<<f>>), <<User("FIRST")>>), last, Firsts)

SeedMapping == [t \in {User("FIRST"), User("LAST"), User("EMAIL"), User("PHONE")} |->
  CASE t.is = "FIRST" -> Plain(<<Owner>>)
    [] t.is = "LAST"  -> Plain(<<Surname>>)
    [] OTHER -> Plain(<<CHOOSE w \in DOMAIN Reached : Reached[w] = t.is>>)]

Init == /\ analyzer \in BOOLEAN
        /\ persons = <<>> /\ tokens = <<>> /\ names = <<>> /\ pindex = <<>> /\ seen = <<>>
        /\ mapping = SeedMapping
        /\ texts = <<>> /\ sent = <<>> /\ retagged = FALSE

-----------------------------------------------------------------------------
(* The draft's state as one record, so that the helpers can pass it on. *)
State == [persons |-> persons, tokens |-> tokens, names |-> names, pindex |-> pindex,
          seen |-> seen, mapping |-> mapping]

\* dict.setdefault: what is there already wins.
Default(f, k, v) == IF k \in DOMAIN f THEN f ELSE [x \in DOMAIN f \cup {k} |-> IF x = k THEN v ELSE f[x]]
Set(f, k, v) == [x \in DOMAIN f \cup {k} |-> IF x = k THEN v ELSE f[x]]

Spares == <<"X1", "X2", "X3", "X4">>
Taken(roles) == {roles[w] : w \in DOMAIN roles}
RolePreferred(roles, preferred) == preferred
RoleFor(roles, preferred) ==
  IF preferred \notin Taken(roles) THEN preferred
  ELSE Spares[CHOOSE i \in DOMAIN Spares : /\ Spares[i] \notin Taken(roles)
                                           /\ \A j \in 1..i - 1 : Spares[j] \in Taken(roles)]

\* _person_tag: the tag of one word of a person's name.
PersonTag(s, pid, item, preferred) ==
  LET key == Fold(<<item>>) IN
  IF key \in DOMAIN s.persons[pid] THEN s
  ELSE LET role == RoleFor(s.persons[pid], preferred)
           tag  == Tag("PERSON", pid, role)
       IN [s EXCEPT !.persons[pid] = Set(@, key, role),
                    !.mapping = Default(@, tag, <<item>>),
                    !.names   = Default(@, <<item>>, <<tag>>),
                    !.pindex  = Default(@, key, <<tag>>),
                    !.tokens  = Set(@, key, pid)]

TagOf(s, pid, item) == Tag("PERSON", pid, s.persons[pid][Fold(<<item>>)])

\* _resolve_full and _resolve_single: the first word somebody already has says
\* who this is; words that are common ones stay as they are.
Resolve(s, name) ==
  LET known == {i \in DOMAIN name : Fold(<<name[i]>>) \in DOMAIN s.tokens}
      new   == known = {}
      pid   == IF new THEN Len(s.persons) + 1
               ELSE s.tokens[Fold(<<name[CHOOSE i \in known : \A j \in known : i <= j]>>)]
      base  == IF new THEN [s EXCEPT !.persons = Append(@, <<>>)] ELSE s
      Role(i) == IF i = 1 THEN "FIRST" ELSE IF i = Len(name) THEN "LAST" ELSE "MID"
      all   == FoldLeft(LAMBDA t, i : IF Stop(name[i]) THEN t ELSE PersonTag(t, pid, name[i], Role(i)),
                        base, [i \in DOMAIN name |-> i])
      comp  == [i \in DOMAIN name |-> IF Stop(name[i]) THEN name[i] ELSE TagOf(all, pid, name[i])]
  IN IF Len(name) = 1 THEN IF Stop(name[1]) THEN s ELSE all
     ELSE [all EXCEPT !.names = Default(@, name, comp), !.pindex = Default(@, Fold(name), comp)]

\* _scrub_contacts, one contact after another.
Holds(text, name) == SubAnyCase(text, name, <<>>) # text

ScrubOneOnce(p, name) ==
  IF ~Holds(p.text, name) \/ Fold(name) \in DOMAIN p.state.pindex THEN p
  ELSE LET s == Resolve(p.state, name)
       IN IF Fold(name) \notin DOMAIN s.pindex THEN [p EXCEPT !.state = s]
          ELSE [text |-> SubAnyCase(p.text, name, s.pindex[Fold(name)]), state |-> s]

ScrubOne(p, name) ==
  IF ~Holds(p.text, name) THEN p
  ELSE LET s == IF Fold(name) \in DOMAIN p.state.pindex THEN p.state ELSE Resolve(p.state, name)
       IN IF Fold(name) \notin DOMAIN s.pindex THEN [p EXCEPT !.state = s]
          ELSE [text |-> SubAnyCase(p.text, name, s.pindex[Fold(name)]), state |-> s]

ScrubContacts(text, s) ==
  FoldLeft(ScrubOne, [text |-> text, state |-> s], [i \in DOMAIN Contacts |-> Plain(Contacts[i])])

\* _mask_names: the names met earlier, the longest first.  The pattern asks for a
\* word at both ends, so a tag that was taken for a name is not found again.
Spelt(known) == {name \in DOMAIN known : name[1].kind = "word" /\ name[Len(name)].kind = "word"}

MaskNames(text, s) ==
  LongestFirst(LAMBDA t, name : SubName(t, name, s.names[name]), text, Spelt(s.names), Len)

-----------------------------------------------------------------------------
\* What the analyzer may report: names of one or two items, not two over one
\* item and none that touches a protected token.
Touches(text, span) == \E i \in span[1]..span[2] : text[i] = Word(Nonce)

Spans(text) ==
  {span \in (DOMAIN text) \X (DOMAIN text) :
     /\ span[1] <= span[2] /\ span[2] <= span[1] + 1
     /\ ~Touches(text, span)
     /\ \A i \in span[1]..span[2] : text[i].kind = "word" => text[i].is \notin DOMAIN Patterned}

Findings(text) ==
  {found \in SUBSET Spans(text) :
     /\ Cardinality(found) <= MaxTaken
     /\ \A a, b \in found : a # b => a[2] < b[1] \/ b[2] < a[1]}

Surface(text, span) == SubSeq(text, span[1], span[2])

\* _resolve_persons: the longest names first, each once.
ResolvePersons(s, text, found) ==
  LongestFirst(LAMBDA t, name : IF Fold(name) \in DOMAIN t.pindex THEN t ELSE Resolve(t, name),
               s, {Surface(text, span) : span \in found}, Len)

\* The Pseudonymize operator on every name reported.
Replaced(s, text, found) ==
  LET rest[i \in 1..Len(text) + 2] ==
        IF i > Len(text) THEN <<>>
        ELSE LET here == {span \in found : span[1] = i} IN
             IF here = {} THEN <<text[i]>> \o rest[i + 1]
             ELSE LET span == CHOOSE x \in here : TRUE
                      name == Surface(text, span)
                  IN (IF Fold(name) \in DOMAIN s.pindex THEN s.pindex[Fold(name)] ELSE name)
                     \o rest[span[2] + 1]
  IN rest[1]

\* _tag_value on every pattern, by the analyzer's recognizers or by the regexes.
TagValue(p, i) ==
  LET item == p.text[i] IN
  IF item.kind # "word" \/ item.is \notin DOMAIN Patterned THEN p
  ELSE LET key == <<Patterned[item.is], Lower(item.is)>>
           new == key \notin DOMAIN p.state.seen
           tag == IF new THEN Tag("VALUE", 1 + Cardinality({k \in DOMAIN p.state.seen : k[1] = key[1]}), key[1])
                  ELSE p.state.seen[key]
       IN [text  |-> [p.text EXCEPT ![i] = tag],
           state |-> IF new THEN [p.state EXCEPT !.seen = Set(@, key, tag),
                                                 !.mapping = Set(@, tag, <<item>>)]
                     ELSE p.state]

TagPatterns(p) == FoldLeft(TagValue, p, [i \in DOMAIN p.text |-> i])

Count(text) == Cardinality({i \in DOMAIN text : text[i] = Word(Nonce)})

\* pseudonymize(), for one more text of the draft.
Pseudonymize(given) ==
  \E scrubbed \in {ScrubContacts(MaskUser(Plain(given)), State)} :
  \E text \in {MaskNames(scrubbed.text, scrubbed.state)} :
  \E found \in (IF analyzer THEN Findings(text) ELSE {{}}) :
  \E s \in {ResolvePersons(scrubbed.state, text, found)} :
  \E result \in {TagPatterns([text |-> Replaced(s, text, found), state |-> s])} :
    /\ Count(result.text) = Count(Plain(given))
    /\ persons' = result.state.persons /\ tokens' = result.state.tokens
    /\ names' = result.state.names /\ pindex' = result.state.pindex
    /\ seen' = result.state.seen /\ mapping' = result.state.mapping
    /\ sent' = Append(sent, result.text)
    /\ retagged' = (retagged \/ \E span \in found : \E i \in span[1]..span[2] : text[i].kind # "word")

Mask(given) == /\ Len(texts) < MaxTexts
               /\ texts' = Append(texts, given)
               /\ Pseudonymize(given)
               /\ UNCHANGED analyzer

Next == \E given \in Given : Mask(given)

Spec == Init /\ [][Next]_vars

-----------------------------------------------------------------------------
\* restore(): every tag in turn, the longest first.
Restore(text, values) ==
  LongestFirst(LAMBDA t, tag : SubName(t, <<tag>>, values[tag]), text, DOMAIN values, Chars)

\* Two spellings of one thing: case, the owner's first names, and the addresses
\* and numbers that reach the owner are not told apart by their tags.
Means(item) == CASE item.kind # "word" -> item
                 [] item.is \in Elements(Firsts) -> User("FIRST")
                 [] Lower(item.is) \in DOMAIN Reached -> User(Reached[Lower(item.is)])
                 [] OTHER -> Word(Lower(item.is))

TypeOK == /\ analyzer \in BOOLEAN /\ retagged \in BOOLEAN
          /\ Len(texts) = Len(sent) /\ Elements(texts) \subseteq Given
          /\ Elements(tokens) \subseteq DOMAIN persons
          /\ \A p \in DOMAIN persons : \A a, b \in DOMAIN persons[p] :
               persons[p][a] = persons[p][b] => a = b
          /\ \A name \in DOMAIN names : Fold(name) \in DOMAIN pindex
          /\ Elements(seen) \subseteq DOMAIN mapping

\* Nothing the account told us about itself, no contact and no name met earlier
\* in the draft is in what the model is given, analyzer or not.  A contact who
\* bears the owner's last name is the exception: the owner's rule goes first and
\* takes the name apart, so the rest of it waits for the analyzer.
\* (pseudonymize's docstring; mask_user, _scrub_contacts, _mask_names)
Own(w) == w \in Elements(Firsts) \cup {Surname} \/ Lower(w) \in DOMAIN Reached

KnownNamesStay ==
  \A given \in Given : texts' = Append(texts, given) =>
       LET out == sent'[Len(sent')] IN
       /\ \A i \in DOMAIN out : out[i].kind = "word" => ~Own(out[i].is)
       /\ \A c \in DOMAIN Contacts :
            Holds(Plain(given), Plain(Contacts[c])) /\ (\A w \in Elements(Contacts[c]) : ~Own(w)) =>
              \/ ~Holds(out, Plain(Contacts[c]))
              \/ \A w \in Elements(Contacts[c]) : Lower(w) \in Stopwords
       /\ \A name \in Spelt(names) : SubName(out, name, names[name]) = out

\* What comes back is what went out, whatever was masked after it: every tag in
\* every text of the draft still stands for the word it replaced.  The exception
\* is an analyzer that takes a tag for a name, which tags it twice.
\* (restore; the single allocators _person_tag and _tag_value)
RestoredAsGiven ==
  \A out \in {sent'}, given \in {texts'}, values \in {mapping'} : \A k \in DOMAIN out :
    \/ retagged'
    \/ \E back \in {Restore(out[k], values)} :
         /\ Len(back) = Len(given[k])
         /\ \A i \in DOMAIN back : Means(back[i]) = Means(Word(given[k][i]))

MaskingStep == RestoredAsGiven /\ KnownNamesStay
MaskingHolds == [][MaskingStep]_vars
=============================================================================

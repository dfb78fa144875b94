----------------------------- MODULE MCSideBySide -----------------------------
(* A small instance of every component of SideBySide.                          *)
EXTENDS SideBySide, TLC

CONSTANTS a1, a2, k1, web, daemon, w1, w2, d1, c1, c2, t1, t2, t3, b1, b2,
          n1, n2, f1, r1, m1, m2, s1, s2

MCProcessOf == w1 :> web @@ w2 :> web @@ d1 :> daemon
MCPendingBrowserOf == t1 :> b1 @@ t2 :> b1 @@ t3 :> b2
MCBrowserOf == [t \in {t1, t2} |-> b1]
MCAccountOf == [t \in {t1, t2} |-> k1]
MCKeyOf == "deepseek" :> "DEEPSEEK" @@ "nearai-glm" :> "NEARAI" @@ "nearai-gpt-oss" :> "NEARAI"
MCAddressOf == n1 :> k1 @@ n2 :> k1   \* two machines behind one key

MCLowers == "Ivan" :> "ivan" @@ "Diaz" :> "diaz" @@ "Carl" :> "carl" @@ "Anna" :> "anna" @@
            "Will" :> "will" @@ "Ira" :> "ira" @@ "Petrova" :> "petrova"
MCLower(w) == IF w \in DOMAIN MCLowers THEN MCLowers[w] ELSE w
\* What the tests' mails are made of: the owner's two first names, contacts in
\* two spellings, a name to share a word with one, a common word, the fence.
MCGiven == {<<"Olya", "petrova", "ivan", "diaz">>, <<"Carl", "Diaz">>, <<"Diaz">>,
            <<"Anna", "Carl">>, <<"Ira", "Petrova">>, <<"nonce", "Will", "Carl", "key1">>,
            <<"o@p", "key2", "key1">>, <<"Anna", "Diaz">>}
MCAliases == <<"Olya">>
MCReached == "o@p" :> "EMAIL" @@ "55501" :> "PHONE"
MCContacts == << <<"Ivan", "Diaz">>, <<"Ira", "Petrova">> >>
MCPatterned == "key1" :> "API_KEY" @@ "key2" :> "API_KEY"

MCLastTimes == [chat |-> 1, pending |-> 1, session |-> 3, tokens |-> 2, verdicts |-> 3,
                drafting |-> 3, voice |-> 1, certs |-> 5, client |-> 4, trail |-> 8,
                contact |-> 6, providers |-> 2]

\* Two tabs of one browser or threads of one process are alike; so are chats,
\* threads of the web process, accounts, and two messages of a kind, which are
\* exchanged all at once: each part has one or two of these pairs.
MCExchange == t1 :> t2 @@ t2 :> t1 @@ w1 :> w2 @@ w2 :> w1 @@ c1 :> c2 @@ c2 :> c1 @@
              a1 :> a2 @@ a2 :> a1 @@ m1 :> m2 @@ m2 :> m1 @@ s1 :> s2 @@ s2 :> s1
MCAlike == {MCExchange} \cup Permutations({t1, t2})
===============================================================================

--------------------------- MODULE AccountsProofs ---------------------------
(***************************************************************************)
(* Proofs about Accounts, for any addresses, names, cooldown keys and      *)
(* concurrent requests, and any number of links.                           *)
(***************************************************************************)
EXTENDS Accounts, FiniteSetTheorems, TLAPS

USE AccountsAssumption, NoneAssumption

\* Every token in sight was issued; Redis holds activation tokens only.
TokensIssued ==
    /\ redis \subseteq DOMAIN holder
    /\ \A t \in mailed \cup DOMAIN holder : t <= issued
    /\ \A t \in Token : uses[t] > 0 => t <= issued
    /\ \A e \in Email : newest[e].activation <= issued

\* The hash of a row is that of the last activation mail.
LinksAreNewest ==
    \A e \in Email : users[e] # None /\ users[e].link # NoToken =>
        users[e].link = newest[e].activation

\* A reset hash is that of the last reset mail, unused, and of one row.
ResetsAreNewest ==
    \A e \in Email : users[e] # None /\ users[e].reset # NoToken =>
        /\ users[e].reset = newest[e].reset
        /\ users[e].reset <= issued
        /\ users[e].reset \notin DOMAIN holder
        /\ uses[users[e].reset] = 0
        /\ \A f \in Email \ {e} : users[f] # None => users[f].reset # users[e].reset

\* A row without a hash has had a single activation mail.
LegacyHasOneLink ==
    \A e \in Email : users[e] # None /\ users[e].link = NoToken =>
        \A t \in mailed \cap DOMAIN holder :
            holder[t].email = e => t = newest[e].activation

\* Whoever used a link is active, and stays so.
UsedLinksAreDone ==
    \A t \in DOMAIN holder : uses[t] > 0 =>
        users[holder[t].email] # None /\ users[holder[t].email].active

\* What makes the last link of an address work.
LatestLinkKnown ==
    \A e \in Email :
        newest[e].activation \in redis /\ ~(users[e] # None /\ users[e].active) =>
            /\ users[e] # None
            /\ holder[newest[e].activation] = [email |-> e, name |-> users[e].name]
            /\ \/ users[e].link = NoToken
               \/ users[e].link = newest[e].activation /\ users[e].linkFresh

Core == /\ TokensIssued
        /\ LinksAreNewest
        /\ ResetsAreNewest
        /\ LegacyHasOneLink
        /\ UsedLinksAreDone
        /\ LatestLinkKnown

\* A running activation has a token that was mailed.
TasksKnow ==
    \A k \in Task : task[k] # None /\ task[k].kind = "activate" =>
        task[k].token \in mailed \cap DOMAIN holder

\* The request has opened window c and not used it yet.
Pays(k, c) ==
    /\ task[k] # None
    /\ \/ task[k].kind = "resend" /\ c = <<"resend", Norm[task[k].email]>>
       \/ task[k].kind = "reset" /\ c = <<"reset", task[k].email>>

Payers(c) == {k \in Task : Pays(k, c)}

WindowsPaid == \A c \in Cooldown : Cardinality(Payers(c)) <= credit[c]

IndInv == TypeOK /\ Core /\ TasksKnow /\ SessionsHaveTheirUser /\ WindowsPaid

coreVars == <<users, redis, holder, issued, mailed, newest, uses>>

LEMMA CoreUnchanged == ASSUME Core, UNCHANGED coreVars PROVE Core'
BY DEF Core, TokensIssued, LinksAreNewest, ResetsAreNewest, LegacyHasOneLink,
       UsedLinksAreDone, LatestLinkKnown, coreVars

-----------------------------------------------------------------------------
(* Windows and their mails                                                 *)

LEMMA SomeTasks ==
  ASSUME NEW K \in SUBSET Task
  PROVE  IsFiniteSet(K) /\ Cardinality(K) \in Nat
BY FS_Subset, FS_CardinalityType

LEMMA FewerTasks ==
  ASSUME NEW K \in SUBSET Task, NEW L \in SUBSET K
  PROVE  Cardinality(L) <= Cardinality(K)
<1>1. IsFiniteSet(K)
  BY SomeTasks
<1>. QED BY <1>1, FS_Subset

LEMMA OneMoreTask ==
  ASSUME NEW K \in SUBSET Task, NEW k \in Task
  PROVE  Cardinality(K \cup {k}) <= Cardinality(K) + 1
<1>1. IsFiniteSet(K) /\ Cardinality(K) \in Nat
  BY SomeTasks
<1>2. CASE k \in K
  <2>1. K \cup {k} = K
    BY <1>2
  <2>2. Cardinality(K \cup {k}) = Cardinality(K)
    BY <2>1
  <2>. QED BY <1>1, <2>2
<1>3. CASE k \notin K
  <2>1. Cardinality(K \cup {k}) = Cardinality(K) + 1
    BY <1>1, <1>3, FS_AddElement
  <2>. QED BY <1>1, <2>1
<1>. QED BY <1>2, <1>3

LEMMA OneTaskLess ==
  ASSUME NEW K \in SUBSET Task, NEW k \in K
  PROVE  Cardinality(K \ {k}) = Cardinality(K) - 1
<1>1. IsFiniteSet(K)
  BY SomeTasks
<1>. QED BY <1>1, FS_RemoveElement

\* A request that ends, or has not opened a window, takes nothing away.
LEMMA WindowsStayPaid ==
  ASSUME TypeOK, WindowsPaid, credit' = credit,
         \A k \in Task, c \in Cooldown : Pays(k, c)' => Pays(k, c)
  PROVE  WindowsPaid'
<1>. SUFFICES ASSUME NEW c \in Cooldown
              PROVE  Cardinality(Payers(c)') <= credit[c]
  BY DEF WindowsPaid
<1>1. Payers(c) \in SUBSET Task /\ Payers(c)' \in SUBSET Payers(c)
  BY DEF Payers
<1>2. /\ Cardinality(Payers(c)') <= Cardinality(Payers(c))
      /\ Cardinality(Payers(c)') \in Nat
      /\ Cardinality(Payers(c)) \in Nat
  BY <1>1, FewerTasks, SomeTasks
<1>3. Cardinality(Payers(c)) <= credit[c] /\ credit[c] \in Int
  BY DEF WindowsPaid, TypeOK
<1>. QED BY <1>2, <1>3

\* A request opens window w.
LEMMA WindowOpened ==
  ASSUME TypeOK, WindowsPaid, NEW k \in Task, NEW w \in Cooldown,
         credit' = [credit EXCEPT ![w] = @ + 1],
         \A c \in Cooldown : Payers(c)' \subseteq Payers(c) \cup {k},
         \A c \in Cooldown \ {w} : Payers(c)' \subseteq Payers(c)
  PROVE  WindowsPaid'
<1>. SUFFICES ASSUME NEW c \in Cooldown
              PROVE  Cardinality(Payers(c)') <= credit'[c]
  BY DEF WindowsPaid
<1>1. /\ Payers(c) \in SUBSET Task
      /\ Cardinality(Payers(c)) \in Nat
      /\ Cardinality(Payers(c)) <= credit[c]
      /\ credit[c] \in Int
  BY SomeTasks DEF Payers, WindowsPaid, TypeOK
<1>2. CASE c = w
  <2>1. Payers(c)' \in SUBSET (Payers(c) \cup {k}) /\ Payers(c) \cup {k} \in SUBSET Task
    BY DEF Payers
  <2>2. Cardinality(Payers(c)') <= Cardinality(Payers(c) \cup {k})
    BY <2>1, FewerTasks
  <2>3. Cardinality(Payers(c) \cup {k}) <= Cardinality(Payers(c)) + 1
    BY <1>1, OneMoreTask
  <2>4. Cardinality(Payers(c)') \in Nat /\ Cardinality(Payers(c) \cup {k}) \in Nat
    BY <2>1, SomeTasks
  <2>5. credit'[c] = credit[c] + 1
    BY <1>2 DEF TypeOK
  <2>. QED BY <1>1, <2>2, <2>3, <2>4, <2>5
<1>3. CASE c # w
  <2>1. Payers(c)' \in SUBSET Payers(c)
    BY <1>3 DEF Payers
  <2>2. /\ Cardinality(Payers(c)') <= Cardinality(Payers(c))
        /\ Cardinality(Payers(c)') \in Nat
    BY <1>1, <2>1, FewerTasks, SomeTasks
  <2>3. credit'[c] = credit[c]
    BY <1>3 DEF TypeOK
  <2>. QED BY <1>1, <2>2, <2>3
<1>. QED BY <1>2, <1>3

\* A request spends the window w it has opened and ends.
LEMMA WindowSpent ==
  ASSUME TypeOK, WindowsPaid, NEW k \in Task, NEW w \in Cooldown,
         Pays(k, w), credit' = [credit EXCEPT ![w] = @ - 1], Done(k)
  PROVE  WindowsPaid'
<1>. SUFFICES ASSUME NEW c \in Cooldown
              PROVE  Cardinality(Payers(c)') <= credit'[c]
  BY DEF WindowsPaid
<1>1. /\ Payers(c) \in SUBSET Task
      /\ Cardinality(Payers(c)) \in Nat
      /\ Cardinality(Payers(c)) <= credit[c]
      /\ credit[c] \in Int
  BY SomeTasks DEF Payers, WindowsPaid, TypeOK
<1>2. Payers(c)' = Payers(c) \ {k}
  BY DEF Payers, Pays, Done, TypeOK
<1>3. CASE c = w
  <2>1. k \in Payers(c)
    BY <1>3 DEF Payers
  <2>2. Cardinality(Payers(c)') = Cardinality(Payers(c)) - 1
    BY <1>1, <1>2, <2>1, OneTaskLess
  <2>3. credit'[c] = credit[c] - 1
    BY <1>3 DEF TypeOK
  <2>. QED BY <1>1, <2>2, <2>3
<1>4. CASE c # w
  <2>1. /\ Cardinality(Payers(c)') <= Cardinality(Payers(c))
        /\ Cardinality(Payers(c)') \in Nat
    BY <1>1, <1>2, FewerTasks, SomeTasks
  <2>2. credit'[c] = credit[c]
    BY <1>4 DEF TypeOK
  <2>. QED BY <1>1, <2>1, <2>2
<1>. QED BY <1>3, <1>4

-----------------------------------------------------------------------------
(* Tokens                                                                  *)

LEMMA InitIndInv == Init => IndInv
<1>. SUFFICES ASSUME Init PROVE IndInv
  OBVIOUS
<1>1. PICK legacy \in Email \cup {None}, n \in Name :
        /\ users = [e \in Email |-> IF e = legacy THEN Legacy(n) ELSE None]
        /\ created = IF legacy = None THEN 0 ELSE 1
        /\ newest = [e \in Email |-> IF e = legacy
                                     THEN [NoLinks EXCEPT !.activation = 1]
                                     ELSE NoLinks]
        /\ mailed = IF legacy = None THEN {} ELSE {1}
        /\ issued = Cardinality(mailed)
        /\ holder = [t \in mailed |-> [email |-> legacy, name |-> n]]
  BY DEF Init
<1>2. Legacy(n) \in Row /\ Legacy(n) # None
  <2>1. Legacy(n) \in Row
    BY DEF Legacy, Row, Token, NoToken
  <2>. QED BY <2>1
<1>3. issued = IF legacy = None THEN 0 ELSE 1
  BY <1>1, FS_EmptySet, FS_Singleton
<1>4. /\ redis = mailed /\ DOMAIN holder = mailed /\ cooldown = {} /\ sessions = {}
      /\ task = [k \in Task |-> None]
      /\ uses = [t \in Token |-> 0]
      /\ credit = [c \in Cooldown |-> 0] /\ windows = 0
  BY <1>1 DEF Init
<1>5. /\ NoLinks \in [activation : Token \cup {NoToken}, reset : Token \cup {NoToken}]
      /\ [NoLinks EXCEPT !.activation = 1]
            \in [activation : Token \cup {NoToken}, reset : Token \cup {NoToken}]
      /\ NoLinks.activation = 0
      /\ [NoLinks EXCEPT !.activation = 1].activation = 1
  BY DEF NoLinks, Token, NoToken
<1>6. mailed \in SUBSET Token
  BY <1>1 DEF Token
<1>7. TypeOK
  <2>1. users \in [Email -> Row \cup {None}]
    BY <1>1, <1>2
  <2>2. newest \in [Email -> [activation : Token \cup {NoToken},
                              reset : Token \cup {NoToken}]]
    BY <1>1, <1>5
  <2>3. /\ issued \in 0..MaxTokens /\ created \in 0..MaxAccounts
        /\ uses \in [Token -> 0..2] /\ credit \in [Cooldown -> Int]
        /\ windows \in 0..MaxWindows
    BY <1>1, <1>3, <1>4
  <2>4. \A t \in DOMAIN holder : holder[t] \in [email : Email, name : Name]
    BY <1>1
  <2>5. task \in [Task -> Request \cup {None}]
    BY <1>4
  <2>6. \A e, f \in Email : users[e] # None /\ users[f] # None /\ e # f
                               => users[e].name # users[f].name
    BY <1>1
  <2>. QED BY <1>4, <1>6, <2>1, <2>2, <2>3, <2>4, <2>5, <2>6 DEF TypeOK
<1>8. Core
  <2>1. TokensIssued
    <3>1. \A e \in Email : newest[e].activation <= issued
      BY <1>1, <1>3, <1>5
    <3>. QED BY <1>1, <1>3, <1>4, <3>1 DEF TokensIssued
  <2>2. LinksAreNewest /\ ResetsAreNewest
    BY <1>1 DEF LinksAreNewest, ResetsAreNewest, Legacy
  <2>3. LegacyHasOneLink
    BY <1>1, <1>5 DEF LegacyHasOneLink
  <2>4. UsedLinksAreDone
    BY <1>4, <1>6 DEF UsedLinksAreDone
  <2>5. LatestLinkKnown
    BY <1>1, <1>4, <1>5, <1>2, <1>6 DEF LatestLinkKnown, Legacy, NoToken, Token
  <2>. QED BY <2>1, <2>2, <2>3, <2>4, <2>5 DEF Core
<1>9. TasksKnow /\ SessionsHaveTheirUser
  BY <1>4 DEF TasksKnow, SessionsHaveTheirUser
<1>10. WindowsPaid
  <2>1. \A c \in Cooldown : Payers(c) = {}
    BY <1>4 DEF Payers, Pays
  <2>2. Cardinality({}) = 0
    BY FS_EmptySet
  <2>. QED BY <1>4, <2>1, <2>2 DEF WindowsPaid
<1>. QED BY <1>7, <1>8, <1>9, <1>10 DEF IndInv

\* A token that goes to Redis is new, and the ones before it keep their data.
LEMMA FreshToken ==
  ASSUME TypeOK, TokensIssued, NEW e \in Email, NEW n \in Name,
         CreateActivationToken(e, n)
  PROVE  /\ issued' = issued + 1 /\ issued' \in Token /\ issued' \in 0..MaxTokens
         /\ issued' \notin mailed \cup DOMAIN holder
         /\ uses[issued'] = 0
         /\ redis' = redis \cup {issued'}
         /\ DOMAIN holder' = DOMAIN holder \cup {issued'}
         /\ \A t \in DOMAIN holder : holder'[t] = holder[t]
         /\ holder'[issued'] = [email |-> e, name |-> n]
         /\ \A t \in DOMAIN holder' : holder'[t] \in [email : Email, name : Name]
<1>1. issued' = issued + 1 /\ issued' \in Token /\ issued' \in 0..MaxTokens
  BY DEF CreateActivationToken, TypeOK, Token
<1>2. issued' \notin mailed \cup DOMAIN holder
  BY <1>1 DEF TokensIssued, TypeOK
<1>3. uses[issued'] = 0
  BY <1>1 DEF TokensIssued, TypeOK
<1>4. /\ redis' = redis \cup {issued'}
      /\ holder' = [t \in DOMAIN holder \cup {issued'} |->
                      IF t = issued' THEN [email |-> e, name |-> n] ELSE holder[t]]
  BY DEF CreateActivationToken
<1>5. /\ DOMAIN holder' = DOMAIN holder \cup {issued'}
      /\ \A t \in DOMAIN holder : holder'[t] = holder[t]
      /\ holder'[issued'] = [email |-> e, name |-> n]
  BY <1>2, <1>4
<1>6. \A t \in DOMAIN holder' : holder'[t] \in [email : Email, name : Name]
  BY <1>5 DEF TypeOK
<1>. QED BY <1>1, <1>2, <1>3, <1>4, <1>5, <1>6

LEMMA NewTokenType ==
  ASSUME TypeOK, NEW t \in Token, redis' = redis \cup {t},
         DOMAIN holder' = DOMAIN holder \cup {t}
  PROVE  /\ redis' \in SUBSET Token
         /\ DOMAIN holder' \in SUBSET Token
         /\ DOMAIN holder \subseteq DOMAIN holder'
BY DEF TypeOK

\* The row, the token and the mail of a new link, for a row that is new or
\* was there and is not active.
LEMMA QueuedLink ==
  ASSUME TypeOK, Core, NEW e \in Email, NEW u \in Row, QueueActivation(e, u),
         users[e] # None => users[e] = u,
         users[e] = None => u.reset = NoToken /\ ~NameTaken(u.name),
         ~u.active, uses' = uses
  PROVE  /\ Core'
         /\ users' \in [Email -> Row \cup {None}]
         /\ mailed' \in SUBSET Token
         /\ newest' \in [Email -> [activation : Token \cup {NoToken},
                                   reset : Token \cup {NoToken}]]
         /\ \A f, g \in Email : users'[f] # None /\ users'[g] # None /\ f # g
                                   => users'[f].name # users'[g].name
         /\ \A f \in Email \ {e} : users'[f] = users[f]
<1>. USE DEF Core
<1>. DEFINE t == issued'
<1>1. u.name \in Name /\ CreateActivationToken(e, u.name)
  BY DEF QueueActivation, Row
<1>2. /\ t = issued + 1 /\ t \in Token /\ t # NoToken
      /\ t \notin mailed \cup DOMAIN holder
      /\ uses[t] = 0
      /\ redis' = redis \cup {t}
      /\ DOMAIN holder' = DOMAIN holder \cup {t}
      /\ \A x \in DOMAIN holder : holder'[x] = holder[x]
      /\ holder'[t] = [email |-> e, name |-> u.name]
  <2>1. t \in Token => t # NoToken
    BY DEF Token, NoToken
  <2>. QED BY <1>1, <2>1, FreshToken
<1>3. /\ users' = [users EXCEPT ![e] = [u EXCEPT !.link = t, !.linkFresh = TRUE]]
      /\ mailed' = mailed \cup {t}
      /\ newest' = [newest EXCEPT ![e].activation = t]
  BY DEF QueueActivation
<1>. HIDE DEF t
<1>4. /\ users'[e] \in Row /\ users'[e] # None
      /\ users'[e].link = t /\ users'[e].linkFresh
      /\ users'[e].name = u.name /\ users'[e].active = u.active
      /\ users'[e].reset = u.reset
  <2>1. users'[e] = [u EXCEPT !.link = t, !.linkFresh = TRUE]
    BY <1>3 DEF TypeOK
  <2>2. users'[e] \in Row
    BY <1>2, <2>1 DEF Row
  <2>3. users'[e] # None
    BY <2>2
  <2>. QED BY <2>1, <2>2, <2>3 DEF Row
<1>5. /\ newest'[e].activation = t /\ newest'[e].reset = newest[e].reset
      /\ newest'[e] \in [activation : Token \cup {NoToken},
                         reset : Token \cup {NoToken}]
  BY <1>2, <1>3 DEF TypeOK
<1>6. \A f \in Email \ {e} : users'[f] = users[f] /\ newest'[f] = newest[f]
  BY <1>3 DEF TypeOK
<1>7. /\ users' \in [Email -> Row \cup {None}]
      /\ newest' \in [Email -> [activation : Token \cup {NoToken},
                                reset : Token \cup {NoToken}]]
      /\ mailed' \in SUBSET Token
  BY <1>2, <1>3, <1>4, <1>5, <1>6 DEF TypeOK
<1>8. \A f, g \in Email : users'[f] # None /\ users'[g] # None /\ f # g
                             => users'[f].name # users'[g].name
  <2>1. \A f \in Email \ {e} : users[f] # None => users[f].name # u.name
    BY DEF TypeOK, NameTaken
  <2>. QED BY <1>4, <1>6, <2>1 DEF TypeOK
<1>9. TokensIssued'
  <2>1. issued \in Nat /\ issued <= issued'
    BY <1>2 DEF TypeOK, t
  <2>2. redis' \subseteq DOMAIN holder'
    BY <1>2 DEF TokensIssued
  <2>3. \A x \in mailed' \cup DOMAIN holder' : x <= issued'
    BY <1>2, <1>3, <2>1 DEF TokensIssued, TypeOK, t, Token
  <2>4. \A x \in Token : uses[x] > 0 => x <= issued'
    <3>1. issued' \in Nat
      BY <1>2 DEF t, Token
    <3>. QED BY <2>1, <3>1 DEF TokensIssued, Token
  <2>5. \A f \in Email : newest'[f].activation <= issued'
    <3>1. newest'[e].activation <= issued'
      BY <1>5, <1>2 DEF t
    <3>2. ASSUME NEW f \in Email \ {e} PROVE newest'[f].activation <= issued'
      <4>1. newest'[f] = newest[f] /\ newest[f].activation <= issued
        BY <1>6 DEF TokensIssued
      <4>2. newest[f].activation \in Nat
        BY DEF TypeOK, Token, NoToken
      <4>. QED BY <2>1, <4>1, <4>2, <1>2 DEF t
    <3>. QED BY <3>1, <3>2
  <2>. QED BY <2>2, <2>3, <2>4, <2>5 DEF TokensIssued
<1>10. LinksAreNewest'
  BY <1>4, <1>5, <1>6 DEF LinksAreNewest
<1>11. ResetsAreNewest'
  <2>1. \A f \in Email : users'[f] # None /\ users'[f].reset # NoToken =>
           users[f] # None /\ users'[f].reset = users[f].reset
                           /\ newest'[f].reset = newest[f].reset
    BY <1>4, <1>5, <1>6
  <2>2. ASSUME NEW f \in Email, users[f] # None, users[f].reset # NoToken
        PROVE  users[f].reset <= issued' /\ users[f].reset \notin DOMAIN holder'
    <3>1. users[f].reset <= issued /\ users[f].reset \notin DOMAIN holder
      BY <2>2 DEF ResetsAreNewest
    <3>2. users[f].reset \in Nat /\ issued \in Nat
      BY <2>2 DEF TypeOK, Row, Token, NoToken
    <3>. QED BY <1>2, <3>1, <3>2 DEF t
  <2>. QED BY <2>1, <2>2 DEF ResetsAreNewest
<1>12. LegacyHasOneLink'
  <2>. SUFFICES ASSUME NEW f \in Email, users'[f] # None, users'[f].link = NoToken,
                       NEW x \in mailed' \cap DOMAIN holder', holder'[x].email = f
                PROVE  x = newest'[f].activation
    BY DEF LegacyHasOneLink
  <2>1. f # e
    BY <1>2, <1>4
  <2>2. x # t
    BY <1>2, <2>1
  <2>. QED BY <1>2, <1>3, <1>6, <2>1, <2>2 DEF LegacyHasOneLink
<1>13. UsedLinksAreDone'
  <2>. SUFFICES ASSUME NEW x \in DOMAIN holder', uses[x] > 0
                PROVE  users'[holder'[x].email] # None /\ users'[holder'[x].email].active
    BY DEF UsedLinksAreDone
  <2>1. x \in DOMAIN holder /\ holder'[x] = holder[x]
    BY <1>2
  <2>2. holder[x].email \in Email /\ users[holder[x].email] # None
                                  /\ users[holder[x].email].active
    BY <2>1 DEF UsedLinksAreDone, TypeOK
  <2>3. holder[x].email # e
    BY <2>2
  <2>. QED BY <1>6, <2>1, <2>2, <2>3
<1>14. LatestLinkKnown'
  <2>. SUFFICES ASSUME NEW f \in Email, newest'[f].activation \in redis',
                       ~(users'[f] # None /\ users'[f].active)
                PROVE  /\ users'[f] # None
                       /\ holder'[newest'[f].activation] =
                             [email |-> f, name |-> users'[f].name]
                       /\ \/ users'[f].link = NoToken
                          \/ /\ users'[f].link = newest'[f].activation
                             /\ users'[f].linkFresh
    BY DEF LatestLinkKnown
  <2>1. CASE f = e
    BY <1>2, <1>4, <1>5, <2>1
  <2>2. CASE f # e
    <3>1. newest[f].activation <= issued
      BY DEF TokensIssued
    <3>2. newest[f].activation # t
      BY <1>2, <3>1 DEF TypeOK
    <3>3. newest[f].activation \in redis /\ newest[f].activation \in DOMAIN holder
      BY <1>2, <1>6, <2>2, <3>2 DEF TokensIssued
    <3>. QED BY <1>2, <1>6, <2>2, <3>3 DEF LatestLinkKnown
  <2>. QED BY <2>1, <2>2
<1>. QED BY <1>6, <1>7, <1>8, <1>9, <1>10, <1>11, <1>12, <1>13, <1>14

-----------------------------------------------------------------------------
(* Requests                                                                *)

LEMMA StartedTask ==
  ASSUME TypeOK, NEW k \in Task, NEW r \in Request, Start(k, r)
  PROVE  /\ task' \in [Task -> Request \cup {None}]
         /\ task[k] = None /\ task'[k] = r /\ r # None
         /\ \A j \in Task \ {k} : task'[j] = task[j]
BY DEF Start, TypeOK

LEMMA EndedTask ==
  ASSUME TypeOK, NEW k \in Task, Done(k)
  PROVE  /\ task' \in [Task -> Request \cup {None}]
         /\ \A j \in Task : task'[j] = task[j] \/ task'[j] = None
         /\ \A j \in Task, c \in Cooldown : Pays(j, c)' => Pays(j, c)
<1>1. /\ task' \in [Task -> Request \cup {None}]
      /\ \A j \in Task : task'[j] = task[j] \/ task'[j] = None
  BY DEF Done, TypeOK
<1>2. \A j \in Task, c \in Cooldown : Pays(j, c)' => Pays(j, c)
  BY <1>1 DEF Pays
<1>. QED BY <1>1, <1>2

LEMMA TasksStillKnow ==
  ASSUME TasksKnow, mailed \subseteq mailed', DOMAIN holder \subseteq DOMAIN holder',
         \A k \in Task : task'[k] = task[k] \/ task'[k] = None
  PROVE  TasksKnow'
BY DEF TasksKnow

LEMMA SessionsKept ==
  ASSUME TypeOK, SessionsHaveTheirUser, sessions' = sessions,
         \A e \in Email : users[e] # None /\ users[e].active =>
            users'[e] # None /\ users'[e].active /\ users'[e].id = users[e].id
  PROVE  SessionsHaveTheirUser'
BY DEF SessionsHaveTheirUser, CurrentUser, TypeOK

LEMMA KindsOfRequest ==
  ASSUME NEW r \in Request
  PROVE  /\ r.kind \in {"register", "resend", "reset", "activate"}
         /\ r.kind \in {"register", "resend", "reset"} => r.email \in Email
         /\ r.kind = "register" => r.name \in Name
         /\ r.kind = "activate" => r.token \in Token
BY DEF Request

LEMMA RegisterCheckPreserves ==
  ASSUME IndInv, NEW k \in Task, NEW e \in Email, NEW n \in Name, RegisterCheck(k, e, n)
  PROVE  IndInv'
<1>. USE DEF IndInv
<1>. DEFINE r == [kind |-> "register", email |-> e, name |-> n]
<1>1. r \in Request /\ r.kind = "register" /\ Start(k, r)
  BY DEF RegisterCheck, Request
<1>2. UNCHANGED <<users, redis, holder, cooldown, issued, mailed, newest, uses,
                  credit, windows, created, sessions>>
  BY DEF RegisterCheck, stores, history
<1>. HIDE DEF r
<1>3. TypeOK'
  BY <1>1, <1>2, StartedTask DEF TypeOK
<1>4. Core'
  BY <1>2, CoreUnchanged DEF coreVars
<1>5. TasksKnow'
  BY <1>1, <1>2, StartedTask DEF TasksKnow
<1>6. SessionsHaveTheirUser'
  BY <1>2, SessionsKept
<1>7. \A j \in Task, c \in Cooldown : Pays(j, c)' => Pays(j, c)
  BY <1>1, StartedTask DEF Pays
<1>8. WindowsPaid'
  BY <1>2, <1>7, WindowsStayPaid
<1>. QED BY <1>3, <1>4, <1>5, <1>6, <1>8

\* The two cooldowns: a window opens for the request that runs.
LEMMA ThrottlePreserves ==
  ASSUME IndInv, NEW k \in Task, NEW r \in Request, NEW w \in Cooldown,
         OpenWindow(w), Start(k, r),
         \/ r.kind = "resend" /\ w = <<"resend", Norm[r.email]>>
         \/ r.kind = "reset" /\ w = <<"reset", r.email>>,
         UNCHANGED <<users, redis, holder, issued, mailed, newest, uses, created, sessions>>
  PROVE  IndInv'
<1>. USE DEF IndInv
<1>1. /\ windows' \in 0..MaxWindows
      /\ cooldown' \in SUBSET Cooldown
      /\ credit' = [credit EXCEPT ![w] = @ + 1]
  BY DEF OpenWindow, TypeOK
<1>2. credit' \in [Cooldown -> Int]
  BY <1>1 DEF TypeOK
<1>3. TypeOK'
  BY <1>1, <1>2, StartedTask DEF TypeOK
<1>4. Core'
  BY CoreUnchanged DEF coreVars
<1>5. TasksKnow'
  BY StartedTask DEF TasksKnow
<1>6. SessionsHaveTheirUser'
  BY SessionsKept
<1>7. /\ \A c \in Cooldown : Payers(c)' \subseteq Payers(c) \cup {k}
      /\ \A c \in Cooldown \ {w} : Payers(c)' \subseteq Payers(c)
  BY StartedTask DEF Payers, Pays
<1>8. WindowsPaid'
  BY <1>1, <1>7, WindowOpened
<1>. QED BY <1>3, <1>4, <1>5, <1>6, <1>8

LEMMA ActivateVerifyPreserves ==
  ASSUME IndInv, NEW k \in Task, NEW t \in Token, ActivateVerify(k, t)
  PROVE  IndInv'
<1>. USE DEF IndInv
<1>. DEFINE r == [kind |-> "activate", token |-> t]
<1>1. r \in Request /\ r.kind = "activate" /\ r.token = t /\ Start(k, r)
  BY DEF ActivateVerify, Request
<1>2. /\ UNCHANGED <<users, redis, holder, cooldown, issued, mailed, newest, uses,
                     credit, windows, created, sessions>>
      /\ t \in mailed \cap DOMAIN holder
  BY DEF ActivateVerify, stores, history, Core, TokensIssued
<1>. HIDE DEF r
<1>3. TypeOK'
  BY <1>1, <1>2, StartedTask DEF TypeOK
<1>4. Core'
  BY <1>2, CoreUnchanged DEF coreVars
<1>5. TasksKnow'
  BY <1>1, <1>2, StartedTask DEF TasksKnow
<1>6. SessionsHaveTheirUser'
  BY <1>2, SessionsKept
<1>7. \A j \in Task, c \in Cooldown : Pays(j, c)' => Pays(j, c)
  BY <1>1, StartedTask DEF Pays
<1>8. WindowsPaid'
  BY <1>2, <1>7, WindowsStayPaid
<1>. QED BY <1>3, <1>4, <1>5, <1>6, <1>8

LEMMA AbandonPreserves ==
  ASSUME IndInv, NEW k \in Task, Abandon(k)
  PROVE  IndInv'
<1>. USE DEF IndInv
<1>1. UNCHANGED <<users, redis, holder, cooldown, issued, mailed, newest, uses,
                  credit, windows, created, sessions>>
  BY DEF Abandon, stores, history
<1>2. Done(k)
  BY DEF Abandon
<1>3. TypeOK'
  BY <1>1, <1>2, EndedTask DEF TypeOK
<1>4. Core'
  BY <1>1, CoreUnchanged DEF coreVars
<1>5. TasksKnow' /\ SessionsHaveTheirUser' /\ WindowsPaid'
  BY <1>1, <1>2, EndedTask, TasksStillKnow, SessionsKept, WindowsStayPaid
<1>. QED BY <1>3, <1>4, <1>5

LEMMA RegisterInsertPreserves ==
  ASSUME IndInv, NEW k \in Task, RegisterInsert(k)
  PROVE  IndInv'
<1>. USE DEF IndInv
<1>. DEFINE r == task[k]
<1>1. /\ r \in Request /\ r.kind = "register" /\ r.email \in Email /\ r.name \in Name
      /\ Done(k) /\ UNCHANGED <<cooldown, uses, credit, windows, sessions>>
  BY KindsOfRequest DEF RegisterInsert, TypeOK
<1>2. CASE NameTaken(r.name) \/ users[r.email] # None
  <2>1. UNCHANGED <<users, redis, holder, issued, mailed, newest, created>>
    BY <1>2 DEF RegisterInsert
  <2>2. TypeOK' /\ Core'
    BY <1>1, <2>1, EndedTask, CoreUnchanged DEF TypeOK, coreVars
  <2>3. TasksKnow' /\ SessionsHaveTheirUser' /\ WindowsPaid'
    BY <1>1, <2>1, EndedTask, TasksStillKnow, SessionsKept, WindowsStayPaid
  <2>. QED BY <2>2, <2>3
<1>3. CASE ~NameTaken(r.name) /\ users[r.email] = None
  <2>. DEFINE u == NewUser(r.name)
  <2>1. /\ created < MaxAccounts /\ created' = created + 1
        /\ QueueActivation(r.email, u)
    BY <1>3 DEF RegisterInsert
  <2>2. /\ u \in Row /\ ~u.active /\ u.reset = NoToken /\ u.name = r.name
        /\ created' \in 0..MaxAccounts
    <3>1. created + 1 \in 1..MaxAccounts /\ created + 1 \in 0..MaxAccounts
      BY <2>1 DEF TypeOK
    <3>. QED BY <1>1, <2>1, <3>1 DEF NewUser, Legacy, Row, NoToken
  <2>. HIDE DEF u
  <2>3. CreateActivationToken(r.email, u.name) /\ mailed \subseteq mailed'
    BY <2>1 DEF QueueActivation
  <2>4. /\ Core'
        /\ users' \in [Email -> Row \cup {None}]
        /\ mailed' \in SUBSET Token
        /\ newest' \in [Email -> [activation : Token \cup {NoToken},
                                  reset : Token \cup {NoToken}]]
        /\ \A f, g \in Email : users'[f] # None /\ users'[g] # None /\ f # g
                                  => users'[f].name # users'[g].name
        /\ \A f \in Email \ {r.email} : users'[f] = users[f]
    BY <1>1, <1>3, <2>1, <2>2, QueuedLink
  <2>5. /\ issued' \in 0..MaxTokens
        /\ redis' \in SUBSET Token
        /\ DOMAIN holder' \in SUBSET Token
        /\ DOMAIN holder \subseteq DOMAIN holder'
        /\ \A t \in DOMAIN holder' : holder'[t] \in [email : Email, name : Name]
    <3>1. TokensIssued
      BY DEF Core
    <3>. QED BY <1>1, <2>2, <2>3, <3>1, FreshToken, NewTokenType
  <2>6. TypeOK'
    BY <1>1, <2>2, <2>4, <2>5, EndedTask DEF TypeOK
  <2>7. TasksKnow' /\ WindowsPaid'
    BY <1>1, <2>3, <2>5, EndedTask, TasksStillKnow, WindowsStayPaid
  <2>8. SessionsHaveTheirUser'
    BY <1>1, <1>3, <2>4, SessionsKept
  <2>. QED BY <2>4, <2>6, <2>7, <2>8
<1>. QED BY <1>2, <1>3

LEMMA ResendPreserves ==
  ASSUME IndInv, NEW k \in Task, Resend(k)
  PROVE  IndInv'
<1>. USE DEF IndInv
<1>. DEFINE r == task[k]
            w == <<"resend", Norm[r.email]>>
<1>1. /\ r \in Request /\ r # None /\ r.kind = "resend" /\ r.email \in Email
      /\ Done(k) /\ UNCHANGED <<cooldown, uses, windows, created, sessions>>
  BY KindsOfRequest DEF Resend, TypeOK
<1>2. CASE ~Inactive(r.email)
  <2>1. UNCHANGED <<users, redis, holder, issued, mailed, newest, credit>>
    BY <1>2 DEF Resend
  <2>2. TypeOK' /\ Core'
    BY <1>1, <2>1, EndedTask, CoreUnchanged DEF TypeOK, coreVars
  <2>3. TasksKnow' /\ SessionsHaveTheirUser' /\ WindowsPaid'
    BY <1>1, <2>1, EndedTask, TasksStillKnow, SessionsKept, WindowsStayPaid
  <2>. QED BY <2>2, <2>3
<1>3. CASE Inactive(r.email)
  <2>. DEFINE u == users[r.email]
  <2>1. QueueActivation(r.email, u) /\ credit' = [credit EXCEPT ![w] = @ - 1]
    BY <1>3 DEF Resend
  <2>2. u \in Row /\ ~u.active /\ u # None /\ u.name \in Name
    BY <1>1, <1>3 DEF Inactive, TypeOK, Row
  <2>3. w \in Cooldown /\ Pays(k, w)
    BY <1>1 DEF Cooldown, Pays
  <2>. HIDE DEF w
  <2>4. CreateActivationToken(r.email, u.name) /\ mailed \subseteq mailed'
    BY <2>1 DEF QueueActivation
  <2>5. /\ Core'
        /\ users' \in [Email -> Row \cup {None}]
        /\ mailed' \in SUBSET Token
        /\ newest' \in [Email -> [activation : Token \cup {NoToken},
                                  reset : Token \cup {NoToken}]]
        /\ \A f, g \in Email : users'[f] # None /\ users'[g] # None /\ f # g
                                  => users'[f].name # users'[g].name
        /\ \A f \in Email \ {r.email} : users'[f] = users[f]
    BY <1>1, <2>1, <2>2, QueuedLink
  <2>6. /\ issued' \in 0..MaxTokens
        /\ redis' \in SUBSET Token
        /\ DOMAIN holder' \in SUBSET Token
        /\ DOMAIN holder \subseteq DOMAIN holder'
        /\ \A t \in DOMAIN holder' : holder'[t] \in [email : Email, name : Name]
    <3>1. TokensIssued
      BY DEF Core
    <3>. QED BY <1>1, <2>2, <2>4, <3>1, FreshToken, NewTokenType
  <2>7. credit' \in [Cooldown -> Int]
    BY <2>1, <2>3 DEF TypeOK
  <2>8. TypeOK'
    BY <1>1, <2>5, <2>6, <2>7, EndedTask DEF TypeOK
  <2>9. TasksKnow'
    BY <1>1, <2>4, <2>6, EndedTask, TasksStillKnow
  <2>10. WindowsPaid'
    BY <1>1, <2>1, <2>3, WindowSpent
  <2>11. SessionsHaveTheirUser'
    BY <1>1, <2>2, <2>5, SessionsKept
  <2>. QED BY <2>5, <2>8, <2>9, <2>10, <2>11
<1>. QED BY <1>2, <1>3

\* A token that stays behind in Redis changes nothing for anybody.
LEMMA RollBackPreserves ==
  ASSUME IndInv, NEW k \in Task, RollBack(k)
  PROVE  IndInv'
<1>. USE DEF IndInv
<1>. DEFINE r == task[k]
            t == issued'
<1>1. /\ r \in Request /\ r.kind \in {"register", "resend"} /\ r.email \in Email
      /\ Done(k)
      /\ UNCHANGED <<users, cooldown, mailed, newest, uses, credit, windows, created,
                     sessions>>
  BY KindsOfRequest DEF RollBack, TypeOK, history
<1>2. PICK n \in Name : CreateActivationToken(r.email, n)
  <2>1. CASE r.kind = "register"
    BY <1>1, <2>1, KindsOfRequest DEF RollBack
  <2>2. CASE r.kind # "register"
    <3>1. Inactive(r.email) /\ CreateActivationToken(r.email, users[r.email].name)
      BY <1>1, <2>2 DEF RollBack
    <3>2. users[r.email].name \in Name
      BY <1>1, <3>1 DEF Inactive, TypeOK, Row
    <3>. QED BY <3>1, <3>2
  <2>. QED BY <2>1, <2>2
<1>3. TokensIssued
  BY DEF Core
<1>4. /\ t = issued + 1 /\ t \in Token /\ t \in 0..MaxTokens
      /\ t \notin mailed \cup DOMAIN holder
      /\ uses[t] = 0
      /\ redis' = redis \cup {t}
      /\ DOMAIN holder' = DOMAIN holder \cup {t}
      /\ \A x \in DOMAIN holder : holder'[x] = holder[x]
      /\ \A x \in DOMAIN holder' : holder'[x] \in [email : Email, name : Name]
  BY <1>1, <1>2, <1>3, FreshToken
<1>. HIDE DEF t
<1>5. redis' \in SUBSET Token /\ DOMAIN holder' \in SUBSET Token
  BY <1>4, NewTokenType
<1>6. TypeOK'
  BY <1>1, <1>4, <1>5, EndedTask DEF TypeOK, t
<1>7. issued \in Nat /\ t \in Nat /\ issued <= t
  BY <1>4 DEF TypeOK
<1>8. TokensIssued'
  <2>1. redis' \subseteq DOMAIN holder'
    BY <1>3, <1>4 DEF TokensIssued
  <2>2. \A x \in mailed \cup DOMAIN holder' : x <= t
    BY <1>3, <1>4, <1>7 DEF TokensIssued, TypeOK, Token
  <2>3. \A x \in Token : uses[x] > 0 => x <= t
    BY <1>3, <1>7 DEF TokensIssued, Token
  <2>4. \A e \in Email : newest[e].activation <= t
    BY <1>3, <1>7 DEF TokensIssued, TypeOK, Token, NoToken
  <2>. QED BY <1>1, <2>1, <2>2, <2>3, <2>4 DEF TokensIssued, t
<1>9. LinksAreNewest'
  BY <1>1 DEF Core, LinksAreNewest
<1>10. ResetsAreNewest'
  <2>1. ASSUME NEW e \in Email, users[e] # None, users[e].reset # NoToken
        PROVE  users[e].reset <= t /\ users[e].reset # t
    <3>1. users[e].reset <= issued /\ users[e].reset \in Nat
      BY <2>1 DEF Core, ResetsAreNewest, TypeOK, Row, Token, NoToken
    <3>. QED BY <1>4, <1>7, <3>1
  <2>. QED BY <1>1, <1>4, <2>1 DEF Core, ResetsAreNewest, t
<1>11. LegacyHasOneLink'
  BY <1>1, <1>4 DEF Core, LegacyHasOneLink
<1>12. UsedLinksAreDone'
  BY <1>1, <1>4 DEF Core, UsedLinksAreDone
<1>13. LatestLinkKnown'
  <2>. SUFFICES ASSUME NEW e \in Email, newest[e].activation \in redis'
                PROVE  /\ newest[e].activation \in redis
                       /\ holder'[newest[e].activation] = holder[newest[e].activation]
    BY <1>1 DEF Core, LatestLinkKnown
  <2>1. newest[e].activation <= issued
    BY <1>3 DEF TokensIssued
  <2>2. newest[e].activation # t
    BY <1>4, <1>7, <2>1
  <2>. QED BY <1>3, <1>4, <2>2 DEF TokensIssued
<1>14. TasksKnow' /\ WindowsPaid'
  BY <1>1, <1>4, EndedTask, TasksStillKnow, WindowsStayPaid
<1>15. SessionsHaveTheirUser'
  BY <1>1, SessionsKept
<1>. QED BY <1>6, <1>8, <1>9, <1>10, <1>11, <1>12, <1>13, <1>14, <1>15 DEF Core

-----------------------------------------------------------------------------
(* Activation, login and reset                                             *)

\* What a link that is accepted says of its row.
LEMMA AcceptedLink ==
  ASSUME TypeOK, Core, NEW t \in DOMAIN holder, t \in mailed, Accepts(t)
  PROVE  /\ holder[t].email \in Email
         /\ users[holder[t].email] # None
         /\ ~users[holder[t].email].active
         /\ t = newest[holder[t].email].activation
         /\ uses[t] = 0
<1>. DEFINE e == holder[t].email
<1>1. e \in Email /\ t \in Token
  BY DEF TypeOK
<1>2. Named(t) # None /\ Named(t) = users[e] /\ users[e] # None
  BY DEF Accepts, Named
<1>3. ~users[e].active /\ HashAgrees(users[e], t)
  BY <1>2 DEF Accepts
<1>4. t = newest[e].activation
  <2>1. CASE users[e].link = NoToken
    BY <1>1, <1>2, <2>1 DEF Core, LegacyHasOneLink
  <2>2. CASE users[e].link # NoToken
    BY <1>1, <1>2, <1>3, <2>2 DEF Core, LinksAreNewest, HashAgrees
  <2>. QED BY <2>1, <2>2
<1>5. uses[t] = 0
  <2>1. ~(uses[t] > 0)
    BY <1>2, <1>3 DEF Core, UsedLinksAreDone
  <2>2. uses[t] \in 0..2
    BY <1>1 DEF TypeOK
  <2>. QED BY <2>1, <2>2
<1>. QED BY <1>1, <1>2, <1>3, <1>4, <1>5

LEMMA ActivatePreserves ==
  ASSUME IndInv, NEW k \in Task, Activate(k)
  PROVE  IndInv'
<1>. USE DEF IndInv
<1>. DEFINE r == task[k]
            t == r.token
<1>1. /\ r \in Request /\ r # None /\ r.kind = "activate" /\ t \in mailed \cap DOMAIN holder
      /\ t \in Token /\ Done(k)
      /\ UNCHANGED <<redis, holder, cooldown, issued, mailed, newest, credit, windows,
                     created, sessions>>
  BY KindsOfRequest DEF Activate, TypeOK, TasksKnow
<1>2. TasksKnow' /\ WindowsPaid'
  BY <1>1, EndedTask, TasksStillKnow, WindowsStayPaid
<1>3. CASE ~Accepts(t)
  <2>1. UNCHANGED <<users, uses>>
    BY <1>3 DEF Activate
  <2>2. TypeOK' /\ Core' /\ SessionsHaveTheirUser'
    BY <1>1, <2>1, EndedTask, CoreUnchanged, SessionsKept DEF TypeOK, coreVars
  <2>. QED BY <1>2, <2>2
<1>4. CASE Accepts(t)
  <2>. DEFINE e == holder[t].email
  <2>. HIDE DEF t
  <2>1. /\ e \in Email /\ users[e] # None /\ ~users[e].active
        /\ t = newest[e].activation /\ uses[t] = 0
    BY <1>1, <1>4, AcceptedLink
  <2>2. /\ users' = [users EXCEPT ![e].active = TRUE]
        /\ uses' = [uses EXCEPT ![t] = @ + 1]
    BY <1>4 DEF Activate, t
  <2>. HIDE DEF e
  <2>3. users[e] \in Row
    BY <2>1 DEF TypeOK
  <2>4. users'[e] = [users[e] EXCEPT !.active = TRUE]
    BY <2>1, <2>2 DEF TypeOK
  <2>5. users'[e] \in Row
    BY <2>3, <2>4 DEF Row
  <2>6. /\ users'[e] # None /\ users'[e].active
        /\ users'[e].link = users[e].link /\ users'[e].name = users[e].name
        /\ users'[e].reset = users[e].reset
    BY <2>3, <2>4, <2>5 DEF Row
  <2>7. \A f \in Email \ {e} : users'[f] = users[f]
    BY <2>2 DEF TypeOK
  <2>8. users' \in [Email -> Row \cup {None}]
    BY <2>2, <2>5, <2>7 DEF TypeOK
  <2>9. uses'[t] = 1 /\ \A x \in Token \ {t} : uses'[x] = uses[x]
    BY <1>1, <2>1, <2>2 DEF TypeOK
  <2>10. uses' \in [Token -> 0..2]
    BY <1>1, <2>1, <2>2, <2>9 DEF TypeOK
  <2>11. TypeOK'
    <3>1. \A f, g \in Email : users'[f] # None /\ users'[g] # None /\ f # g
                                 => users'[f].name # users'[g].name
      BY <2>1, <2>6, <2>7 DEF TypeOK
    <3>. QED BY <1>1, <2>8, <2>10, <3>1, EndedTask DEF TypeOK
  <2>12. TokensIssued'
    BY <1>1, <2>9 DEF Core, TokensIssued
  <2>13. LinksAreNewest' /\ LegacyHasOneLink'
    BY <1>1, <2>1, <2>6, <2>7 DEF Core, LinksAreNewest, LegacyHasOneLink
  <2>14. ResetsAreNewest'
    <3>1. ASSUME NEW f \in Email, users[f] # None, users[f].reset # NoToken
          PROVE  uses'[users[f].reset] = 0
      <4>1. /\ users[f].reset \in Token /\ uses[users[f].reset] = 0
            /\ users[f].reset \notin DOMAIN holder
        BY <3>1 DEF Core, ResetsAreNewest, TypeOK, Row
      <4>. QED BY <1>1, <2>9, <4>1
    <3>. QED BY <1>1, <2>1, <2>6, <2>7, <3>1 DEF Core, ResetsAreNewest
  <2>15. UsedLinksAreDone'
    <3>. SUFFICES ASSUME NEW x \in DOMAIN holder, uses'[x] > 0
                  PROVE  users'[holder[x].email] # None /\ users'[holder[x].email].active
      BY <1>1 DEF UsedLinksAreDone
    <3>1. x \in Token /\ holder[x].email \in Email
      BY DEF TypeOK
    <3>2. CASE x = t
      BY <2>6, <3>2 DEF e
    <3>3. CASE x # t
      BY <2>6, <2>7, <2>9, <3>1, <3>3 DEF Core, UsedLinksAreDone
    <3>. QED BY <3>2, <3>3
  <2>16. LatestLinkKnown'
    BY <1>1, <2>6, <2>7 DEF Core, LatestLinkKnown
  <2>17. SessionsHaveTheirUser'
    BY <1>1, <2>1, <2>7, SessionsKept
  <2>. QED BY <1>2, <2>11, <2>12, <2>13, <2>14, <2>15, <2>16, <2>17 DEF Core
<1>. QED BY <1>3, <1>4

LEMMA LoginPreserves ==
  ASSUME IndInv, NEW e \in Email, Login(e)
  PROVE  IndInv'
<1>. USE DEF IndInv
<1>1. /\ UNCHANGED <<users, redis, holder, cooldown, task, issued, mailed, newest, uses,
                     credit, windows, created>>
      /\ sessions' = {<<e, users[e].id>>}
      /\ users[e] # None /\ users[e].active
  BY DEF Login, MayLogIn, stores, history
<1>2. users[e].id \in 1..MaxAccounts
  BY <1>1 DEF TypeOK, Row
<1>3. TypeOK'
  BY <1>1, <1>2 DEF TypeOK
<1>4. Core' /\ TasksKnow'
  BY <1>1, CoreUnchanged, TasksStillKnow DEF coreVars
<1>5. SessionsHaveTheirUser'
  BY <1>1 DEF SessionsHaveTheirUser, CurrentUser
<1>6. WindowsPaid'
  BY <1>1 DEF WindowsPaid, Payers, Pays
<1>. QED BY <1>3, <1>4, <1>5, <1>6

LEMMA RequestPasswordResetPreserves ==
  ASSUME IndInv, NEW k \in Task, RequestPasswordReset(k)
  PROVE  IndInv'
<1>. USE DEF IndInv
<1>. DEFINE r == task[k]
            e == r.email
            t == issued'
            w == <<"reset", e>>
<1>1. /\ r \in Request /\ r # None /\ r.kind = "reset" /\ e \in Email /\ Done(k)
      /\ UNCHANGED <<redis, holder, cooldown, uses, windows, created, sessions>>
  BY KindsOfRequest DEF RequestPasswordReset, TypeOK
<1>2. CASE ~(users[e] # None /\ users[e].active)
  <2>1. UNCHANGED <<users, issued, mailed, newest, credit>>
    BY <1>2 DEF RequestPasswordReset
  <2>2. TypeOK' /\ Core'
    BY <1>1, <2>1, EndedTask, CoreUnchanged DEF TypeOK, coreVars
  <2>3. TasksKnow' /\ SessionsHaveTheirUser' /\ WindowsPaid'
    BY <1>1, <2>1, EndedTask, TasksStillKnow, SessionsKept, WindowsStayPaid
  <2>. QED BY <2>2, <2>3
<1>3. CASE users[e] # None /\ users[e].active
  <2>1. /\ issued < MaxTokens /\ t = issued + 1
        /\ users' = [users EXCEPT ![e].reset = t, ![e].resetFresh = TRUE]
        /\ mailed' = mailed \cup {t}
        /\ newest' = [newest EXCEPT ![e].reset = t]
        /\ credit' = [credit EXCEPT ![w] = @ - 1]
    BY <1>3 DEF RequestPasswordReset
  <2>2. w \in Cooldown /\ Pays(k, w)
    BY <1>1 DEF Cooldown, Pays
  <2>. HIDE DEF t, w
  <2>3. /\ t \in Token /\ t \in 0..MaxTokens /\ t \in Nat /\ t # NoToken
        /\ issued \in Nat /\ issued <= t /\ ~(t <= issued)
    BY <2>1 DEF TypeOK, Token, NoToken
  <2>4. t \notin mailed \cup DOMAIN holder /\ uses[t] = 0
    <3>1. ~(uses[t] > 0)
      BY <2>3 DEF Core, TokensIssued
    <3>2. uses[t] \in 0..2
      BY <2>3 DEF TypeOK
    <3>. QED BY <2>3, <3>1, <3>2 DEF Core, TokensIssued
  <2>. HIDE DEF e
  <2>5. users[e] \in Row
    BY <1>1, <1>3 DEF TypeOK
  <2>6. users'[e] = [users[e] EXCEPT !.reset = t, !.resetFresh = TRUE]
    BY <1>1, <2>1 DEF TypeOK
  <2>7. users'[e] \in Row
    BY <2>3, <2>5, <2>6 DEF Row
  <2>8. /\ users'[e] # None /\ users'[e].active = users[e].active
        /\ users'[e].id = users[e].id /\ users'[e].name = users[e].name
        /\ users'[e].link = users[e].link /\ users'[e].linkFresh = users[e].linkFresh
        /\ users'[e].reset = t
    BY <2>5, <2>6, <2>7 DEF Row
  <2>9. \A f \in Email \ {e} : users'[f] = users[f] /\ newest'[f] = newest[f]
    BY <2>1 DEF TypeOK
  <2>10. /\ newest'[e].reset = t /\ newest'[e].activation = newest[e].activation
         /\ newest'[e] \in [activation : Token \cup {NoToken},
                            reset : Token \cup {NoToken}]
    BY <1>1, <2>1, <2>3 DEF TypeOK
  <2>11. TypeOK'
    <3>1. users' \in [Email -> Row \cup {None}]
      BY <2>1, <2>7, <2>9 DEF TypeOK
    <3>2. newest' \in [Email -> [activation : Token \cup {NoToken},
                                 reset : Token \cup {NoToken}]]
      BY <2>1, <2>9, <2>10 DEF TypeOK
    <3>3. credit' \in [Cooldown -> Int]
      BY <2>1, <2>2 DEF TypeOK
    <3>4. \A f, g \in Email : users'[f] # None /\ users'[g] # None /\ f # g
                                 => users'[f].name # users'[g].name
      BY <1>3, <2>8, <2>9 DEF TypeOK
    <3>5. mailed' \in SUBSET Token /\ issued' \in 0..MaxTokens
      BY <2>1, <2>3 DEF TypeOK, t
    <3>. QED BY <1>1, <3>1, <3>2, <3>3, <3>4, <3>5, EndedTask DEF TypeOK
  <2>12. TokensIssued'
    <3>1. \A x \in mailed' \cup DOMAIN holder : x <= t
      BY <2>1, <2>3 DEF Core, TokensIssued, TypeOK, Token
    <3>2. \A x \in Token : uses[x] > 0 => x <= t
      BY <2>3 DEF Core, TokensIssued, Token
    <3>3. \A f \in Email : newest'[f].activation = newest[f].activation
      BY <2>9, <2>10
    <3>4. \A f \in Email : newest[f].activation <= t
      BY <2>3 DEF Core, TokensIssued, TypeOK, Token, NoToken
    <3>. QED BY <1>1, <3>1, <3>2, <3>3, <3>4 DEF Core, TokensIssued, t
  <2>13. LinksAreNewest'
    BY <1>3, <2>8, <2>9, <2>10 DEF Core, LinksAreNewest
  <2>14. ResetsAreNewest'
    <3>1. ASSUME NEW f \in Email \ {e}, users[f] # None, users[f].reset # NoToken
          PROVE  users[f].reset <= t /\ users[f].reset # t
      <4>1. users[f].reset <= issued /\ users[f].reset \in Nat
        BY <3>1 DEF Core, ResetsAreNewest, TypeOK, Row, Token, NoToken
      <4>. QED BY <2>3, <4>1
    <3>2. ASSUME NEW f \in Email, users'[f] # None, users'[f].reset # NoToken
          PROVE  /\ users'[f].reset = newest'[f].reset
                 /\ users'[f].reset <= t
                 /\ users'[f].reset \notin DOMAIN holder
                 /\ uses[users'[f].reset] = 0
                 /\ \A g \in Email \ {f} : users'[g] # None =>
                       users'[g].reset # users'[f].reset
      <4>1. CASE f = e
        BY <2>3, <2>4, <2>8, <2>9, <2>10, <3>1, <4>1
      <4>2. CASE f # e
        BY <2>8, <2>9, <3>1, <3>2, <4>2 DEF Core, ResetsAreNewest
      <4>. QED BY <4>1, <4>2
    <3>. QED BY <1>1, <3>2 DEF ResetsAreNewest, t
  <2>15. \A f \in Email : /\ (users'[f] # None) <=> (users[f] # None)
                          /\ users'[f].link = users[f].link
                          /\ users'[f].linkFresh = users[f].linkFresh
                          /\ users'[f].active = users[f].active
                          /\ users'[f].name = users[f].name
                          /\ newest'[f].activation = newest[f].activation
    BY <1>3, <2>8, <2>9, <2>10
  <2>16. mailed' \cap DOMAIN holder' = mailed \cap DOMAIN holder
    BY <1>1, <2>1, <2>4
  <2>17. LegacyHasOneLink'
    BY <1>1, <2>15, <2>16 DEF Core, LegacyHasOneLink
  <2>18. UsedLinksAreDone'
    <3>1. \A x \in DOMAIN holder : holder[x].email \in Email
      BY DEF TypeOK
    <3>. QED BY <1>1, <2>8, <2>9, <3>1 DEF Core, UsedLinksAreDone
  <2>19. LatestLinkKnown'
    BY <1>1, <2>15 DEF Core, LatestLinkKnown
  <2>20. TasksKnow'
    BY <1>1, <2>1, EndedTask, TasksStillKnow
  <2>21. WindowsPaid'
    BY <1>1, <2>1, <2>2, WindowSpent
  <2>22. SessionsHaveTheirUser'
    BY <1>1, <2>8, <2>9, SessionsKept
  <2>. QED BY <2>11, <2>12, <2>13, <2>14, <2>17, <2>18, <2>19, <2>20, <2>21, <2>22
     DEF Core
<1>. QED BY <1>2, <1>3

\* A row that changes in its reset or its freshness only.
LEMMA RowTouched ==
  ASSUME TypeOK, NEW e \in Email, users[e] # None, NEW u \in Row,
         users' = [users EXCEPT ![e] = u],
         u.id = users[e].id, u.name = users[e].name, u.active = users[e].active
  PROVE  /\ users' \in [Email -> Row \cup {None}]
         /\ users'[e] = u /\ u # None
         /\ \A f \in Email \ {e} : users'[f] = users[f]
         /\ \A f, g \in Email : users'[f] # None /\ users'[g] # None /\ f # g
                                   => users'[f].name # users'[g].name
<1>1. /\ users' \in [Email -> Row \cup {None}]
      /\ users'[e] = u /\ u # None
      /\ \A f \in Email \ {e} : users'[f] = users[f]
  BY DEF TypeOK
<1>. QED BY <1>1 DEF TypeOK

LEMMA ResetPasswordPreserves ==
  ASSUME IndInv, NEW t \in Token, ResetPassword(t)
  PROVE  IndInv'
<1>. USE DEF IndInv
<1>1. PICK e \in Email :
        /\ users[e] # None /\ users[e].active /\ users[e].reset = t
        /\ users' = [users EXCEPT ![e] = AfterReset(users[e])]
  BY DEF ResetPassword
<1>2. /\ uses' = [uses EXCEPT ![t] = IF @ > 1 THEN @ ELSE @ + 1]
      /\ UNCHANGED <<redis, holder, cooldown, task, issued, mailed, newest, credit,
                     windows, created, sessions>>
  BY DEF ResetPassword
<1>. DEFINE u == AfterReset(users[e])
<1>3. users[e] \in Row /\ t # NoToken
  BY <1>1 DEF TypeOK, Token, NoToken
<1>4. /\ u \in Row /\ u.id = users[e].id /\ u.name = users[e].name
      /\ u.active = users[e].active /\ u.link = users[e].link
      /\ u.linkFresh = users[e].linkFresh /\ u.reset = NoToken
  BY <1>3 DEF AfterReset, Row
<1>5. users' = [users EXCEPT ![e] = u]
  BY <1>1
<1>. HIDE DEF u
<1>6. /\ users' \in [Email -> Row \cup {None}]
      /\ users'[e] = u /\ u # None
      /\ \A f \in Email \ {e} : users'[f] = users[f]
      /\ \A f, g \in Email : users'[f] # None /\ users'[g] # None /\ f # g
                                => users'[f].name # users'[g].name
  BY <1>1, <1>4, <1>5, RowTouched
<1>7. t <= issued /\ t \notin DOMAIN holder /\ t = newest[e].reset /\ uses[t] = 0
  BY <1>1, <1>3 DEF Core, ResetsAreNewest
<1>8. uses'[t] = 1 /\ \A x \in Token \ {t} : uses'[x] = uses[x]
  BY <1>2, <1>7 DEF TypeOK
<1>9. uses' \in [Token -> 0..2]
  BY <1>2, <1>7, <1>8 DEF TypeOK
<1>10. TypeOK'
  BY <1>2, <1>6, <1>9 DEF TypeOK
<1>11. TokensIssued'
  BY <1>2, <1>7, <1>8 DEF Core, TokensIssued
<1>12. \A f \in Email : /\ (users'[f] # None) <=> (users[f] # None)
                        /\ users'[f].link = users[f].link
                        /\ users'[f].linkFresh = users[f].linkFresh
                        /\ users'[f].active = users[f].active
                        /\ users'[f].name = users[f].name
  BY <1>1, <1>4, <1>6
<1>13. LinksAreNewest' /\ LegacyHasOneLink' /\ LatestLinkKnown'
  <2>1. LinksAreNewest'
    BY <1>2, <1>12 DEF Core, LinksAreNewest
  <2>2. LegacyHasOneLink'
    BY <1>2, <1>12 DEF Core, LegacyHasOneLink
  <2>3. LatestLinkKnown'
    BY <1>2, <1>12 DEF Core, LatestLinkKnown
  <2>. QED BY <2>1, <2>2, <2>3
<1>14. ResetsAreNewest'
  <2>1. ASSUME NEW f \in Email, users'[f] # None, users'[f].reset # NoToken
        PROVE  f # e /\ uses'[users[f].reset] = 0
    <3>1. f # e /\ users[f] # None /\ users[f].reset # NoToken
      BY <1>4, <1>6, <2>1
    <3>2. users[f].reset # t /\ users[f].reset \in Token /\ uses[users[f].reset] = 0
      BY <1>1, <3>1 DEF Core, ResetsAreNewest, TypeOK, Row
    <3>. QED BY <1>8, <3>1, <3>2
  <2>. QED BY <1>2, <1>4, <1>6, <2>1 DEF Core, ResetsAreNewest
<1>15. UsedLinksAreDone'
  <2>1. \A x \in DOMAIN holder : x \in Token /\ x # t /\ holder[x].email \in Email
    BY <1>7 DEF TypeOK
  <2>. QED BY <1>2, <1>8, <1>12, <2>1 DEF Core, UsedLinksAreDone
<1>16. TasksKnow' /\ WindowsPaid'
  BY <1>2 DEF TasksKnow, WindowsPaid, Payers, Pays
<1>17. SessionsHaveTheirUser'
  BY <1>1, <1>2, <1>4, <1>6, SessionsKept
<1>. QED BY <1>10, <1>11, <1>13, <1>14, <1>15, <1>16, <1>17 DEF Core

-----------------------------------------------------------------------------
(* The clean-up job, and time                                              *)

LEMMA CleanupUsersPreserves ==
  ASSUME IndInv, NEW old \in SUBSET {e \in Email : MayBeOld(e)}, CleanupUsers(old)
  PROVE  IndInv'
<1>. USE DEF IndInv
<1>. DEFINE stale == {e \in old : Stale(users[e])}
<1>1. /\ users' = [e \in Email |-> IF e \in stale THEN None ELSE users[e]]
      /\ UNCHANGED <<redis, holder, cooldown, task, issued, mailed, newest, uses,
                     credit, windows, created, sessions>>
  BY DEF CleanupUsers, history
<1>2. \A e \in stale : /\ e \in Email /\ users[e] # None /\ ~users[e].active
                       /\ users[e].link = NoToken \/ ~users[e].linkFresh
                       /\ users[e].link = NoToken => newest[e].activation \notin redis
  BY DEF Stale, MayBeOld
<1>. HIDE DEF stale
<1>3. \A e \in Email : users'[e] # None => users'[e] = users[e] /\ e \notin stale
  BY <1>1
<1>4. TypeOK'
  <2>1. users' \in [Email -> Row \cup {None}]
    BY <1>1 DEF TypeOK
  <2>2. \A f, g \in Email : users'[f] # None /\ users'[g] # None /\ f # g
                               => users'[f].name # users'[g].name
    BY <1>3 DEF TypeOK
  <2>. QED BY <1>1, <2>1, <2>2 DEF TypeOK
<1>5. TokensIssued' /\ LinksAreNewest' /\ LegacyHasOneLink'
  BY <1>1, <1>3 DEF Core, TokensIssued, LinksAreNewest, LegacyHasOneLink
<1>6. ResetsAreNewest'
  BY <1>1, <1>3 DEF Core, ResetsAreNewest
<1>7. \A e \in Email : users[e] # None /\ users[e].active => users'[e] = users[e]
  BY <1>1, <1>2
<1>8. UsedLinksAreDone'
  <2>1. \A x \in DOMAIN holder : holder[x].email \in Email
    BY DEF TypeOK
  <2>. QED BY <1>1, <1>7, <2>1 DEF Core, UsedLinksAreDone
<1>9. LatestLinkKnown'
  <2>1. ASSUME NEW e \in Email, newest[e].activation \in redis,
               ~(users'[e] # None /\ users'[e].active)
        PROVE  e \notin stale
    BY <1>2, <2>1 DEF Core, LatestLinkKnown
  <2>2. \A e \in Email \ stale : users'[e] = users[e]
    BY <1>1
  <2>. QED BY <1>1, <2>1, <2>2 DEF Core, LatestLinkKnown
<1>10. TasksKnow' /\ WindowsPaid'
  BY <1>1 DEF TasksKnow, WindowsPaid, Payers, Pays
<1>11. SessionsHaveTheirUser'
  BY <1>1, <1>7, SessionsKept
<1>. QED BY <1>4, <1>5, <1>6, <1>8, <1>9, <1>10, <1>11 DEF Core

LEMMA TokenExpiresPreserves ==
  ASSUME IndInv, NEW t \in Token, TokenExpires(t)
  PROVE  IndInv'
<1>. USE DEF IndInv
<1>1. /\ redis' \subseteq redis
      /\ UNCHANGED <<users, holder, cooldown, task, issued, mailed, newest, uses,
                     credit, windows, created, sessions>>
  BY DEF TokenExpires, history
<1>2. TypeOK'
  BY <1>1 DEF TypeOK
<1>3. TokensIssued' /\ LinksAreNewest' /\ LegacyHasOneLink' /\ LatestLinkKnown'
  BY <1>1 DEF Core, TokensIssued, LinksAreNewest, LegacyHasOneLink, LatestLinkKnown
<1>4. ResetsAreNewest' /\ UsedLinksAreDone'
  BY <1>1 DEF Core, ResetsAreNewest, UsedLinksAreDone
<1>5. TasksKnow' /\ WindowsPaid'
  BY <1>1 DEF TasksKnow, WindowsPaid, Payers, Pays
<1>6. SessionsHaveTheirUser'
  BY <1>1, SessionsKept
<1>. QED BY <1>2, <1>3, <1>4, <1>5, <1>6 DEF Core

LEMMA CooldownExpiresPreserves ==
  ASSUME IndInv, NEW c \in Cooldown, CooldownExpires(c)
  PROVE  IndInv'
<1>. USE DEF IndInv
<1>1. /\ cooldown' \in SUBSET Cooldown
      /\ UNCHANGED <<users, redis, holder, task, issued, mailed, newest, uses,
                     credit, windows, created, sessions>>
  BY DEF CooldownExpires, history, TypeOK
<1>2. TypeOK' /\ Core'
  BY <1>1, CoreUnchanged DEF TypeOK, coreVars
<1>3. TasksKnow' /\ WindowsPaid'
  BY <1>1 DEF TasksKnow, WindowsPaid, Payers, Pays
<1>4. SessionsHaveTheirUser'
  BY <1>1, SessionsKept
<1>. QED BY <1>2, <1>3, <1>4

\* An expiry of a row, which is no link that works.
LEMMA ExpiryPreserves ==
  ASSUME IndInv, NEW e \in Email, LinkExpires(e) \/ ResetExpires(e)
  PROVE  IndInv'
<1>. USE DEF IndInv
<1>1. /\ users[e] # None
      /\ UNCHANGED <<redis, holder, cooldown, task, issued, mailed, newest, uses,
                     credit, windows, created, sessions>>
  BY DEF LinkExpires, ResetExpires, history
<1>2. users[e] \in Row
  BY <1>1 DEF TypeOK
<1>3. PICK u \in Row :
        /\ users' = [users EXCEPT ![e] = u]
        /\ u.id = users[e].id /\ u.name = users[e].name /\ u.active = users[e].active
        /\ u.link = users[e].link /\ u.reset = users[e].reset
        /\ u.linkFresh = users[e].linkFresh \/ users[e].link \notin redis
  <2>1. CASE LinkExpires(e)
    <3>. DEFINE u == [users[e] EXCEPT !.linkFresh = FALSE]
    <3>1. u \in Row
      BY <1>2 DEF Row
    <3>2. /\ u.id = users[e].id /\ u.name = users[e].name /\ u.active = users[e].active
          /\ u.link = users[e].link /\ u.reset = users[e].reset
      BY <1>2 DEF Row
    <3>3. users' = [users EXCEPT ![e] = u] /\ users[e].link \notin redis
      BY <2>1 DEF LinkExpires, TypeOK
    <3>. QED BY <3>1, <3>2, <3>3
  <2>2. CASE ResetExpires(e)
    <3>. DEFINE u == [users[e] EXCEPT !.resetFresh = FALSE]
    <3>1. u \in Row
      BY <1>2 DEF Row
    <3>2. /\ u.id = users[e].id /\ u.name = users[e].name /\ u.active = users[e].active
          /\ u.link = users[e].link /\ u.reset = users[e].reset
          /\ u.linkFresh = users[e].linkFresh
      BY <1>2 DEF Row
    <3>3. users' = [users EXCEPT ![e] = u]
      BY <2>2 DEF ResetExpires, TypeOK
    <3>. QED BY <3>1, <3>2, <3>3
  <2>. QED BY <2>1, <2>2
<1>4. /\ users' \in [Email -> Row \cup {None}]
      /\ users'[e] = u /\ u # None
      /\ \A f \in Email \ {e} : users'[f] = users[f]
      /\ \A f, g \in Email : users'[f] # None /\ users'[g] # None /\ f # g
                                => users'[f].name # users'[g].name
  BY <1>1, <1>3, RowTouched
<1>5. \A f \in Email : /\ (users'[f] # None) <=> (users[f] # None)
                       /\ users'[f].link = users[f].link
                       /\ users'[f].reset = users[f].reset
                       /\ users'[f].active = users[f].active
                       /\ users'[f].name = users[f].name
                       /\ users'[f].id = users[f].id
                       /\ \/ users'[f].linkFresh = users[f].linkFresh
                          \/ users[f].link \notin redis
  BY <1>1, <1>3, <1>4
<1>6. TypeOK'
  BY <1>1, <1>4 DEF TypeOK
<1>7. TokensIssued' /\ LinksAreNewest' /\ LegacyHasOneLink'
  BY <1>1, <1>5 DEF Core, TokensIssued, LinksAreNewest, LegacyHasOneLink
<1>8. ResetsAreNewest'
  BY <1>1, <1>5 DEF Core, ResetsAreNewest
<1>9. UsedLinksAreDone'
  <2>1. \A x \in DOMAIN holder : holder[x].email \in Email
    BY DEF TypeOK
  <2>. QED BY <1>1, <1>5, <2>1 DEF Core, UsedLinksAreDone
<1>10. LatestLinkKnown'
  BY <1>1, <1>5 DEF Core, LatestLinkKnown
<1>11. TasksKnow' /\ WindowsPaid'
  BY <1>1 DEF TasksKnow, WindowsPaid, Payers, Pays
<1>12. SessionsHaveTheirUser'
  BY <1>1, <1>5, SessionsKept
<1>. QED BY <1>6, <1>7, <1>8, <1>9, <1>10, <1>11, <1>12 DEF Core

-----------------------------------------------------------------------------
(* Theorems                                                                *)

LEMMA HandlePreserves ==
  ASSUME IndInv, NEW k \in Task, Handle(k)
  PROVE  IndInv'
<1>1. ASSUME NEW e \in Email, ResendThrottle(k, e) PROVE IndInv'
  <2>. DEFINE r == [kind |-> "resend", email |-> e]
  <2>1. r \in Request /\ r.kind = "resend" /\ r.email = e
    BY DEF Request
  <2>2. <<"resend", Norm[e]>> \in Cooldown
    BY DEF Cooldown
  <2>3. /\ OpenWindow(<<"resend", Norm[e]>>) /\ Start(k, r)
        /\ UNCHANGED <<users, redis, holder, issued, mailed, newest, uses, created,
                       sessions>>
    BY <1>1 DEF ResendThrottle
  <2>. HIDE DEF r
  <2>. QED BY <2>1, <2>2, <2>3, ThrottlePreserves
<1>2. ASSUME NEW e \in Email, ResetThrottle(k, e) PROVE IndInv'
  <2>. DEFINE r == [kind |-> "reset", email |-> e]
  <2>1. r \in Request /\ r.kind = "reset" /\ r.email = e
    BY DEF Request
  <2>2. <<"reset", e>> \in Cooldown
    BY DEF Cooldown
  <2>3. /\ OpenWindow(<<"reset", e>>) /\ Start(k, r)
        /\ UNCHANGED <<users, redis, holder, issued, mailed, newest, uses, created,
                       sessions>>
    BY <1>2 DEF ResetThrottle
  <2>. HIDE DEF r
  <2>. QED BY <2>1, <2>2, <2>3, ThrottlePreserves
<1>3. CASE \E e \in Email, n \in Name : RegisterCheck(k, e, n)
  BY <1>3, RegisterCheckPreserves
<1>4. CASE \E t \in Token : ActivateVerify(k, t)
  BY <1>4, ActivateVerifyPreserves
<1>. QED BY <1>1, <1>2, <1>3, <1>4, RegisterInsertPreserves, ResendPreserves,
            ActivatePreserves, RequestPasswordResetPreserves, RollBackPreserves,
            AbandonPreserves DEF Handle

LEMMA StepIndInv == IndInv /\ [Next]_vars => IndInv'
<1>. SUFFICES ASSUME IndInv, [Next]_vars PROVE IndInv'
  OBVIOUS
<1>1. CASE UNCHANGED vars
  <2>1. UNCHANGED coreVars /\ UNCHANGED <<cooldown, task, credit, windows, created, sessions>>
    BY <1>1 DEF vars, stores, history, coreVars
  <2>2. Core'
    BY <2>1, CoreUnchanged DEF IndInv
  <2>3. TypeOK'
    BY <2>1 DEF IndInv, TypeOK, coreVars
  <2>4. TasksKnow' /\ SessionsHaveTheirUser' /\ WindowsPaid'
    BY <2>1 DEF IndInv, TasksKnow, SessionsHaveTheirUser, CurrentUser, WindowsPaid,
                Payers, Pays, coreVars
  <2>. QED BY <2>2, <2>3, <2>4 DEF IndInv
<1>2. CASE \E k \in Task : Handle(k)
  BY <1>2, HandlePreserves
<1>3. CASE \E e \in Email : Login(e)
  BY <1>3, LoginPreserves
<1>4. CASE \E t \in Token : ResetPassword(t)
  BY <1>4, ResetPasswordPreserves
<1>5. CASE \E old \in SUBSET {e \in Email : MayBeOld(e)} : CleanupUsers(old)
  BY <1>5, CleanupUsersPreserves
<1>6. CASE Clock
  BY <1>6, TokenExpiresPreserves, CooldownExpiresPreserves, ExpiryPreserves DEF Clock
<1>. QED BY <1>1, <1>2, <1>3, <1>4, <1>5, <1>6 DEF Next

\* The invariant behind the others: what Redis and the row know of a link, and
\* which request may still spend which cooldown window.
THEOREM AccountsInductive == Spec => []IndInv
<1>. QED BY InitIndInv, StepIndInv, PTL DEF Spec

\* Every store and every request keeps its shape, and no two rows share a name.
THEOREM AccountsTypeOK == Spec => []TypeOK
<1>1. IndInv => TypeOK
  BY DEF IndInv
<1>. QED BY AccountsInductive, <1>1, PTL

\* The last activation link of an inactive account works while Redis has it.
THEOREM AccountsLatestLinkWorks == Spec => []LatestLinkWorks
<1>1. IndInv => LatestLinkWorks
  <2>. SUFFICES ASSUME IndInv, NEW e \in Email,
                       newest[e].activation \in redis,
                       ~(users[e] # None /\ users[e].active)
                PROVE  Accepts(newest[e].activation)
    BY DEF LatestLinkWorks
  <2>. DEFINE t == newest[e].activation
  <2>1. /\ users[e] # None /\ ~users[e].active
        /\ holder[t] = [email |-> e, name |-> users[e].name]
        /\ users[e].link = NoToken \/ (users[e].link = t /\ users[e].linkFresh)
    BY DEF IndInv, Core, LatestLinkKnown
  <2>2. holder[t].email = e /\ holder[t].name = users[e].name
    BY <2>1
  <2>. HIDE DEF t
  <2>3. Named(t) = users[e]
    BY <2>1, <2>2 DEF Named
  <2>4. HashAgrees(users[e], t)
    BY <2>1 DEF HashAgrees
  <2>5. Accepts(t)
    BY <2>1, <2>3, <2>4 DEF Accepts
  <2>. QED BY <2>5 DEF t
<1>. QED BY AccountsInductive, <1>1, PTL

\* No address gets more links resent or resets mailed than windows it opened.
THEOREM AccountsMailsBounded == Spec => []MailsBounded
<1>1. IndInv => MailsBounded
  <2>. SUFFICES ASSUME IndInv, NEW c \in Cooldown PROVE credit[c] >= 0
    BY DEF MailsBounded
  <2>1. Payers(c) \in SUBSET Task
    BY DEF Payers
  <2>2. Cardinality(Payers(c)) \in Nat
    BY <2>1, SomeTasks
  <2>3. Cardinality(Payers(c)) <= credit[c] /\ credit[c] \in Int
    BY DEF IndInv, WindowsPaid, TypeOK
  <2>. QED BY <2>2, <2>3
<1>. QED BY AccountsInductive, <1>1, PTL

\* A session never loses its account, nor passes to another one.
THEOREM AccountsSessionsHaveTheirUser == Spec => []SessionsHaveTheirUser
<1>1. IndInv => SessionsHaveTheirUser
  BY DEF IndInv
<1>. QED BY AccountsInductive, <1>1, PTL

\* A link takes effect once, and only the last one of its address does.
THEOREM AccountsOnlyNewestLinkOnce == Spec => OnlyNewestLinkOnce
<1>1. IndInv /\ [Next]_vars =>
         [\A t \in Token : uses'[t] # uses[t] =>
             /\ uses[t] = 0
             /\ \E e \in Email : t \in {newest[e].activation, newest[e].reset}]_vars
  <2>. SUFFICES ASSUME IndInv, [Next]_vars, NEW t \in Token, uses'[t] # uses[t]
                PROVE  /\ uses[t] = 0
                       /\ \E e \in Email : t \in {newest[e].activation, newest[e].reset}
    OBVIOUS
  <2>. USE DEF IndInv
  <2>1. ASSUME NEW k \in Task, Activate(k)
        PROVE  uses[t] = 0 /\ \E e \in Email : t = newest[e].activation
    <3>1. /\ task[k] # None /\ task[k].kind = "activate"
          /\ Accepts(task[k].token) /\ task[k].token = t
      BY <2>1 DEF Activate, TypeOK
    <3>2. t \in mailed /\ t \in DOMAIN holder
      BY <3>1 DEF TasksKnow
    <3>. QED BY <3>1, <3>2, AcceptedLink
  <2>2. ASSUME NEW x \in Token, ResetPassword(x)
        PROVE  uses[t] = 0 /\ \E e \in Email : t = newest[e].reset
    <3>1. x = t
      BY <2>2 DEF ResetPassword, TypeOK
    <3>2. PICK e \in Email : users[e] # None /\ users[e].reset = t
      BY <2>2, <3>1 DEF ResetPassword
    <3>3. t # NoToken
      BY DEF Token, NoToken
    <3>. QED BY <3>2, <3>3 DEF Core, ResetsAreNewest
  <2>3. ASSUME NEW k \in Task, Handle(k) PROVE Activate(k)
    BY <2>3 DEF Handle, RegisterCheck, ResendThrottle, ResetThrottle, ActivateVerify,
       RegisterInsert, Resend, RequestPasswordReset, RollBack, Abandon, history
  <2>4. CASE UNCHANGED vars
    BY <2>4 DEF vars, history
  <2>5. CASE (\E e \in Email : Login(e)) \/ Clock
             \/ \E old \in SUBSET {e \in Email : MayBeOld(e)} : CleanupUsers(old)
    BY <2>5 DEF Login, Clock, CleanupUsers, TokenExpires, CooldownExpires,
       LinkExpires,
       ResetExpires, history
  <2>. QED BY <2>1, <2>2, <2>3, <2>4, <2>5 DEF Next
<1>. QED BY <1>1, AccountsInductive, PTL DEF Spec, OnlyNewestLinkOnce

-----------------------------------------------------------------------------
(* Links that do not work                                                  *)

\* What any step may do to a row: delete it, give it a link nobody has yet, or
\* keep its name and its link, which is not renewed, and never deactivate it.
RowStep(e) ==
    \/ users'[e] = None
    \/ users'[e] # None /\ users'[e].link = issued + 1
    \/ /\ users[e] # None /\ users'[e] # None
       /\ users'[e].name = users[e].name
       /\ users'[e].link = users[e].link
       /\ users'[e].linkFresh => users[e].linkFresh
       /\ users[e].active => users'[e].active

\* Tokens keep their data, and those that Redis has lost do not come back.
TokenStep ==
    /\ DOMAIN holder \subseteq DOMAIN holder'
    /\ \A t \in DOMAIN holder : holder'[t] = holder[t]
    /\ redis' \subseteq redis \cup {issued + 1}

LEMMA RowStepOfUpdate ==
  ASSUME TypeOK, NEW e \in Email, NEW u \in Row, NEW f \in Email,
         users' = [users EXCEPT ![e] = u],
         \/ u.link = issued + 1
         \/ /\ users[e] # None
            /\ u.name = users[e].name /\ u.link = users[e].link
            /\ u.linkFresh => users[e].linkFresh
            /\ users[e].active => u.active
  PROVE  RowStep(f)
<1>1. users' \in [Email -> Row \cup {None}] /\ users'[e] = u /\ u # None
  BY DEF TypeOK
<1>2. f # e => users'[f] = users[f]
  BY DEF TypeOK
<1>. QED BY <1>1, <1>2 DEF RowStep

LEMMA QueuedStep ==
  ASSUME TypeOK, TokensIssued, NEW e \in Email, NEW u \in Row, QueueActivation(e, u)
  PROVE  TokenStep /\ \A f \in Email : RowStep(f)
<1>1. CreateActivationToken(e, u.name) /\ u.name \in Name
  BY DEF QueueActivation, Row
<1>2. TokenStep /\ issued' = issued + 1 /\ issued' \in Token
  BY <1>1, FreshToken DEF TokenStep
<1>3. PICK v \in Row : v = [u EXCEPT !.link = issued', !.linkFresh = TRUE]
  BY <1>2 DEF Row
<1>4. v.link = issued + 1
  BY <1>2, <1>3 DEF Row
<1>5. users' = [users EXCEPT ![e] = v]
  BY <1>3 DEF QueueActivation
<1>. QED BY <1>2, <1>4, <1>5, RowStepOfUpdate

LEMMA UnchangedStep ==
  ASSUME UNCHANGED <<users, redis, holder>>
  PROVE  TokenStep /\ \A f \in Email : RowStep(f)
BY DEF TokenStep, RowStep

LEMMA RequestStep ==
  ASSUME IndInv, NEW k \in Task, Handle(k)
  PROVE  TokenStep /\ \A f \in Email : RowStep(f)
<1>. USE DEF IndInv, Core
<1>1. CASE \/ \E e \in Email : \/ \E n \in Name : RegisterCheck(k, e, n)
                               \/ ResendThrottle(k, e)
                               \/ ResetThrottle(k, e)
           \/ \E t \in Token : ActivateVerify(k, t)
           \/ Abandon(k)
  <2>1. UNCHANGED <<users, redis, holder>>
    BY <1>1 DEF RegisterCheck, ResendThrottle, ResetThrottle, ActivateVerify,
                Abandon, OpenWindow, stores
  <2>. QED BY <2>1, UnchangedStep
<1>2. CASE RegisterInsert(k)
  <2>1. CASE UNCHANGED <<users, redis, holder>>
    BY <2>1, UnchangedStep
  <2>2. CASE ~ UNCHANGED <<users, redis, holder>>
    <3>1. /\ task[k] # None /\ task[k].kind = "register"
          /\ created < MaxAccounts
          /\ QueueActivation(task[k].email, NewUser(task[k].name))
      BY <1>2, <2>2 DEF RegisterInsert
    <3>2. task[k].email \in Email /\ task[k].name \in Name
      BY <3>1 DEF TypeOK, Request
    <3>3. NewUser(task[k].name) \in Row
      <4>1. created + 1 \in 1..MaxAccounts
        BY <3>1 DEF TypeOK
      <4>2. Legacy(task[k].name) \in Row
        BY <3>2 DEF Legacy, Row, Token, NoToken
      <4>. QED BY <4>1, <4>2 DEF NewUser, Row
    <3>. QED BY <3>1, <3>2, <3>3, QueuedStep
  <2>. QED BY <2>1, <2>2
<1>3. CASE Resend(k)
  <2>1. CASE UNCHANGED <<users, redis, holder>>
    BY <2>1, UnchangedStep
  <2>2. CASE ~ UNCHANGED <<users, redis, holder>>
    <3>1. /\ task[k] # None /\ task[k].kind = "resend"
          /\ Inactive(task[k].email)
          /\ QueueActivation(task[k].email, users[task[k].email])
      BY <1>3, <2>2 DEF Resend
    <3>2. task[k].email \in Email
      BY <3>1 DEF TypeOK, Request
    <3>3. users[task[k].email] \in Row
      BY <3>1, <3>2 DEF Inactive, TypeOK
    <3>. QED BY <3>1, <3>2, <3>3, QueuedStep
  <2>. QED BY <2>1, <2>2
<1>4. CASE Activate(k)
  <2>1. CASE UNCHANGED <<users, redis, holder>>
    BY <2>1, UnchangedStep
  <2>2. CASE ~ UNCHANGED <<users, redis, holder>>
    <3>1. /\ task[k] # None /\ task[k].kind = "activate" /\ Accepts(task[k].token)
          /\ users' = [users EXCEPT ![holder[task[k].token].email].active = TRUE]
          /\ UNCHANGED <<redis, holder>>
      BY <1>4, <2>2 DEF Activate
    <3>2. task[k].token \in DOMAIN holder
      BY <3>1 DEF TasksKnow
    <3>3. PICK e \in Email : e = holder[task[k].token].email
      BY <3>2 DEF TypeOK
    <3>4. users[e] # None /\ users[e] \in Row
      BY <3>1, <3>3 DEF Accepts, Named, TypeOK
    <3>5. PICK u \in Row : u = [users[e] EXCEPT !.active = TRUE]
      BY <3>4 DEF Row
    <3>6. /\ u.name = users[e].name /\ u.link = users[e].link
          /\ u.linkFresh = users[e].linkFresh /\ u.active
      BY <3>4, <3>5 DEF Row
    <3>7. users' = [users EXCEPT ![e] = u]
      BY <3>1, <3>3, <3>5
    <3>8. \A f \in Email : RowStep(f)
      BY <3>4, <3>6, <3>7, RowStepOfUpdate
    <3>. QED BY <3>1, <3>8 DEF TokenStep
  <2>. QED BY <2>1, <2>2
<1>5. CASE RequestPasswordReset(k)
  <2>1. CASE UNCHANGED <<users, redis, holder>>
    BY <2>1, UnchangedStep
  <2>2. CASE ~ UNCHANGED <<users, redis, holder>>
    <3>1. /\ task[k] # None /\ task[k].kind = "reset"
          /\ users[task[k].email] # None
          /\ issued < MaxTokens /\ issued' = issued + 1
          /\ users' = [users EXCEPT ![task[k].email].reset = issued',
                                    ![task[k].email].resetFresh = TRUE]
          /\ UNCHANGED <<redis, holder>>
      BY <1>5, <2>2 DEF RequestPasswordReset
    <3>2. PICK e \in Email : e = task[k].email
      BY <3>1 DEF TypeOK, Request
    <3>3. users[e] # None /\ users[e] \in Row /\ issued' \in Token
      BY <3>1, <3>2 DEF TypeOK, Token
    <3>4. PICK u \in Row : u = [users[e] EXCEPT !.reset = issued', !.resetFresh = TRUE]
      BY <3>3 DEF Row
    <3>5. /\ u.name = users[e].name /\ u.link = users[e].link
          /\ u.linkFresh = users[e].linkFresh /\ u.active = users[e].active
      BY <3>3, <3>4 DEF Row
    <3>6. users' = [users EXCEPT ![e] = u]
      BY <3>1, <3>2, <3>3, <3>4 DEF TypeOK
    <3>7. \A f \in Email : RowStep(f)
      BY <3>3, <3>5, <3>6, RowStepOfUpdate
    <3>. QED BY <3>1, <3>7 DEF TokenStep
  <2>. QED BY <2>1, <2>2
<1>6. CASE RollBack(k)
  <2>. DEFINE r == task[k]
              n == IF r.kind = "register" THEN r.name ELSE users[r.email].name
  <2>1. /\ r # None /\ r.kind \in {"register", "resend"}
        /\ r.kind = "resend" => Inactive(r.email)
        /\ CreateActivationToken(r.email, n)
        /\ users' = users
    BY <1>6 DEF RollBack
  <2>2. r.email \in Email
    BY <2>1 DEF TypeOK, Request
  <2>3. n \in Name
    BY <2>1, <2>2 DEF TypeOK, Request, Inactive, Row
  <2>. HIDE DEF r, n
  <2>4. TokenStep
    BY <2>1, <2>2, <2>3, FreshToken DEF TokenStep
  <2>. QED BY <2>1, <2>4 DEF RowStep
<1>. QED BY <1>1, <1>2, <1>3, <1>4, <1>5, <1>6 DEF Handle

LEMMA OtherStep ==
  ASSUME IndInv,
         \/ \E e \in Email : Login(e)
         \/ \E t \in Token : ResetPassword(t)
         \/ \E old \in SUBSET {e \in Email : MayBeOld(e)} : CleanupUsers(old)
         \/ Clock
         \/ UNCHANGED vars
  PROVE  TokenStep /\ \A f \in Email : RowStep(f)
<1>. USE DEF IndInv
<1>1. CASE \/ \E e \in Email : Login(e)
           \/ \E c \in Cooldown : CooldownExpires(c)
           \/ UNCHANGED vars
  <2>1. UNCHANGED <<users, redis, holder>>
    BY <1>1 DEF Login, CooldownExpires, vars, stores
  <2>. QED BY <2>1, UnchangedStep
<1>2. CASE \E t \in Token : TokenExpires(t)
  BY <1>2 DEF TokenExpires, TokenStep, RowStep
<1>3. CASE \E old \in SUBSET {e \in Email : MayBeOld(e)} : CleanupUsers(old)
  BY <1>3 DEF CleanupUsers, TokenStep, RowStep
<1>4. ASSUME NEW e \in Email, NEW u \in Row, users[e] # None,
             users' = [users EXCEPT ![e] = u], UNCHANGED <<redis, holder>>,
             u.name = users[e].name, u.link = users[e].link,
             u.linkFresh => users[e].linkFresh, u.active = users[e].active
      PROVE  TokenStep /\ \A f \in Email : RowStep(f)
  BY <1>4, RowStepOfUpdate DEF TokenStep
<1>5. ASSUME NEW t \in Token, ResetPassword(t)
      PROVE  TokenStep /\ \A f \in Email : RowStep(f)
  <2>1. PICK e \in Email : /\ users[e] # None
                           /\ users' = [users EXCEPT ![e] = AfterReset(users[e])]
    BY <1>5 DEF ResetPassword
  <2>2. UNCHANGED <<redis, holder>> /\ users[e] \in Row
    BY <1>5, <2>1 DEF ResetPassword, TypeOK
  <2>3. PICK u \in Row : u = AfterReset(users[e])
    BY <2>2 DEF AfterReset, Row, NoToken
  <2>4. /\ u.name = users[e].name /\ u.link = users[e].link
        /\ u.linkFresh = users[e].linkFresh /\ u.active = users[e].active
    BY <2>2, <2>3 DEF AfterReset, Row
  <2>. QED BY <1>4, <2>1, <2>2, <2>3, <2>4
<1>6. ASSUME NEW e \in Email, LinkExpires(e)
      PROVE  TokenStep /\ \A f \in Email : RowStep(f)
  <2>1. /\ users[e] # None /\ users[e] \in Row /\ UNCHANGED <<redis, holder>>
        /\ users' = [users EXCEPT ![e].linkFresh = FALSE]
    BY <1>6 DEF LinkExpires, TypeOK
  <2>2. PICK u \in Row : u = [users[e] EXCEPT !.linkFresh = FALSE]
    BY <2>1 DEF Row
  <2>3. /\ u.name = users[e].name /\ u.link = users[e].link
        /\ ~u.linkFresh /\ u.active = users[e].active
    BY <2>1, <2>2 DEF Row
  <2>4. users' = [users EXCEPT ![e] = u]
    BY <2>1, <2>2
  <2>. QED BY <1>4, <2>1, <2>3, <2>4
<1>7. ASSUME NEW e \in Email, ResetExpires(e)
      PROVE  TokenStep /\ \A f \in Email : RowStep(f)
  <2>1. /\ users[e] # None /\ users[e] \in Row /\ UNCHANGED <<redis, holder>>
        /\ users' = [users EXCEPT ![e].resetFresh = FALSE]
    BY <1>7 DEF ResetExpires, TypeOK
  <2>2. PICK u \in Row : u = [users[e] EXCEPT !.resetFresh = FALSE]
    BY <2>1 DEF Row
  <2>3. /\ u.name = users[e].name /\ u.link = users[e].link
        /\ u.linkFresh = users[e].linkFresh /\ u.active = users[e].active
    BY <2>1, <2>2 DEF Row
  <2>4. users' = [users EXCEPT ![e] = u]
    BY <2>1, <2>2
  <2>. QED BY <1>4, <2>1, <2>3, <2>4
<1>. QED BY <1>1, <1>2, <1>3, <1>5, <1>6, <1>7 DEF Clock

(* A link is shown as valid exactly when submitting it would succeed.      *)
LEMMA ShownValid ==
  ASSUME NEW t
  PROVE  CheckLink(t) = "valid" <=> t \in redis /\ Accepts(t)
BY DEF CheckLink, Accepts

(* A link that has stopped working never works again: a row gets only links *)
(* that are new, and keeps its name until it is deleted.                   *)
THEOREM AccountsDeadLinksStayDead == Spec => DeadLinksStayDead
<1>1. IndInv /\ [Next]_vars =>
         [\A t \in mailed : CheckLink(t) # "valid" => CheckLink(t)' # "valid"]_vars
  <2>. SUFFICES ASSUME IndInv, [Next]_vars, NEW t \in mailed, CheckLink(t)' = "valid"
                PROVE  CheckLink(t) = "valid"
    OBVIOUS
  <2>. USE DEF IndInv
  <2>1. TokenStep /\ \A f \in Email : RowStep(f)
    BY RequestStep, OtherStep DEF Next
  <2>2. t \in redis' /\ Accepts(t)'
    BY DEF CheckLink, Accepts
  <2>3. t \in Token /\ t <= issued /\ issued \in Nat
    BY DEF Core, TokensIssued, TypeOK
  <2>4. t \in redis /\ t \in DOMAIN holder /\ holder'[t] = holder[t]
    BY <2>1, <2>2, <2>3 DEF TokenStep, Core, TokensIssued, Token
  <2>5. PICK e \in Email : e = holder[t].email
    BY <2>4 DEF TypeOK
  <2>6. /\ users'[e] # None /\ ~users'[e].active
        /\ users'[e].name = holder[t].name
        /\ users'[e].link # NoToken => users'[e].link = t /\ users'[e].linkFresh
    BY <2>2, <2>4, <2>5 DEF Accepts, Named, HashAgrees
  <2>7. users'[e].link # issued + 1
    BY <2>3, <2>6 DEF NoToken
  <2>8. /\ users[e] # None
        /\ users'[e].name = users[e].name /\ users'[e].link = users[e].link
        /\ users'[e].linkFresh => users[e].linkFresh
        /\ users[e].active => users'[e].active
    BY <2>1, <2>6, <2>7 DEF RowStep
  <2>9. Accepts(t)
    BY <2>5, <2>6, <2>8 DEF Accepts, Named, HashAgrees
  <2>. QED BY <2>4, <2>9, ShownValid
<1>. QED BY <1>1, AccountsInductive, PTL DEF Spec, DeadLinksStayDead
=============================================================================

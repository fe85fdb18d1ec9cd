------------------------------ MODULE Accounts ------------------------------
(***************************************************************************)
(* Registration, activation, password reset and clean-up of users.         *)
(*                                                                         *)
(* A request first touches Redis (a cooldown key, or the activation        *)
(* token) and then runs a transaction that locks or inserts the user's     *)
(* row.  The two stores are not written together: what a request wrote to  *)
(* Redis stays when its transaction rolls back.  A transaction holds its   *)
(* row lock from its first read to its commit and is one step here; other  *)
(* requests, the clean-up job and the clocks run between the steps.        *)
(***************************************************************************)
EXTENDS Integers, FiniteSets

CONSTANTS Email,        \* addresses, as EmailStr leaves them
          Name,         \* usernames
          Key,          \* cooldown keys of the resend endpoint
          Norm,         \* email.strip().lower(), an Email's Key
          Task,         \* requests that run at the same time
          None,         \* no row, no request
          MaxTokens,    \* bound: links issued
          MaxWindows,   \* bound: cooldown windows opened
          MaxAccounts   \* bound: accounts created

ASSUME AccountsAssumption ==
    /\ Norm \in [Email -> Key]
    /\ MaxTokens \in Nat \ {0}
    /\ MaxWindows \in Nat
    /\ MaxAccounts \in Nat \ {0}
    /\ Email \cap Key = {}
    /\ IsFiniteSet(Task)

Token == 1..MaxTokens
NoToken == 0    \* a NULL password_reset_hash or activation_token_hash

\* A row of users.  link and reset stand for the two token hashes, the
\* "Fresh" fields say that their expiry date has not passed.
Row == [id : 1..MaxAccounts, name : Name, active : BOOLEAN,
        link : Token \cup {NoToken}, linkFresh : BOOLEAN,
        reset : Token \cup {NoToken}, resetFresh : BOOLEAN]

\* What a request knows between its two steps.
Request == [kind : {"register"}, email : Email, name : Name]
           \cup [kind : {"resend", "reset"}, email : Email]
           \cup [kind : {"activate"}, token : Token]

ASSUME NoneAssumption ==
    None \notin Email /\ None \notin Row /\ None \notin Request

VARIABLES users,     \* per address: its row, or None
          redis,     \* the activation tokens Redis holds
          holder,    \* per activation token: the user data stored with it
          cooldown,  \* the cooldown keys Redis holds
          task,      \* per request: what it knows, or None
          issued,    \* tokens generated so far
          mailed,    \* tokens whose mail was recorded in the outbox
          newest,    \* per address: the last token mailed, by kind (history)
          uses,      \* per token: how often it activated or reset (history)
          credit,    \* per cooldown key: windows opened minus mails (history)
          windows,   \* cooldown windows opened so far
          created,   \* accounts created so far
          sessions   \* access tokens, also those that have expired: <<address, user id>>

stores == <<users, redis, holder, cooldown>>
history == <<mailed, newest, uses, credit, windows, created>>
vars == <<stores, task, issued, history, sessions>>

Cooldown == ({"resend"} \X Key) \cup ({"reset"} \X Email)
NoLinks == [activation |-> NoToken, reset |-> NoToken]

\* Registered before rows had an activation_token_hash; its mail is out.
Legacy(n) == [id |-> 1, name |-> n, active |-> FALSE,
              link |-> NoToken, linkFresh |-> FALSE,
              reset |-> NoToken, resetFresh |-> FALSE]

Init ==
    /\ \E legacy \in Email \cup {None}, n \in Name :
          /\ users = [e \in Email |-> IF e = legacy THEN Legacy(n) ELSE None]
          /\ created = IF legacy = None THEN 0 ELSE 1
          /\ newest = [e \in Email |-> IF e = legacy
                                       THEN [NoLinks EXCEPT !.activation = 1]
                                       ELSE NoLinks]
          /\ mailed = IF legacy = None THEN {} ELSE {1}
          /\ issued = Cardinality(mailed)
          /\ holder = [t \in mailed |-> [email |-> legacy, name |-> n]]
    /\ redis = mailed
    /\ cooldown = {}
    /\ task = [k \in Task |-> None]
    /\ uses = [t \in Token |-> 0]
    /\ credit = [c \in Cooldown |-> 0]
    /\ windows = 0
    /\ sessions = {}

-----------------------------------------------------------------------------
(* Helpers                                                                 *)

NameTaken(n) == \E e \in Email : users[e] # None /\ users[e].name = n

Inactive(e) == users[e] # None /\ ~users[e].active

\* Mutant of HashAgrees: the token's hash is not looked at.
HashAgreesAny(u, t) == u.link # NoToken => u.linkFresh

\* A row that has a hash accepts the token of that hash only, until it expires.
HashAgrees(u, t) == u.link # NoToken => u.link = t /\ u.linkFresh

\* The user a live token names, if the row is still that user's.
Named(t) ==
    LET d == holder[t] IN
    IF users[d.email] # None /\ users[d.email].name = d.name
    THEN users[d.email] ELSE None

\* The POST of an activation link succeeds, once Redis has answered.
Accepts(t) == /\ Named(t) # None
              /\ ~Named(t).active
              /\ HashAgrees(Named(t), t)

\* What the GET of an activation link answers.
CheckLink(t) ==
    CASE t \notin redis ->
            IF \E e \in Email : /\ users[e] # None
                                /\ users[e].link = t
                                /\ users[e].active
            THEN "already active" ELSE "invalid"
      [] t \in redis /\ (Named(t) = None \/ ~HashAgrees(Named(t), t)) -> "invalid"
      [] OTHER -> IF Named(t).active THEN "already active" ELSE "valid"

Start(k, request) == task[k] = None /\ task' = [task EXCEPT ![k] = request]
Done(k) == task' = [task EXCEPT ![k] = None]

NewUser(n) == [Legacy(n) EXCEPT !.id = created + 1]

\* Mutant of OpenWindow: SET without NX.
OpenWindowAlways(c) ==
    /\ windows < MaxWindows
    /\ windows' = windows + 1
    /\ cooldown' = cooldown \cup {c}
    /\ credit' = [credit EXCEPT ![c] = IF c \in cooldown THEN @ ELSE @ + 1]

\* SET NX EX: only the request that creates the key goes on.
OpenWindow(c) ==
    /\ c \notin cooldown
    /\ windows < MaxWindows
    /\ windows' = windows + 1
    /\ cooldown' = cooldown \cup {c}
    /\ credit' = [credit EXCEPT ![c] = @ + 1]

\* A fresh token goes to Redis before the transaction ends either way.
CreateActivationToken(e, n) ==
    /\ issued < MaxTokens
    /\ issued' = issued + 1
    /\ redis' = redis \cup {issued'}
    /\ holder' = [t \in DOMAIN holder \cup {issued'} |->
                     IF t = issued' THEN [email |-> e, name |-> n] ELSE holder[t]]

\* The row gets the hash and the expiry, the outbox the mail with the link.
QueueActivation(e, u) ==
    /\ CreateActivationToken(e, u.name)
    /\ users' = [users EXCEPT ![e] = [u EXCEPT !.link = issued',
                                               !.linkFresh = TRUE]]
    /\ mailed' = mailed \cup {issued'}
    /\ newest' = [newest EXCEPT ![e].activation = issued']

-----------------------------------------------------------------------------
(* Registration and resend                                                 *)

\* Neither the name nor the address is known yet (409 and the generic answer
\* leave nothing behind).
RegisterCheck(k, e, n) ==
    /\ ~NameTaken(n)
    /\ users[e] = None
    /\ Start(k, [kind |-> "register", email |-> e, name |-> n])
    /\ UNCHANGED <<stores, issued, history, sessions>>

\* INSERT in a savepoint; a unique violation (23505) ends the request.
RegisterInsert(k) ==
    LET r == task[k] IN
    /\ r # None /\ r.kind = "register"
    /\ IF NameTaken(r.name) \/ users[r.email] # None
       THEN UNCHANGED <<users, redis, holder, issued, mailed, newest, created>>
       ELSE /\ created < MaxAccounts
            /\ QueueActivation(r.email, NewUser(r.name))
            /\ created' = created + 1
    /\ Done(k)
    /\ UNCHANGED <<cooldown, uses, credit, windows, sessions>>

ResendThrottle(k, e) ==
    /\ OpenWindow(<<"resend", Norm[e]>>)
    /\ Start(k, [kind |-> "resend", email |-> e])
    /\ UNCHANGED <<users, redis, holder, issued, mailed, newest, uses, created,
                   sessions>>

\* SELECT ... FOR UPDATE, and a new link for a user that is not active.
Resend(k) ==
    LET r == task[k] IN
    /\ r # None /\ r.kind = "resend"
    /\ IF Inactive(r.email)
       THEN /\ QueueActivation(r.email, users[r.email])
            /\ credit' = [credit EXCEPT ![<<"resend", Norm[r.email]>>] = @ - 1]
       ELSE UNCHANGED <<users, redis, holder, issued, mailed, newest, credit>>
    /\ Done(k)
    /\ UNCHANGED <<cooldown, uses, windows, created, sessions>>

\* The transaction of a request rolls back, after its token went to Redis.
RollBack(k) ==
    LET r == task[k] IN
    /\ r # None /\ r.kind \in {"register", "resend"}
    /\ LET n == IF r.kind = "register" THEN r.name ELSE users[r.email].name IN
       /\ r.kind = "resend" => Inactive(r.email)
       /\ CreateActivationToken(r.email, n)
    /\ Done(k)
    /\ UNCHANGED <<users, cooldown, history, sessions>>

\* A request fails before it wrote anything more: a lost connection, a crash.
Abandon(k) ==
    /\ task[k] # None
    /\ Done(k)
    /\ UNCHANGED <<stores, issued, history, sessions>>

-----------------------------------------------------------------------------
(* Activation, login and reset                                             *)

\* verify_activation_token: Redis knows the token, before any row is locked.
ActivateVerify(k, t) ==
    /\ t \in mailed \cap redis
    /\ Start(k, [kind |-> "activate", token |-> t])
    /\ UNCHANGED <<stores, issued, history, sessions>>

Activate(k) ==
    LET r == task[k] IN
    /\ r # None /\ r.kind = "activate"
    /\ IF Accepts(r.token)
       THEN /\ users' = [users EXCEPT ![holder[r.token].email].active = TRUE]
            /\ uses' = [uses EXCEPT ![r.token] = @ + 1]
       ELSE UNCHANGED <<users, uses>>
    /\ Done(k)
    /\ UNCHANGED <<redis, holder, cooldown, issued, mailed, newest, credit,
                   windows, created, sessions>>

MayLogIn(e) == users[e] # None /\ users[e].active

\* The password is the user's.  Sessions do not meet: one is followed.
Login(e) ==
    /\ sessions = {}
    /\ MayLogIn(e)
    /\ sessions' = sessions \cup {<<e, users[e].id>>}
    /\ UNCHANGED <<stores, task, issued, history>>

ResetThrottle(k, e) ==
    /\ OpenWindow(<<"reset", e>>)
    /\ Start(k, [kind |-> "reset", email |-> e])
    /\ UNCHANGED <<users, redis, holder, issued, mailed, newest, uses, created,
                   sessions>>

\* SELECT ... FOR UPDATE; the new hash replaces the one before it.
RequestPasswordReset(k) ==
    LET r == task[k] IN
    /\ r # None /\ r.kind = "reset"
    /\ IF users[r.email] # None /\ users[r.email].active
       THEN /\ issued < MaxTokens
            /\ issued' = issued + 1
            /\ users' = [users EXCEPT ![r.email].reset = issued',
                                      ![r.email].resetFresh = TRUE]
            /\ mailed' = mailed \cup {issued'}
            /\ newest' = [newest EXCEPT ![r.email].reset = issued']
            /\ credit' = [credit EXCEPT ![<<"reset", r.email>>] = @ - 1]
       ELSE UNCHANGED <<users, issued, mailed, newest, credit>>
    /\ Done(k)
    /\ UNCHANGED <<redis, holder, cooldown, uses, windows, created, sessions>>

\* The hash and the expiry are cleared with the password's change.
AfterReset(u) == [u EXCEPT !.reset = NoToken, !.resetFresh = FALSE]

\* SELECT ... WHERE password_reset_hash = digest FOR UPDATE.
ResetPassword(t) ==
    /\ t \in mailed
    /\ \E e \in Email :
          /\ users[e] # None
          /\ users[e].active /\ users[e].reset = t /\ users[e].resetFresh
          /\ users' = [users EXCEPT ![e] = AfterReset(users[e])]
    /\ uses' = [uses EXCEPT ![t] = IF @ > 1 THEN @ ELSE @ + 1]
    /\ UNCHANGED <<redis, holder, cooldown, task, issued, mailed, newest, credit,
                   windows, created, sessions>>

-----------------------------------------------------------------------------
(* The clean-up job, and time                                              *)

\* Mutants of Stale: the expiry, or is_active, is missing from the WHERE.
StaleFresh(u) == ~u.active
StaleActive(u) == u.link = NoToken \/ ~u.linkFresh

Stale(u) == ~u.active /\ (u.link = NoToken \/ ~u.linkFresh)

\* The retention period is longer than the life of a token: a row from
\* before the hashes is not old while its link is alive.
MayBeOld(e) ==
    users[e] # None /\ (users[e].link = NoToken => newest[e].activation \notin redis)

\* One DELETE, of the stale rows among those created before the cutoff; a row
\* another transaction has locked is looked at again when that one has ended.
CleanupUsers(old) ==
    LET stale == {e \in old : Stale(users[e])} IN
    /\ stale # {}
    /\ users' = [e \in Email |-> IF e \in stale THEN None ELSE users[e]]
    /\ UNCHANGED <<redis, holder, cooldown, task, issued, history, sessions>>

\* A TTL ends, or Redis evicts or loses the key.  Whether a token that was
\* never mailed expires makes no difference: nobody presents it.
TokenExpires(t) ==
    /\ t \in redis \cap mailed
    /\ redis' = redis \ {t}
    /\ UNCHANGED <<users, holder, cooldown, task, issued, history, sessions>>

CooldownExpires(c) ==
    /\ c \in cooldown
    /\ cooldown' = cooldown \ {c}
    /\ UNCHANGED <<users, redis, holder, task, issued, history, sessions>>

\* activation_expires_at is computed after the token's TTL has begun, for the
\* same number of minutes.
LinkExpires(e) ==
    /\ users[e] # None
    /\ users[e].linkFresh /\ users[e].link \notin redis
    /\ users' = [users EXCEPT ![e].linkFresh = FALSE]
    /\ UNCHANGED <<redis, holder, cooldown, task, issued, history, sessions>>

ResetExpires(e) ==
    /\ users[e] # None /\ users[e].resetFresh
    /\ users' = [users EXCEPT ![e].resetFresh = FALSE]
    /\ UNCHANGED <<redis, holder, cooldown, task, issued, history, sessions>>

Clock == \/ \E t \in Token : TokenExpires(t)
         \/ \E c \in Cooldown : CooldownExpires(c)
         \/ \E e \in Email : LinkExpires(e) \/ ResetExpires(e)

Handle(k) ==
    \/ \E e \in Email : \/ \E n \in Name : RegisterCheck(k, e, n)
                        \/ ResendThrottle(k, e)
                        \/ ResetThrottle(k, e)
    \/ \E t \in Token : ActivateVerify(k, t)
    \/ RegisterInsert(k) \/ Resend(k) \/ Activate(k) \/ RequestPasswordReset(k)
    \/ RollBack(k) \/ Abandon(k)

Next == \/ \E k \in Task : Handle(k)
        \/ \E e \in Email : Login(e)
        \/ \E t \in Token : ResetPassword(t)
        \/ \E old \in SUBSET {e \in Email : MayBeOld(e)} : CleanupUsers(old)
        \/ Clock

Spec == Init /\ [][Next]_vars

-----------------------------------------------------------------------------
(* Properties                                                              *)

TypeOK ==
    /\ users \in [Email -> Row \cup {None}]
    /\ redis \in SUBSET Token
    /\ DOMAIN holder \in SUBSET Token
    /\ \A t \in DOMAIN holder : holder[t] \in [email : Email, name : Name]
    /\ cooldown \in SUBSET Cooldown
    /\ task \in [Task -> Request \cup {None}]
    /\ issued \in 0..MaxTokens
    /\ mailed \in SUBSET Token
    /\ newest \in [Email -> [activation : Token \cup {NoToken},
                             reset : Token \cup {NoToken}]]
    /\ uses \in [Token -> 0..2]
    /\ credit \in [Cooldown -> Int]
    /\ windows \in 0..MaxWindows
    /\ created \in 0..MaxAccounts
    /\ sessions \in SUBSET (Email \X (1..MaxAccounts))
    /\ \A e, f \in Email : users[e] # None /\ users[f] # None /\ e # f
                              => users[e].name # users[f].name

\* The link of the last activation mail of an account that is not active
\* works for as long as Redis keeps its token, whatever other requests,
\* rolled-back transactions and the clean-up job did since: the two stores
\* never disagree about it.
LatestLinkWorks ==
    \A e \in Email :
        LET t == newest[e].activation IN
        t \in redis /\ ~(users[e] # None /\ users[e].active) => Accepts(t)

\* A link activates an account or changes a password once, and only the last
\* one mailed to that address does: a resend or a second reset request kills
\* the links before it, also for a request that had verified its token.
OnlyNewestLinkOnce ==
    [][\A t \in Token : uses'[t] # uses[t] =>
          /\ uses[t] = 0
          /\ \E e \in Email : t \in {newest[e].activation, newest[e].reset}]_vars

\* A mailed link that does not work never comes to life again: not when its
\* account is deleted and the address and name register anew, not when a later
\* link expires, and not by a token in Redis that outlives the row.
DeadLinksStayDead ==
    [][\A t \in mailed : CheckLink(t) # "valid" => CheckLink(t)' # "valid"]_vars

\* An address gets at most one resent link, and one reset link, per cooldown
\* window, with any number of requests at the same time and also when a
\* window ends while its request is still running.
MailsBounded == \A c \in Cooldown : credit[c] >= 0

\* get_current_user and get_current_user_ws find the user of a session.
CurrentUser(s) == /\ users[s[1]] # None
                  /\ users[s[1]].id = s[2]
                  /\ users[s[1]].active

\* Nobody who has logged in loses the account: the clean-up never deletes it,
\* and an account created later for the same address does not take over its
\* sessions.
SessionsHaveTheirUser == \A s \in sessions : CurrentUser(s)
=============================================================================

---------------------------- MODULE NoticesProofs ----------------------------
(***************************************************************************)
(* Proofs about Notices, for any members, subscriptions, events and        *)
(* bounds.  The properties rest on one inductive invariant; each action    *)
(* keeps it by one lemma per group of actions.                             *)
(***************************************************************************)
EXTENDS Notices, TLAPS

USE NoticesAssumption

\* What waits, was handled or recorded was published.
OnlyPublished ==
    \A e \in Event : queued[e] > 0 => e \in published

\* Until its first acknowledgement an alert's steady subscriptions are on.
SteadyAreOn ==
    \A e \in Alert : e \notin done => steady[e] \subseteq Subscribed(subs, e)

\* Who was sent a reset link was active, and stays it.
ResetsAreActive ==
    \A e \in published \cap AccountMail :
        About[e].kind = "reset" => account[About[e].user] = "active"

IndInv ==
    /\ TypeOK
    /\ OnlyPublished
    /\ SteadyAreOn
    /\ SteadySubscribersReached
    /\ ResetsAreActive
    /\ WaitingAccountsGetMail

(* The subscriptions that ingest looks up are those whose owners expect    *)
(* the alert.                                                              *)
LEMMA EnabledIsSubscribed ==
  ASSUME NEW s, NEW e
  PROVE  Enabled(s, e) = Subscribed(s, e)
  BY DEF Enabled, Subscribed, Matches

LEMMA InitIndInv == Init => IndInv
  BY DEF Init, IndInv, TypeOK, OnlyPublished, SteadyAreOn,
     SteadySubscribersReached, ResetsAreActive, WaitingAccountsGetMail, Status,
     Event

(* A write moves neither messages nor rows; Follow keeps the history.      *)
LEMMA StoreIndInv ==
  ASSUME IndInv, NEW s \in [Key -> {"none", "off", "on"}],
         admitted' \in SUBSET Request, Store(s)
  PROVE  IndInv'
<1>. USE DEF IndInv, Store, Follow
<1>1. TypeOK'
  <2>1. steady' \in [Event -> SUBSET Key]
    BY DEF TypeOK
  <2>. QED BY <2>1 DEF TypeOK
<1>2. OnlyPublished'
  BY DEF OnlyPublished
<1>3. SteadyAreOn'
  BY DEF SteadyAreOn, Subscribed, TypeOK, Event
<1>4. SteadySubscribersReached'
  BY DEF SteadySubscribersReached, TypeOK, Event, Delivery, Targets
<1>5. ResetsAreActive'
  BY DEF ResetsAreActive
<1>6. WaitingAccountsGetMail'
  BY DEF WaitingAccountsGetMail, Addressed
<1>. QED BY <1>1, <1>2, <1>3, <1>4, <1>5, <1>6

(* A row that moves takes the requests that hold it along.                 *)
LEMMA MovedAreRequests ==
  ASSUME NEW Q \in SUBSET Request, NEW k \in Key, NEW l \in Key
  PROVE  Moved(Q, k, l) \in SUBSET Request
<1>. SUFFICES ASSUME NEW q \in Q PROVE [q EXCEPT !.key = l] \in Request
  BY DEF Moved
<1>. QED BY DEF Request

LEMMA WriteIndInv ==
  ASSUME IndInv, NEW r \in admitted, Write(r)
  PROVE  IndInv'
<1>. USE DEF IndInv, TypeOK
<1>0. r \in Request /\ r.key \in Key /\ Others(r) \in SUBSET Request
  BY DEF Request, Others
<1>1. ASSUME NEW x \in {"on", "off"}, CreateSubscription(r, x)
      PROVE  IndInv'
  BY <1>0, <1>1, StoreIndInv DEF CreateSubscription
<1>2. ASSUME NEW x \in {"on", "off"}, NEW l \in Key, UpdateSubscription(r, l, x)
      PROVE  IndInv'
  <2>1. Moved(Others(r), r.key, l) \in SUBSET Request
    BY <1>0, MovedAreRequests
  <2>. QED BY <1>0, <1>2, <2>1, StoreIndInv DEF UpdateSubscription
<1>3. CASE DeleteSubscription(r)
  <2>1. Removed(Others(r), r.key) \in SUBSET Request
    BY <1>0 DEF Removed
  <2>. QED BY <1>0, <1>3, <2>1, StoreIndInv DEF DeleteSubscription
<1>4. CASE Refuse(r)
  BY <1>0, <1>4 DEF Refuse, history, OnlyPublished, SteadyAreOn,
     SteadySubscribersReached, ResetsAreActive, WaitingAccountsGetMail, Addressed
<1>. QED BY <1>1, <1>2, <1>3, <1>4 DEF Write

LEMMA AdmitIndInv ==
  ASSUME IndInv, NEW k \in Key, NEW op \in {"create", "update", "delete"},
         Admit(k, op)
  PROVE  IndInv'
<1>. USE DEF IndInv, Admit, Change, history
<1>1. TypeOK'
  BY DEF TypeOK, Request
<1>2. OnlyPublished' /\ SteadyAreOn' /\ SteadySubscribersReached'
  BY DEF OnlyPublished, SteadyAreOn, SteadySubscribersReached
<1>3. ResetsAreActive' /\ WaitingAccountsGetMail'
  BY DEF ResetsAreActive, WaitingAccountsGetMail, Addressed
<1>. QED BY <1>1, <1>2, <1>3

LEMMA EditIndInv ==
  ASSUME IndInv, Edit
  PROVE  IndInv'
  BY AdmitIndInv, WriteIndInv DEF Edit

(* Members and accounts: rows and subscriptions stay.                      *)
LEMMA MemberIndInv ==
  ASSUME IndInv, NEW u \in User, RemoveMember(u) \/ AddMember(u)
  PROVE  IndInv'
<1>. USE DEF IndInv, RemoveMember, AddMember, Change, history
<1>1. TypeOK'
  BY DEF TypeOK
<1>2. OnlyPublished' /\ ResetsAreActive'
  BY DEF OnlyPublished, ResetsAreActive
<1>3. SteadyAreOn' /\ SteadySubscribersReached'
  BY DEF SteadyAreOn, SteadySubscribersReached
<1>4. WaitingAccountsGetMail'
  BY DEF WaitingAccountsGetMail, Addressed
<1>. QED BY <1>1, <1>2, <1>3, <1>4

LEMMA AccountIndInv ==
  ASSUME IndInv, NEW u \in Applicant, AccountChanges(u)
  PROVE  IndInv'
<1>. USE DEF IndInv, AccountChanges, history
<1>1. TypeOK'
  BY DEF TypeOK, Status
<1>2. OnlyPublished'
  BY DEF OnlyPublished
<1>3. SteadyAreOn' /\ SteadySubscribersReached'
  BY DEF SteadyAreOn, SteadySubscribersReached
<1>4. ResetsAreActive'
  BY DEF ResetsAreActive, TypeOK
<1>5. WaitingAccountsGetMail'
  <2>. SUFFICES ASSUME NEW e \in AccountMail, Addressed(e)',
                       e \in published
                PROVE  Addressed(e)
    BY DEF WaitingAccountsGetMail, TypeOK
  <2>. QED BY DEF Addressed, ResetsAreActive, TypeOK
<1>. QED BY <1>1, <1>2, <1>3, <1>4, <1>5

(* The broker's side.                                                      *)
LEMMA PublishIndInv ==
  ASSUME IndInv, NEW e \in Event, Publish(e)
  PROVE  IndInv'
<1>. USE DEF IndInv, Publish, Event
<1>0. e \notin done /\ e \notin published
  BY DEF TypeOK
<1>1. TypeOK'
  BY DEF TypeOK, Subscribed
<1>2. OnlyPublished'
  BY DEF OnlyPublished, TypeOK
<1>3. SteadyAreOn'
  BY DEF SteadyAreOn, TypeOK
<1>4. SteadySubscribersReached'
  BY <1>0 DEF SteadySubscribersReached, TypeOK
<1>5. ResetsAreActive'
  BY DEF ResetsAreActive, Addressed
<1>6. WaitingAccountsGetMail'
  BY <1>0 DEF WaitingAccountsGetMail, Addressed
<1>. QED BY <1>1, <1>2, <1>3, <1>4, <1>5, <1>6

LEMMA DuplicateIndInv ==
  ASSUME IndInv, NEW e \in Event, Duplicate(e)
  PROVE  IndInv'
<1>. USE DEF IndInv, Duplicate, history
<1>1. TypeOK'
  BY DEF TypeOK
<1>2. OnlyPublished' /\ ResetsAreActive'
  BY DEF OnlyPublished, ResetsAreActive, TypeOK
<1>3. SteadyAreOn' /\ SteadySubscribersReached'
  BY DEF SteadyAreOn, SteadySubscribersReached
<1>4. WaitingAccountsGetMail'
  BY DEF WaitingAccountsGetMail, Addressed
<1>. QED BY <1>1, <1>2, <1>3, <1>4

(* A first acknowledgement finds the steady subscriptions on, and gives    *)
(* each its row.                                                           *)
LEMMA IngestAlertIndInv ==
  ASSUME IndInv, NEW e \in Event, IngestAlert(e)
  PROVE  IndInv'
<1>. USE DEF IndInv, IngestAlert, Acknowledge, Record, Event
<1>1. TypeOK'
  <2>1. e \in published
    BY DEF OnlyPublished, TypeOK
  <2>2. \A r \in rows' : r.event \in events'
    BY DEF TypeOK, Delivery
  <2>3. queued' \in [Event -> 0..MaxCopies]
    BY DEF TypeOK
  <2>. QED BY <2>1, <2>2, <2>3 DEF TypeOK
<1>2. OnlyPublished'
  BY DEF OnlyPublished, TypeOK
<1>3. SteadyAreOn'
  BY DEF SteadyAreOn
<1>4. SteadySubscribersReached'
  <2>. SUFFICES ASSUME NEW a \in Alert, a \in done', NEW k \in steady[a]
                PROVE  Delivery(a, Targets(k)) \subseteq rows'
    BY DEF SteadySubscribersReached
  <2>1. CASE a \in done
    BY <2>1 DEF SteadySubscribersReached
  <2>2. CASE a \notin done
    <3>1. a = e
      BY <2>2
    <3>2. k \in Enabled(subs, e)
      BY <2>2, <3>1, EnabledIsSubscribed DEF SteadyAreOn
    <3>3. Targets(k) \subseteq UNION {Targets(j) : j \in Enabled(subs, e)}
      BY <3>2
    <3>. QED BY <3>1, <3>3 DEF Delivery
  <2>. QED BY <2>1, <2>2
<1>5. ResetsAreActive'
  BY DEF ResetsAreActive
<1>6. WaitingAccountsGetMail'
  BY DEF WaitingAccountsGetMail, Addressed
<1>. QED BY <1>1, <1>2, <1>3, <1>4, <1>5, <1>6

(* A dead letter acknowledges nothing.                                     *)
LEMMA DeadLetterIndInv ==
  ASSUME IndInv, NEW e \in Event, NEW reason \in {"clash", "unknown", "failure"},
         SendToDlq(e, reason)
  PROVE  IndInv'
<1>. USE DEF IndInv, SendToDlq, history
<1>1. TypeOK'
  <2>1. queued' \in [Event -> 0..MaxCopies]
    BY DEF TypeOK
  <2>2. dead' \in SUBSET DeadLetter
    BY DEF TypeOK, DeadLetter
  <2>. QED BY <2>1, <2>2 DEF TypeOK
<1>2. OnlyPublished'
  BY DEF OnlyPublished, TypeOK
<1>3. SteadyAreOn' /\ SteadySubscribersReached'
  BY DEF SteadyAreOn, SteadySubscribersReached
<1>4. ResetsAreActive' /\ WaitingAccountsGetMail'
  BY DEF ResetsAreActive, WaitingAccountsGetMail, Addressed
<1>. QED BY <1>1, <1>2, <1>3, <1>4

LEMMA IngestAccountMailIndInv ==
  ASSUME IndInv, NEW e \in Event, IngestAccountMail(e)
  PROVE  IndInv'
<1>. USE DEF IndInv, IngestAccountMail, Acknowledge, Record, Event
<1>1. TypeOK'
  <2>1. e \in published
    BY DEF OnlyPublished, TypeOK
  <2>2. \A r \in rows' : r.event \in events'
    BY DEF TypeOK, Delivery
  <2>3. queued' \in [Event -> 0..MaxCopies]
    BY DEF TypeOK
  <2>. QED BY <2>1, <2>2, <2>3 DEF TypeOK
<1>2. OnlyPublished'
  BY DEF OnlyPublished, TypeOK
<1>3. SteadyAreOn'
  BY DEF SteadyAreOn
<1>4. SteadySubscribersReached'
  BY DEF SteadySubscribersReached
<1>5. ResetsAreActive'
  BY DEF ResetsAreActive
<1>6. WaitingAccountsGetMail'
  <2>1. About[e] \in [user : Applicant, kind : {"activation", "reset"}]
    OBVIOUS
  <2>2. Addressed(e) => StillWanted(e)
    BY <2>1 DEF Addressed, StillWanted
  <2>. QED BY <2>2 DEF WaitingAccountsGetMail, Addressed
<1>. QED BY <1>1, <1>2, <1>3, <1>4, <1>5, <1>6

LEMMA StutterIndInv ==
  ASSUME IndInv, UNCHANGED vars
  PROVE  IndInv'
  BY DEF IndInv, vars, history, TypeOK, OnlyPublished, SteadyAreOn,
     SteadySubscribersReached, ResetsAreActive, WaitingAccountsGetMail, Addressed

(* The inductive invariant holds in every reachable state of Notices.      *)
THEOREM NoticesInductive == Spec => []IndInv
<1>1. IndInv /\ [Next]_vars => IndInv'
  <2>. SUFFICES ASSUME IndInv, [Next]_vars PROVE IndInv'
    OBVIOUS
  <2>1. CASE Edit
    BY <2>1, EditIndInv
  <2>2. CASE \E u \in User : RemoveMember(u) \/ AddMember(u)
    BY <2>2, MemberIndInv
  <2>3. CASE \E u \in Applicant : AccountChanges(u)
    BY <2>3, AccountIndInv
  <2>4. CASE \E e \in Event : Publish(e) \/ Duplicate(e)
    BY <2>4, PublishIndInv, DuplicateIndInv
  <2>5. CASE Worker
    BY <2>5, IngestAlertIndInv, IngestAccountMailIndInv, DeadLetterIndInv
       DEF Worker, DeadLetterAlert, DeadLetterAccountMail
  <2>6. CASE UNCHANGED vars
    BY <2>6, StutterIndInv
  <2>. QED BY <2>1, <2>2, <2>3, <2>4, <2>5, <2>6 DEF Next
<1>. QED BY <1>1, InitIndInv, PTL DEF Spec

(* Type correctness of the rows, the queue and the subscriptions.          *)
THEOREM NoticesTypeOK == Spec => []TypeOK
  BY NoticesInductive, PTL DEF IndInv

(* Whoever was subscribed from an alert's publication to its first         *)
(* acknowledgement has a delivery row for it.                              *)
THEOREM NoticesSteadySubscribersReached == Spec => []SteadySubscribersReached
  BY NoticesInductive, PTL DEF IndInv

(* A mail that is still asked for is not acknowledged without its row.     *)
THEOREM NoticesWaitingAccountsGetMail == Spec => []WaitingAccountsGetMail
  BY NoticesInductive, PTL DEF IndInv

(* A request that is not yet admitted stays out without its membership.    *)
LEMMA NoneAdmitted ==
  ASSUME IndInv, [Next]_vars, NEW u \in User, u \notin member', InFlight(u) = {}
  PROVE  InFlight(u)' = {}
<1>. USE DEF IndInv, TypeOK, InFlight
<1>1. ASSUME NEW k \in Key, NEW op \in {"create", "update", "delete"}, Admit(k, op)
      PROVE  InFlight(u)' = {}
  BY <1>1 DEF Admit, MayEdit
<1>2. ASSUME NEW r \in admitted, Write(r)
      PROVE  InFlight(u)' = {}
  <2>1. r.key.user # u
    OBVIOUS
  <2>2. CASE admitted' \subseteq admitted
    BY <2>2
  <2>3. ASSUME NEW l \in Key, l.user = r.key.user,
               admitted' = Moved(Others(r), r.key, l)
        PROVE  InFlight(u)' = {}
    <3>1. SUFFICES ASSUME NEW p \in admitted', p.key.user = u PROVE FALSE
      OBVIOUS
    <3>2. PICK q \in Others(r) :
             p = IF Holds(q, r.key) THEN [q EXCEPT !.key = l] ELSE q
      BY <2>3 DEF Moved
    <3>3. q \in admitted /\ q \in Request
      BY DEF Others
    <3>4. [q EXCEPT !.key = l].key = l
      BY <3>3 DEF Request
    <3>. QED BY <2>1, <2>3, <3>1, <3>2, <3>3, <3>4
  <2>. QED
    BY <1>2, <2>2, <2>3 DEF Write, CreateSubscription, UpdateSubscription,
       DeleteSubscription, Refuse, Others, Removed
<1>3. CASE ~Edit
  <2>1. admitted' = admitted
    BY <1>3 DEF Next, vars, Worker, RemoveMember, AddMember, AccountChanges,
       Publish, Duplicate, IngestAlert, DeadLetterAlert, SendToDlq,
       IngestAccountMail, DeadLetterAccountMail
  <2>. QED BY <2>1
<1>. QED BY <1>1, <1>2, <1>3 DEF Edit

(* With no request of its owner under way a subscription stays as it is.   *)
LEMMA NothingWritten ==
  ASSUME IndInv, [Next]_vars, NEW k \in Key, InFlight(k.user) = {}
  PROVE  subs'[k] = subs[k]
<1>. USE DEF IndInv, TypeOK
<1>1. ASSUME NEW r \in admitted, Write(r)
      PROVE  subs'[k] = subs[k]
  <2>1. r.key.user # k.user
    BY DEF InFlight
  <2>. QED
    BY <1>1, <2>1 DEF Write, CreateSubscription, UpdateSubscription,
       DeleteSubscription, Refuse, Store
<1>2. CASE ~(\E r \in admitted : Write(r))
  BY <1>2 DEF Next, Edit, Admit, vars, history, Worker, RemoveMember, AddMember,
     AccountChanges, Publish, Duplicate, IngestAlert, DeadLetterAlert, SendToDlq,
     IngestAccountMail, DeadLetterAccountMail
<1>. QED BY <1>1, <1>2

(* Somebody who is no member, and has no request under way from before,    *)
(* gets none admitted, and the subscriptions stay as they are.             *)
THEOREM NoticesRemovalFreezes == Spec => RemovalFreezes
<1>1. IndInv /\ [Next]_vars =>
         [\A u \in User : u \notin member' /\ InFlight(u) = {} =>
             /\ InFlight(u)' = {}
             /\ \A k \in Key : k.user = u => subs'[k] = subs[k]]_vars
  BY NoneAdmitted, NothingWritten
<1>. QED BY <1>1, NoticesInductive, PTL DEF Spec, RemovalFreezes
=============================================================================

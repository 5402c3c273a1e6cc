------------------------- MODULE NotifyPresenceProofs -------------------------
(***************************************************************************)
(* Theorems about NotifyPresence: the types, the thread that belongs to    *)
(* each notification, and that a presence check keeps the promise of       *)
(* UserPresence.                                                           *)
(***************************************************************************)
EXTENDS NotifyPresence, TLAPS

AllLabels == {"idle", "lock", "waiting", "woken", "join", "show", "present", "absent", "none", "wait", "done"}

\* pc as a function, which is all a step needs to know of it.
PcType ==
  /\ pc \in [Threads -> AllLabels]
  /\ pc["hid"] \in {"idle", "lock", "waiting", "woken", "join", "show", "present", "absent"}
  /\ pc["gtk"] \in {"idle", "lock", "waiting", "woken", "join"}
  /\ pc["notify"] \in {"none", "lock", "wait", "done"}

Flags ==
  /\ mutex \in Closers \cup {"none"}
  /\ userPresent \in BOOLEAN /\ expired \in BOOLEAN /\ notification \in BOOLEAN /\ alive \in BOOLEAN
  /\ callback \in {"confirm", "closed"}

\* Who joins, or shows a notification, has the mutex, and nobody else keeps it; it is
\* shown to an absent user.
MutexInv ==
  /\ \A t \in Closers : mutex = t <=> pc[t] \in {"join", "show"}
  /\ pc["hid"] = "show" => ~userPresent

PresenceInv == PcType /\ Flags /\ ThreadPerNotification /\ MutexInv

\* The initial state satisfies the invariant.
LEMMA PresenceInit == Init => PresenceInv
<1> SUFFICES ASSUME Init PROVE PresenceInv
  OBVIOUS
<1> USE DEF Init, Threads, Closers
<1>1. PcType
  BY DEF PcType, AllLabels
<1>2. Flags
  BY DEF Flags
<1>3. ThreadPerNotification
  BY DEF ThreadPerNotification
<1>4. MutexInv
  BY DEF MutexInv
<1>5. QED
  BY <1>1, <1>2, <1>3, <1>4 DEF PresenceInv

\* Every step keeps the invariant.
LEMMA PresenceStep == PresenceInv /\ [Next]_vars => PresenceInv'
<1> SUFFICES ASSUME PresenceInv, [Next]_vars
             PROVE  PresenceInv'
  OBVIOUS
<1> USE DEF PresenceInv, PcType, AllLabels, Flags, ThreadPerNotification, MutexInv, Threads, Closers
<1>1. CASE Check
  BY <1>1 DEF Check, Resting
<1>2. CASE FindPresent
  <2>1. PcType'
    BY <1>2 DEF FindPresent, Free, CloseNothing, CloseAndWait, CloseAndJoin, KeepForJoin, PresenceAfter, AfterClosing
  <2>2. Flags'
    BY <1>2 DEF FindPresent, Free, CloseNothing, CloseAndWait, CloseAndJoin, KeepForJoin, PresenceAfter, AfterClosing
  <2>3. ThreadPerNotification'
    <3>1. notification' = notification /\ pc'["notify"] = pc["notify"]
      BY <1>2 DEF FindPresent, Free, CloseNothing, CloseAndWait, CloseAndJoin, KeepForJoin, PresenceAfter, AfterClosing
    <3>2. QED
      BY <3>1
  <2>4. MutexInv'
    BY <1>2 DEF FindPresent, Free, CloseNothing, CloseAndWait, CloseAndJoin, KeepForJoin, PresenceAfter, AfterClosing
  <2>5. QED
    BY <2>1, <2>2, <2>3, <2>4
<1>3. CASE FindAbsent
  BY <1>3 DEF FindAbsent, KeepForJoin, Free
<1>4. CASE ShowNotification
  <2>1. PcType'
    BY <1>4 DEF ShowNotification, ThreadAfterFailure
  <2>2. Flags'
    BY <1>4 DEF ShowNotification, ThreadAfterFailure
  <2>3. ThreadPerNotification'
    BY <1>4 DEF ShowNotification, ThreadAfterFailure
  <2>4. MutexInv'
    BY <1>4 DEF ShowNotification, ThreadAfterFailure
  <2>5. QED
    BY <2>1, <2>2, <2>3, <2>4
<1>5. ASSUME NEW kind \in Callbacks, Signal(kind)
      PROVE  PresenceInv'
  BY <1>5, NotifyAssumption DEF Signal
<1>6. CASE RunCallback
  <2>1. PcType'
    BY <1>6 DEF RunCallback, Free, CloseNothing, CloseAndWait, CloseAndJoin, KeepForJoin, AfterClosing
  <2>2. Flags'
    BY <1>6 DEF RunCallback, Free, CloseNothing, CloseAndWait, CloseAndJoin, KeepForJoin, AfterClosing
  <2>3. ThreadPerNotification'
    BY <1>6 DEF RunCallback, Free, CloseNothing, CloseAndWait, CloseAndJoin, KeepForJoin, AfterClosing
  <2>4. MutexInv'
    BY <1>6 DEF RunCallback, Free, CloseNothing, CloseAndWait, CloseAndJoin, KeepForJoin, AfterClosing
  <2>5. QED
    BY <2>1, <2>2, <2>3, <2>4
<1>7. ASSUME NEW t \in Closers, SpuriousWakeup(t)
      PROVE  PresenceInv'
  BY <1>7 DEF SpuriousWakeup
<1>8. ASSUME NEW t \in Closers, WaitReturns(t)
      PROVE  PresenceInv'
  BY <1>8 DEF WaitReturns, KeepForJoin, Free
<1>9. ASSUME NEW t \in Closers, Join(t)
      PROVE  PresenceInv'
  BY <1>9 DEF Join, PresenceAfter, AfterClosing
<1>10. CASE WaitMore
  BY <1>10 DEF WaitMore, Free
<1>11. CASE CloseForGood
  <2>1. PcType'
    BY <1>11 DEF CloseForGood, Free, Wake
  <2>2. Flags'
    BY <1>11 DEF CloseForGood, Free, Wake
  <2>3. ThreadPerNotification'
    BY <1>11 DEF CloseForGood, Free, Wake
  <2>4. MutexInv'
    BY <1>11 DEF CloseForGood, Free, Wake
  <2>5. QED
    BY <2>1, <2>2, <2>3, <2>4
<1>12. CASE Expire \/ Forget
  <2>1. UNCHANGED <<pc, notification, mutex>> /\ (userPresent' => userPresent)
    BY <1>12 DEF Expire, Forget
  <2>2. Flags'
    BY <1>12 DEF Expire, Forget
  <2>3. PcType'
    BY <2>1
  <2>4. ThreadPerNotification'
    BY <2>1
  <2>5. MutexInv'
    BY <2>1
  <2>6. QED
    BY <2>2, <2>3, <2>4, <2>5
<1>13. CASE UNCHANGED vars
  BY <1>13 DEF vars
<1>14. QED
  BY <1>1, <1>2, <1>3, <1>4, <1>5, <1>6, <1>7, <1>8, <1>9, <1>10, <1>11, <1>12, <1>13
     DEF Next, HidLocks

LEMMA PresenceAlways == Spec => []PresenceInv
<1>1. QED
  BY PresenceInit, PresenceStep, PTL DEF Spec

\* The deadlines, the mutex and the threads of the notification stay what they are
\* declared to be, whatever the user does and whatever wakes a wait up.
THEOREM NotifyTypes == Spec => []TypeOK
<1>1. PresenceInv => TypeOK
  BY DEF PresenceInv, PcType, Flags, MutexInv, TypeOK, Threads, Labels
<1>2. QED
  BY <1>1, PresenceAlways, PTL

\* showNotification() and closeNotification() never leave a notification without the
\* thread that closes it, nor a thread waiting for none.
THEOREM NotificationAttended == Spec => []ThreadPerNotification
<1>1. PresenceInv => ThreadPerNotification
  BY DEF PresenceInv
<1>2. QED
  BY <1>1, PresenceAlways, PTL

-----------------------------------------------------------------------------
(* isUserPresent() implements UserPresence. *)

LEMMA PresenceRefinesInit == Init => Presence!Init
BY DEF Init, Presence!Init, creditBar, answerBar, Threads

\* Every step of the program is one of the specification, or changes nothing in it.
LEMMA PresenceRefinesNext == PresenceInv /\ [Next]_vars => [Presence!Next]_(Presence!vars)
<1> SUFFICES ASSUME PresenceInv, [Next]_vars
             PROVE  [Presence!Next]_(Presence!vars)
  OBVIOUS
<1> USE DEF PresenceInv, PcType, AllLabels, Flags, ThreadPerNotification, MutexInv, Threads, Closers,
            creditBar, answerBar, Presence!Next, Presence!vars
<1>1. CASE Check
  BY <1>1 DEF Check, Resting, Presence!Ask
<1>2. CASE FindPresent
  BY <1>2 DEF FindPresent, Free, CloseNothing, CloseAndWait, CloseAndJoin, KeepForJoin, PresenceAfter, AfterClosing,
              Presence!Grant
<1>3. CASE FindAbsent
  BY <1>3 DEF FindAbsent, KeepForJoin, Free, Presence!Refuse
<1>4. CASE ShowNotification
  BY <1>4 DEF ShowNotification, ThreadAfterFailure, Presence!Refuse
<1>5. ASSUME NEW kind \in Callbacks, Signal(kind)
      PROVE  [Presence!Next]_(Presence!vars)
  BY <1>5 DEF Signal
<1>6. CASE RunCallback
  BY <1>6 DEF RunCallback, Free, CloseNothing, CloseAndWait, CloseAndJoin, KeepForJoin, AfterClosing, Presence!Confirm
<1>7. ASSUME NEW t \in Closers, SpuriousWakeup(t)
      PROVE  [Presence!Next]_(Presence!vars)
  BY <1>7 DEF SpuriousWakeup
<1>8. ASSUME NEW t \in Closers, WaitReturns(t)
      PROVE  [Presence!Next]_(Presence!vars)
  BY <1>8 DEF WaitReturns, KeepForJoin, Free
<1>9. ASSUME NEW t \in Closers, Join(t)
      PROVE  [Presence!Next]_(Presence!vars)
  BY <1>9 DEF Join, PresenceAfter, AfterClosing, Presence!Grant
<1>10. CASE WaitMore
  BY <1>10 DEF WaitMore, Free
<1>11. CASE CloseForGood
  BY <1>11 DEF CloseForGood, Free, Wake
<1>12. CASE Expire \/ Forget
  BY <1>12 DEF Expire, Forget, Presence!Lapse
<1>13. CASE UNCHANGED vars
  BY <1>13 DEF vars
<1>14. QED
  BY <1>1, <1>2, <1>3, <1>4, <1>5, <1>6, <1>7, <1>8, <1>9, <1>10, <1>11, <1>12, <1>13
     DEF Next, HidLocks

\* A presence check answers as UserPresence says, whatever the user clicks meanwhile.
THEOREM PresenceRefined == Spec => OneClickOneRequest
<1>1. QED
  BY PresenceAlways, PresenceRefinesInit, PresenceRefinesNext, PTL
     DEF Spec, OneClickOneRequest, Presence!Spec
===============================================================================

---------------------------- MODULE NotifyPresence ----------------------------
(***************************************************************************)
(* NotifySQLiteCore (src/examples/uhid-notify.cpp): the user's presence is *)
(* asked for with a desktop notification.  The HID thread shows it, a      *)
(* thread of its own closes it when its time is up, and the GTK thread     *)
(* runs the callbacks for the Confirm button and for a notification that   *)
(* has gone.                                                               *)
(*                                                                         *)
(* All shared data is protected by notifyMutex, so a step is what a thread *)
(* does from the moment it takes the mutex to the moment it releases it,   *)
(* or to a join, which it waits for with the mutex held.                   *)
(*                                                                         *)
(* userPresentUntil and notififyUntil are only ever compared with the      *)
(* present, so each is reduced to whether it has passed.  The pointer      *)
(* notifyTimeoutThread is null exactly when pc["notify"] is "none".        *)
(*                                                                         *)
(* Where a definition stands right before another one with the same        *)
(* parameters, the first is the second with a mistake in it: the checks    *)
(* are run with it in turn to see that a property notices.                 *)
(***************************************************************************)
CONSTANTS
  Callbacks,        \* what the user may do: a subset of {"confirm", "closed"}
  SpuriousWakeups   \* a wait may end although nobody has notified it

ASSUME NotifyAssumption ==
  /\ Callbacks \subseteq {"confirm", "closed"}
  /\ SpuriousWakeups \in BOOLEAN

VARIABLES
  mutex,         \* notifyMutex: who joins with it held, or "none"
  userPresent,   \* now() < userPresentUntil
  expired,       \* now() >= notififyUntil
  notification,  \* notification # nullptr
  pc,            \* where each thread is
  callback,      \* the callback GTK runs, or ran last
  alive          \* FALSE once a null thread has been joined

vars == <<mutex, userPresent, expired, notification, pc, callback, alive>>

Threads == {"hid", "gtk", "notify"}

\* The threads that close the notification, each in its own way.
Closers == {"hid", "gtk"}

Free(t, label) == alive /\ pc[t] = label /\ mutex = "none"

\* No check is being made; "present" and "absent" are what the last one found.
Resting == pc["hid"] \in {"idle", "present", "absent"}

-----------------------------------------------------------------------------
(* closeNotification(), by the HID thread after it has seen a confirmation, *)
(* or by a callback.                                                        *)

\* A thread leaves closeNotification(); isUserPresent() then ends the user's presence.
PresenceKept(t) == UNCHANGED userPresent
PresenceAfter(t) == IF t = "hid" THEN userPresent' = FALSE ELSE UNCHANGED userPresent
AfterClosing(t) == IF t = "hid" THEN "present" ELSE "idle"

CloseNothing(t) ==
  /\ pc["notify"] = "none"
  /\ pc' = [pc EXCEPT ![t] = AfterClosing(t)]
  /\ UNCHANGED <<mutex, expired, notification>>

CloseAndWait(t) ==
  /\ pc["notify"] # "none" /\ notification
  /\ expired' = TRUE
  /\ pc' = [pc EXCEPT ![t] = "waiting"]
  /\ UNCHANGED <<mutex, notification>>

\* The mutex stays locked while the thread is joined.
LetGoForJoin(t) == UNCHANGED mutex
KeepForJoin(t) == mutex' = t

CloseAndJoin(t) ==
  /\ pc["notify"] # "none" /\ ~notification
  /\ KeepForJoin(t)
  /\ pc' = [pc EXCEPT ![t] = "join"]
  /\ UNCHANGED <<expired, notification>>

SpuriousWakeup(t) ==
  /\ SpuriousWakeups
  /\ alive /\ pc[t] = "waiting"
  /\ pc' = [pc EXCEPT ![t] = "woken"]
  /\ UNCHANGED <<mutex, userPresent, expired, notification, callback, alive>>

\* notifyFinishedCondition.wait() returns, with the mutex taken again; the thread is
\* joined without another look at the pointer.
WaitReturns(t) ==
  /\ Free(t, "woken")
  /\ IF pc["notify"] = "none"
     THEN alive' = FALSE /\ UNCHANGED <<mutex, pc>>
     ELSE KeepForJoin(t) /\ pc' = [pc EXCEPT ![t] = "join"] /\ UNCHANGED alive
  /\ UNCHANGED <<userPresent, expired, notification, callback>>

Join(t) ==
  /\ alive /\ pc[t] = "join" /\ pc["notify"] = "done"
  /\ PresenceAfter(t)
  /\ mutex' = "none"
  /\ pc' = [pc EXCEPT ![t] = AfterClosing(t), !["notify"] = "none"]
  /\ UNCHANGED <<expired, notification, callback, alive>>

-----------------------------------------------------------------------------
(* isUserPresent(), on the HID thread. *)

Check ==
  /\ alive /\ Resting
  /\ pc' = [pc EXCEPT !["hid"] = "lock"]
  /\ UNCHANGED <<mutex, userPresent, expired, notification, callback, alive>>

FindPresent ==
  /\ Free("hid", "lock") /\ userPresent
  /\ \/ CloseNothing("hid") /\ PresenceAfter("hid")
     \/ (CloseAndWait("hid") \/ CloseAndJoin("hid")) /\ UNCHANGED userPresent
  /\ UNCHANGED <<callback, alive>>

\* showNotification(): gives the notification that is there more time, or makes one.
FindAbsent ==
  /\ Free("hid", "lock") /\ ~userPresent
  /\ expired' = FALSE
  /\ IF notification
     THEN pc' = [pc EXCEPT !["hid"] = "absent"] /\ UNCHANGED mutex
     ELSE pc' = [pc EXCEPT !["hid"] = "show"] /\ KeepForJoin("hid")
  /\ UNCHANGED <<userPresent, notification, callback, alive>>

\* Joins the old thread, if there is one, with the mutex held; then shows a notification,
\* which may fail.
ThreadForFailure == "lock"
ThreadAfterFailure == "none"

ShowNotification ==
  /\ alive /\ pc["hid"] = "show" /\ pc["notify"] \in {"none", "done"}
  /\ \/ notification' = TRUE /\ pc' = [pc EXCEPT !["hid"] = "absent", !["notify"] = "lock"]
     \/ UNCHANGED notification
        /\ pc' = [pc EXCEPT !["hid"] = "absent", !["notify"] = ThreadAfterFailure]
  /\ mutex' = "none"
  /\ UNCHANGED <<userPresent, expired, callback, alive>>

-----------------------------------------------------------------------------
(* The callbacks, on the GTK thread.  They are external up to the mutex: one *)
(* begins while there is a notification, may be of an action of the user or  *)
(* of this program's, and runs to its end before the next.                   *)

Signal(kind) ==
  /\ alive /\ pc["gtk"] = "idle" /\ notification
  /\ callback' = kind
  /\ pc' = [pc EXCEPT !["gtk"] = "lock"]
  /\ UNCHANGED <<mutex, userPresent, expired, notification, alive>>

RunCallback ==
  /\ Free("gtk", "lock")
  /\ userPresent' = (userPresent \/ callback = "confirm")
  /\ CloseNothing("gtk") \/ CloseAndWait("gtk") \/ CloseAndJoin("gtk")
  /\ UNCHANGED <<callback, alive>>

-----------------------------------------------------------------------------
(* notifyThread().  Its wait ends when it is notified, when the deadline it *)
(* was given passes, or for no reason, and is followed by a look at the     *)
(* deadline.                                                                *)

TimeLeftAlways == TRUE
TimeLeft == ~expired

WaitMore ==
  /\ Free("notify", "lock") \/ Free("notify", "wait")
  /\ TimeLeft
  /\ pc' = [pc EXCEPT !["notify"] = "wait"]
  /\ UNCHANGED <<mutex, userPresent, expired, notification, callback, alive>>

\* notify_all(): every thread that waits at that moment goes on.
WakeNobody(t) == pc[t]
Wake(t) == IF pc[t] = "waiting" THEN "woken" ELSE pc[t]

CloseForGood ==
  /\ Free("notify", "lock") \/ Free("notify", "wait")
  /\ ~TimeLeft
  /\ notification' = FALSE
  /\ pc' = [t \in Threads |-> IF t = "notify" THEN "done" ELSE Wake(t)]
  /\ UNCHANGED <<mutex, userPresent, expired, callback, alive>>

-----------------------------------------------------------------------------
\* The notification's five seconds are over.
Expire ==
  /\ alive /\ ~expired
  /\ expired' = TRUE
  /\ UNCHANGED <<mutex, userPresent, notification, pc, callback, alive>>

\* The confirmation's five seconds are over.
Forget ==
  /\ alive /\ userPresent
  /\ userPresent' = FALSE
  /\ UNCHANGED <<mutex, expired, notification, pc, callback, alive>>

\* The constructor sets both deadlines to the present.
Init ==
  /\ mutex = "none"
  /\ userPresent = FALSE /\ expired = TRUE
  /\ notification = FALSE
  /\ pc = [t \in Threads |-> IF t = "notify" THEN "none" ELSE "idle"]
  /\ callback = "closed"
  /\ alive = TRUE

HidLocks == FindPresent \/ FindAbsent

Next ==
  \/ Check \/ HidLocks \/ ShowNotification
  \/ \E kind \in Callbacks : Signal(kind)
  \/ RunCallback
  \/ \E t \in Closers : SpuriousWakeup(t) \/ WaitReturns(t) \/ Join(t)
  \/ WaitMore \/ CloseForGood
  \/ Expire \/ Forget

\* Threads run and none waits for ever for the mutex while others come and go; a deadline
\* that no check moves passes.  Nobody has to check, nor to touch the notification.
Fairness ==
  /\ SF_vars(HidLocks) /\ WF_vars(ShowNotification)
  /\ SF_vars(RunCallback)
  /\ \A t \in Closers : SF_vars(WaitReturns(t)) /\ WF_vars(Join(t))
  /\ SF_vars(WaitMore) /\ SF_vars(CloseForGood)
  /\ WF_vars(Resting /\ Expire)

Spec == Init /\ [][Next]_vars /\ Fairness

-----------------------------------------------------------------------------
Labels ==
  [t \in Threads |->
     CASE t = "hid" -> {"idle", "lock", "waiting", "woken", "join", "show", "present", "absent"}
       [] t = "gtk" -> {"idle", "lock", "waiting", "woken", "join"}
       [] t = "notify" -> {"none", "lock", "wait", "done"}]

\* The mutex is kept from one step to the next by the thread that joins the notification's
\* thread, before it shows another or after it has closed one, and only for that.
TypeOK ==
  /\ mutex \in Closers \cup {"none"}
  /\ userPresent \in BOOLEAN /\ expired \in BOOLEAN /\ notification \in BOOLEAN /\ alive \in BOOLEAN
  /\ DOMAIN pc = Threads /\ \A t \in Threads : pc[t] \in Labels[t]
  /\ callback \in {"confirm", "closed"}
  /\ \A t \in Closers : mutex = t <=> pc[t] \in {"join", "show"}

\* While there is a notification, and only then, a thread is there that will close it: it
\* has not ended, and the pointer to it has not been given up.
ThreadPerNotification == notification <=> pc["notify"] \in {"lock", "wait"}

\* A check finds the user present exactly when a confirmation has neither lapsed nor been
\* used: one click grants one request, whatever comes in while the check closes the
\* notification.
creditBar == userPresent \/ pc["hid"] \in {"waiting", "woken", "join"}
answerBar == IF pc["hid"] \in {"present", "absent"} THEN pc["hid"] ELSE "none"
Presence == INSTANCE UserPresence WITH credit <- creditBar, answer <- answerBar
OneClickOneRequest == Presence!Spec

\* A thread joins one that needs the mutex it holds: the end of the program, as much as
\* a null pointer is.
JoinsForEver(t) == mutex = t /\ pc["notify"] \in {"lock", "wait"}
Unharmed == alive /\ \A t \in Closers : ~JoinsForEver(t)

\* As long as neither happens a check comes back, ...
CheckReturns == ~Resting ~> (Resting \/ ~Unharmed)

\* ... and when no more checks come the notification goes, for good, and with it the last
\* callback that waits for it: no wake-up is lost between the three threads.
QuietInTheEnd == <>[]Resting => (<>[](~notification /\ pc["gtk"] = "idle") \/ <>~Unharmed)

\* "The popup must be closed after a 5s timout without u2F messages checking for user
\* presence" (uhid-notify.cpp:8-9).
PopupCloses == <>[]Resting => <>[](~notification \/ ~alive)

\* "After presence is confirmed, U2F will have only 5s to check for it" (uhid-notify.cpp:10):
\* a check that comes in time is told that the user is present.
ConfirmationIsSeen == pc["hid"] \in {"waiting", "woken", "join"} ~> pc["hid"] = "present"
===============================================================================

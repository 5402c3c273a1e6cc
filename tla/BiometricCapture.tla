--------------------------- MODULE BiometricCapture ---------------------------
(***************************************************************************)
(* u2f::BiometricCore (src/core-biometric.cpp): the fingerprint scanner is *)
(* switched on by a request and off by a thread, five seconds after the    *)
(* last request or after a success; the template of the finger on the      *)
(* scanner is written by the scanner library's threads.                    *)
(*                                                                         *)
(* A step of a thread is what it does between two accesses to data that    *)
(* another thread may change at that moment: all of a critical section,    *)
(* but for the accesses to fingerprintTemplate and isCapturing, which      *)
(* other threads change without the mutex.                                 *)
(*                                                                         *)
(* captureTimeout is only ever compared with the present, so it is reduced *)
(* to whether it has passed.  A template is a buffer on the heap that      *)
(* holds the print of a finger.                                            *)
(*                                                                         *)
(* The library is external: each reader has a thread that reports one      *)
(* event after the other, first only that it is there or gone, all of them *)
(* once the core has asked for it.  It is an assumption, not said in its   *)
(* header, that removeListener() stops the reports and waits for those     *)
(* being handled.                                                          *)
(*                                                                         *)
(* Where a definition stands right before another one with the same        *)
(* parameters, the first is the second with a mistake in it: the checks    *)
(* are run with it in turn to see that a property notices.                 *)
(***************************************************************************)
EXTENDS Integers, FiniteSets

CONSTANTS
  Readers,   \* the scanners, each with a thread of the library
  Fingers,
  Buffers,   \* templates that fit on the heap (bounds the model)
  Ops        \* the kinds of calls made: a subset of Calls

Calls == {"wink", "enroll", "authenticate", "destroy"}
NoFinger == "no finger"
Null == 0

ASSUME CaptureAssumption ==
  /\ IsFiniteSet(Readers) /\ Readers \cap {"hid", "capture", "none"} = {}
  /\ NoFinger \notin Fingers
  /\ Buffers \subseteq Nat \ {Null}
  /\ Cardinality(Buffers) > Cardinality(Readers) + 3
  /\ Ops \subseteq Calls

VARIABLES
  mutex,        \* captureMutex: the thread that holds it, or "none"
  isCapturing,
  expired,      \* captureTimeout has passed
  listening,    \* the library reports events
  attached,     \* the readers of which all events are reported
  fingerprintTemplate,
  heap,         \* buffers allocated, with the finger they describe
  pc,           \* where each thread is
  held,         \* the pointer each thread has read
  call,         \* the call the HID thread is in: its kind, the finger of its handle
  registered,   \* the templates stored in the table Handle
  rewarded,     \* allocated buffers that have made a call succeed
  alive         \* FALSE once a buffer has been used after it was freed

shared == <<isCapturing, expired, listening, attached, fingerprintTemplate, heap, registered, rewarded, alive>>
vars == <<mutex, isCapturing, expired, listening, attached, fingerprintTemplate, heap, pc, held,
          call, registered, rewarded, alive>>

Threads == {"hid", "capture"} \cup Readers

\* A step of thread t, which takes it to label.
Goto(t, label) == alive /\ pc' = [pc EXCEPT ![t] = label]

\* The last call of the HID thread has returned; it is granted what it asked for, or not.
Resting == pc["hid"] \in {"idle", "granted"}

\* captureThread is null ("none"), or its thread has returned ("done").
ThreadGone == pc["capture"] \in {"none", "done"}

-----------------------------------------------------------------------------
(* veridisutil_templateFree(&fingerprintTemplate): the pointer is read, then *)
(* what it points to is freed and the variable cleared.                      *)

ReadTemplate(t) ==
  /\ pc[t] = "free"
  /\ held' = [held EXCEPT ![t] = fingerprintTemplate]
  /\ Goto(t, "freeing")
  /\ UNCHANGED <<mutex, call, shared>>

\* Where a thread goes once it has freed the template.
AfterFree(t) == IF t = "capture" THEN "clear" ELSE IF mutex = t THEN "extract" ELSE "idle"

FreeTemplate(t) ==
  /\ pc[t] = "freeing"
  /\ held' = [held EXCEPT ![t] = Null]
  /\ Goto(t, AfterFree(t))
  /\ \/ /\ held[t] = Null
        /\ UNCHANGED <<fingerprintTemplate, heap, rewarded, alive>>
     \/ /\ held[t] \in DOMAIN heap
        /\ heap' = [b \in DOMAIN heap \ {held[t]} |-> heap[b]]
        /\ rewarded' = rewarded \ {held[t]}
        /\ fingerprintTemplate' = Null
        /\ UNCHANGED alive
     \/ /\ held[t] \notin DOMAIN heap \cup {Null}
        /\ alive' = FALSE
        /\ UNCHANGED <<fingerprintTemplate, heap, rewarded>>
  /\ UNCHANGED <<mutex, isCapturing, expired, listening, attached, call, registered>>

-----------------------------------------------------------------------------
(* The HID thread: wink(), enroll(), authenticate() with a presence check, *)
(* and the destructor when no more requests come.                          *)

Begin(kind) ==
  /\ Resting
  /\ \E f \in IF kind = "authenticate" THEN registered ELSE {NoFinger} :
       call' = [kind |-> kind, finger |-> f]
  /\ Goto("hid", "lock")
  /\ UNCHANGED <<mutex, held, shared>>

Return(label) ==
  /\ mutex' = "none"
  /\ Goto("hid", label)
  /\ held' = [held EXCEPT !["hid"] = Null]

\* captureCompleted(): makes the capture thread stop, if it is there.
CaptureCompleted == IF isCapturing THEN expired' = TRUE ELSE UNCHANGED expired

AfterEnableAlways == "join"
AfterEnable == IF isCapturing THEN "enabled" ELSE "join"

\* Takes the lock; enableCapture() up to the join.
LockAndEnable ==
  /\ pc["hid"] = "lock" /\ call.kind # "destroy"
  /\ mutex = "none"
  /\ mutex' = "hid"
  /\ expired' = FALSE
  /\ Goto("hid", AfterEnable)
  /\ UNCHANGED <<held, call, isCapturing, listening, attached, fingerprintTemplate, heap, registered, rewarded, alive>>

FlagUnset == UNCHANGED isCapturing
FlagSet == isCapturing' = TRUE

\* The rest of enableCapture(): joins the old thread, under the lock, and starts one.
JoinAndStart ==
  /\ pc["hid"] = "join"
  /\ ThreadGone
  /\ FlagSet
  /\ alive /\ pc' = [pc EXCEPT !["hid"] = "enabled", !["capture"] = "start"]
  /\ UNCHANGED <<mutex, held, call, expired, listening, attached, fingerprintTemplate, heap, registered, rewarded, alive>>

\* wink() is done; the others need a template.
CheckTemplate ==
  /\ pc["hid"] = "enabled"
  /\ IF call.kind = "wink" \/ fingerprintTemplate = Null
     THEN Return("idle")
     ELSE Goto("hid", "read") /\ UNCHANGED <<mutex, held>>
  /\ UNCHANGED <<call, shared>>

\* The pointer is read again, to be passed on, unless enroll() fails to make a key pair.
PassTemplate ==
  /\ pc["hid"] = "read"
  /\ \/ /\ held' = [held EXCEPT !["hid"] = fingerprintTemplate]
        /\ Goto("hid", "use")
        /\ UNCHANGED mutex
     \/ call.kind = "enroll" /\ Return("idle")
  /\ UNCHANGED <<call, shared>>

\* What the pointer passed on stands for; nothing when it is null.
FingerPassed == IF held["hid"] = Null THEN NoFinger ELSE heap[held["hid"]]

Reward == rewarded' = rewarded \cup ({held["hid"]} \ {Null})

UseFreed ==
  /\ pc["hid"] = "use"
  /\ held["hid"] \notin DOMAIN heap \cup {Null}
  /\ alive /\ alive' = FALSE
  /\ UNCHANGED <<mutex, pc, held, call, isCapturing, expired, listening, attached, fingerprintTemplate,
                 heap, registered, rewarded>>

\* The INSERT may fail; the scanner is switched off all the same.
Enroll ==
  /\ pc["hid"] = "use" /\ call.kind = "enroll"
  /\ held["hid"] \in DOMAIN heap \cup {Null}
  /\ CaptureCompleted
  /\ \/ registered' = registered \cup {FingerPassed} /\ Reward /\ Return("granted")
     \/ UNCHANGED <<registered, rewarded>> /\ Return("idle")
  /\ UNCHANGED <<call, isCapturing, listening, attached, fingerprintTemplate, heap, alive>>

\* A finger matches itself; a missing template matches nothing.
Authenticate ==
  /\ pc["hid"] = "use" /\ call.kind = "authenticate"
  /\ held["hid"] \in DOMAIN heap \cup {Null}
  /\ IF FingerPassed = call.finger /\ FingerPassed # NoFinger
     THEN CaptureCompleted /\ Reward /\ Return("granted")
     ELSE UNCHANGED <<expired, rewarded>> /\ Return("idle")
  /\ UNCHANGED <<call, isCapturing, listening, attached, fingerprintTemplate, heap, registered, alive>>

\* The destructor takes the lock and calls captureCompleted(true).
Destroy ==
  /\ pc["hid"] = "lock" /\ call.kind = "destroy"
  /\ mutex = "none"
  /\ mutex' = "hid"
  /\ CaptureCompleted
  /\ Goto("hid", "joinLast")
  /\ UNCHANGED <<held, call, isCapturing, listening, attached, fingerprintTemplate, heap, registered, rewarded, alive>>

JoinLast ==
  /\ pc["hid"] = "joinLast"
  /\ ThreadGone
  /\ mutex' = "none"
  /\ alive /\ pc' = [pc EXCEPT !["hid"] = "destroyed", !["capture"] = "none"]
  /\ UNCHANGED <<held, call, shared>>

-----------------------------------------------------------------------------
(* The capture thread. *)

StartListening ==
  /\ pc["capture"] = "start"
  /\ listening' = TRUE
  /\ Goto("capture", "lock")
  /\ UNCHANGED <<mutex, held, call, isCapturing, expired, attached, fingerprintTemplate, heap, registered, rewarded, alive>>

\* A wait ends when it is notified, when the deadline it was given passes, or for no
\* reason; either way the lock is taken again.
LockOrWake ==
  /\ pc["capture"] \in {"lock", "wait"}
  /\ mutex = "none"
  /\ mutex' = "capture"
  /\ Goto("capture", "loop")
  /\ UNCHANGED <<held, call, shared>>

AfterLoopAlways == "wait"
AfterLoop == IF expired THEN "remove" ELSE "wait"

WaitOrStop ==
  /\ pc["capture"] = "loop"
  /\ mutex' = "none"
  /\ Goto("capture", AfterLoop)
  /\ UNCHANGED <<held, call, shared>>

StopListening ==
  /\ pc["capture"] = "remove"
  /\ listening' = FALSE /\ attached' = {}
  /\ Goto("capture", "removing")
  /\ UNCHANGED <<mutex, held, call, isCapturing, expired, fingerprintTemplate, heap, registered, rewarded, alive>>

AfterRemovingNothing == "clear"
AfterRemoving == "free"

\* removeListener() returns.
NobodyReports ==
  /\ pc["capture"] = "removing"
  /\ \A r \in Readers : pc[r] = "idle"
  /\ Goto("capture", AfterRemoving)
  /\ UNCHANGED <<mutex, held, call, shared>>

ClearNothing ==
  /\ pc["capture"] = "clear"
  /\ Goto("capture", "end")
  /\ UNCHANGED <<mutex, held, call, isCapturing, expired, listening, attached, fingerprintTemplate, heap, registered, rewarded, alive>>
ClearCapturing ==
  /\ pc["capture"] = "clear"
  /\ isCapturing' = FALSE
  /\ Goto("capture", "end")
  /\ UNCHANGED <<mutex, held, call, expired, listening, attached, fingerprintTemplate, heap, registered, rewarded, alive>>

EndThread ==
  /\ pc["capture"] = "end"
  /\ Goto("capture", "done")
  /\ UNCHANGED <<mutex, held, call, shared>>

-----------------------------------------------------------------------------
(* onCaptureEvent(), on the thread of reader r. *)

\* Reader r is there.
Plugged(r) ==
  /\ listening /\ pc[r] = "idle" /\ r \notin attached
  /\ Goto(r, "plug")
  /\ UNCHANGED <<mutex, held, call, shared>>

\* veridiscap_addListenerToReader(), which fails when the listener has been removed.
AttachesLate(r) == attached' = attached \cup {r}
Attaches(r) == attached' = IF listening THEN attached \cup {r} ELSE attached

Attach(r) ==
  /\ pc[r] = "plug"
  /\ Attaches(r)
  /\ Goto(r, "idle")
  /\ UNCHANGED <<mutex, held, call, isCapturing, expired, listening, fingerprintTemplate, heap,
                 registered, rewarded, alive>>

\* It is unplugged, or a finger is lifted from it: no lock is taken.
Unplugged(r) ==
  /\ listening /\ pc[r] = "idle"
  /\ attached' = attached \ {r}
  /\ Goto(r, "free")
  /\ UNCHANGED <<mutex, held, call, isCapturing, expired, listening, fingerprintTemplate, heap,
                 registered, rewarded, alive>>

FingerRemoved(r) ==
  /\ r \in attached /\ pc[r] = "idle"
  /\ Goto(r, "free")
  /\ UNCHANGED <<mutex, held, call, shared>>

ImageCaptured(r) ==
  /\ r \in attached /\ pc[r] = "idle"
  /\ Goto(r, "image")
  /\ UNCHANGED <<mutex, held, call, shared>>

LockForImage(r) ==
  /\ pc[r] = "image"
  /\ mutex = "none"
  /\ mutex' = r
  /\ Goto(r, IF fingerprintTemplate # Null THEN "free" ELSE "extract")
  /\ UNCHANGED <<held, call, shared>>

\* Buffers that a thread still has a pointer to are not handed out again, so that a
\* use of a freed one does not go unnoticed.
Extract(r) ==
  /\ pc[r] = "extract"
  /\ \/ \E f \in Fingers, b \in Buffers \ (DOMAIN heap \cup {held[t] : t \in Threads}) :
          /\ heap' = [c \in DOMAIN heap \cup {b} |-> IF c = b THEN f ELSE heap[c]]
          /\ fingerprintTemplate' = b
     \/ UNCHANGED <<heap, fingerprintTemplate>>
  /\ mutex' = "none"
  /\ Goto(r, "idle")
  /\ UNCHANGED <<held, call, isCapturing, expired, listening, attached, registered, rewarded, alive>>

-----------------------------------------------------------------------------
Expire ==
  /\ alive /\ ~expired
  /\ expired' = TRUE
  /\ UNCHANGED <<mutex, isCapturing, listening, attached, fingerprintTemplate, heap, pc, held, call,
                 registered, rewarded, alive>>

Init ==
  /\ mutex = "none"
  /\ isCapturing = FALSE /\ expired = TRUE /\ listening = FALSE /\ attached = {}
  /\ fingerprintTemplate = Null
  /\ heap = [b \in {} |-> NoFinger]
  /\ pc = [t \in Threads |-> IF t = "capture" THEN "none" ELSE "idle"]
  /\ held = [t \in Threads |-> Null]
  /\ call = [kind |-> "wink", finger |-> NoFinger]
  /\ registered = {} /\ rewarded = {}
  /\ alive = TRUE

HidLocks == LockAndEnable \/ Destroy
HidRuns == JoinAndStart \/ CheckTemplate \/ PassTemplate \/ UseFreed \/ Enroll \/ Authenticate \/ JoinLast
CaptureRuns ==
  \/ StartListening \/ WaitOrStop \/ StopListening \/ NobodyReports \/ ClearCapturing \/ EndThread
  \/ ReadTemplate("capture") \/ FreeTemplate("capture")
ReaderRuns(r) == Attach(r) \/ ReadTemplate(r) \/ FreeTemplate(r) \/ Extract(r)
ReaderReports(r) == Plugged(r) \/ Unplugged(r) \/ FingerRemoved(r) \/ ImageCaptured(r)

Next ==
  \/ \E kind \in Ops : Begin(kind)
  \/ HidLocks \/ HidRuns
  \/ LockOrWake \/ CaptureRuns
  \/ \E r \in Readers : ReaderReports(r) \/ LockForImage(r) \/ ReaderRuns(r)
  \/ Expire

\* Threads run, waits end, and no thread waits for ever for the mutex while others come
\* and go.  The deadline passes when no call moves it.  Nobody has to call, nor to touch
\* a scanner.
Fairness ==
  /\ WF_vars(HidRuns) /\ WF_vars(CaptureRuns) /\ WF_vars(Resting /\ Expire)
  /\ SF_vars(HidLocks) /\ SF_vars(LockOrWake)
  /\ \A r \in Readers : WF_vars(ReaderRuns(r)) /\ SF_vars(LockForImage(r))

Spec == Init /\ [][Next]_vars /\ Fairness

-----------------------------------------------------------------------------
Labels ==
  [t \in Threads |->
     CASE t = "hid" -> {"idle", "granted", "lock", "join", "enabled", "read", "use", "joinLast", "destroyed"}
       [] t = "capture" -> {"none", "start", "lock", "loop", "wait", "remove", "removing", "free", "freeing",
                            "clear", "end", "done"}
       [] OTHER -> {"idle", "plug", "image", "free", "freeing", "extract"}]

TypeOK ==
  /\ mutex \in Threads \cup {"none"}
  /\ isCapturing \in BOOLEAN /\ expired \in BOOLEAN /\ listening \in BOOLEAN /\ alive \in BOOLEAN
  /\ attached \subseteq IF listening THEN Readers ELSE {}
  /\ fingerprintTemplate \in Buffers \cup {Null}
  /\ DOMAIN heap \subseteq Buffers /\ \A b \in DOMAIN heap : heap[b] \in Fingers
  /\ DOMAIN pc = Threads /\ \A t \in Threads : pc[t] \in Labels[t]
  /\ held \in [Threads -> Buffers \cup {Null}]
  /\ call \in [kind: Calls, finger: Fingers \cup {NoFinger}]
  /\ registered \subseteq Fingers \cup {NoFinger}
  /\ rewarded \subseteq DOMAIN heap

\* No fingerprint outlives the session it was captured in: once the capture thread has
\* freed the template there is none, neither to be found nor lost, until it is started again.
NoTemplateLeft ==
  pc["capture"] \in {"none", "clear", "end", "done"} => fingerprintTemplate = Null /\ DOMAIN heap = {}

\* A thread is replaced only when it has ended: isCapturing, which no lock protects at the
\* end of the thread, is true from before it runs until it has nothing left to do.
FlagCoversThread == ThreadGone \/ pc["capture"] = "end" \/ isCapturing

\* A call comes back, although it may join the capture thread with the lock held that this
\* thread takes each time it wakes.  The destructor does when it has taken the lock after
\* the thread's last wait, and no reader waits for the lock whose report removeListener()
\* waits for; otherwise they wait for each other (core-biometric.cpp:43, 64, 80, 89, 117).
LastJoinEnds ==
  /\ pc["hid"] = "joinLast"
  /\ \/ pc["capture"] \in {"none", "free", "freeing", "clear", "end", "done"}
     \/ pc["capture"] = "removing" /\ \A r \in Readers : pc[r] # "image"
RequestReturns ==
  (IF call.kind = "destroy" THEN LastJoinEnds ELSE ~Resting) ~>
    (pc["hid"] \in {"idle", "granted", "destroyed"} \/ ~alive)

\* "after a few seconds without any request they will be turned back off" (biometric-u2f.md:52).
ScannerGoesOff == <>[]Resting => <>[](~listening \/ ~alive)

\* "But as long as the application keeps retrying, it is fine" (biometric-u2f.md:58): when the
\* same authentication is retried for ever, never five seconds apart, by somebody who keeps
\* on a scanner the finger that it is for, and whose print can be read, it is granted again
\* and again, whatever the capture thread is doing when the retries come; each time it is
\* switched on again, the scanner has to be found again first.
Retrying ==
  /\ pc' # pc
  /\ call.kind = "authenticate" /\ call.finger # NoFinger /\ call' = call
  /\ \A r \in Readers :
       /\ ~FingerRemoved(r) /\ ~Unplugged(r)
       /\ Extract(r) => fingerprintTemplate' # Null /\ heap'[fingerprintTemplate'] = call.finger
RetriesSucceed ==
  (/\ <>[][Retrying]_vars
   /\ []<><<Begin("authenticate")>>_vars
   /\ \A r \in Readers : SF_vars(Plugged(r)) /\ SF_vars(ImageCaptured(r)))
  => ([]<>(pc["hid"] = "granted") \/ <>~alive)

\* "Scanner must be on" (core-biometric.cpp:142, 217): after enableCapture() the capture
\* thread is there, and has not decided to stop.
ScannerOn ==
  pc["hid"] \in {"enabled", "read", "use"} => pc["capture"] \in {"start", "lock", "loop", "wait"}

\* After a success "the current fingerprint template is cleared, ensuring the user needs to
\* make a new fingerprint capture for the next operation" (biometric-u2f.md:70-71).
NewCaptureEachTime == pc["hid"] = "use" => held["hid"] \notin rewarded

\* "During a registration, the fingerprint template is stored alongside the private key"
\* (biometric-u2f.md:65).
TemplateStored == NoFinger \notin registered

\* "Wait for the thread to die" (core-biometric.cpp:111): the destructor comes back.
DestructorReturns == (pc["hid"] = "joinLast") ~> (pc["hid"] = "destroyed" \/ ~alive)
=============================================================================

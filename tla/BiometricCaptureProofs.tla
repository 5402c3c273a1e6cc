------------------------ MODULE BiometricCaptureProofs ------------------------
(***************************************************************************)
(* Theorems about BiometricCapture, for any number of scanners, fingers    *)
(* and templates: what the threads leave to each other.                    *)
(***************************************************************************)
EXTENDS BiometricCapture, TLAPS

\* The mutex is held where the code holds it.
Locks ==
  /\ pc["hid"] \in {"join", "enabled", "read", "use", "joinLast"} => mutex = "hid"
  /\ pc["capture"] = "loop" => mutex = "capture"
  /\ \A r \in Readers : pc[r] = "extract" => mutex = r

\* There is at most one template, and no pointer to a freed one in fingerprintTemplate.
OneTemplate ==
  /\ DOMAIN heap \subseteq {fingerprintTemplate}
  /\ fingerprintTemplate \in DOMAIN heap \cup {Null}

\* A reader that is about to write a template has freed the one before, and nobody has
\* written another since it read the pointer.
Room ==
  \A r \in Readers :
    /\ pc[r] = "extract" => fingerprintTemplate = Null
    /\ pc[r] = "freeing" /\ mutex = r => fingerprintTemplate \in {Null, held[r]}

\* No reader has anything to report while the capture thread cleans up, and then starts.
Quiet ==
  /\ pc["capture"] \in {"none", "start", "free", "freeing", "clear", "end", "done"} =>
       ~listening /\ \A r \in Readers : pc[r] = "idle"
  /\ pc["capture"] = "removing" => ~listening

\* The capture thread frees the template that there is.
LastFree == pc["capture"] = "freeing" => held["capture"] = fingerprintTemplate

CaptureInv ==
  /\ TypeOK /\ FlagCoversThread
  /\ Locks /\ Quiet
  /\ OneTemplate /\ Room /\ LastFree /\ NoTemplateLeft

LEMMA Names ==
  /\ "hid" \in Threads /\ "capture" \in Threads /\ "hid" # "capture"
  /\ \A r \in Readers : r \in Threads /\ r # "hid" /\ r # "capture" /\ r # "none"
  /\ Buffers \subseteq Nat \ {Null} /\ Ops \subseteq Calls /\ Null \notin Buffers
BY CaptureAssumption DEF Threads

\* A step moves one thread.
LEMMA Moved ==
  ASSUME TypeOK, NEW t \in Threads, NEW label, Goto(t, label)
  PROVE  /\ DOMAIN pc' = Threads /\ pc'[t] = label
         /\ \A u \in Threads \ {t} : pc'[u] = pc[u]
         /\ label \in Labels[t] => \A u \in Threads : pc'[u] \in Labels[u]
BY DEF TypeOK, Goto

LEMMA LabelsAre ==
  /\ Labels["hid"] = {"idle", "granted", "lock", "join", "enabled", "read", "use", "joinLast", "destroyed"}
  /\ Labels["capture"] = {"none", "start", "lock", "loop", "wait", "remove", "removing", "free", "freeing",
                          "clear", "end", "done"}
  /\ \A r \in Readers : Labels[r] = {"idle", "plug", "image", "free", "freeing", "extract"}
BY Names DEF Labels

LEMMA CaptureInit == Init => CaptureInv
<1> SUFFICES ASSUME Init PROVE CaptureInv
  OBVIOUS
<1>1. /\ pc["hid"] = "idle" /\ pc["capture"] = "none" /\ DOMAIN pc = Threads
      /\ \A r \in Readers : pc[r] = "idle"
      /\ \A t \in Threads : pc[t] \in Labels[t]
  BY Names, LabelsAre DEF Init, Threads
<1>2. DOMAIN heap = {} /\ fingerprintTemplate = Null
  BY DEF Init
<1>3. TypeOK
  BY <1>1, <1>2 DEF Init, TypeOK, Calls
<1>4. FlagCoversThread /\ Locks /\ Quiet
  BY <1>1 DEF Init, FlagCoversThread, ThreadGone, Locks, Quiet
<1>5. OneTemplate /\ Room /\ LastFree /\ NoTemplateLeft
  BY <1>1, <1>2 DEF OneTemplate, Room, LastFree, NoTemplateLeft
<1>6. QED
  BY <1>3, <1>4, <1>5 DEF CaptureInv

-----------------------------------------------------------------------------
\* The HID thread: it changes neither the template nor what the readers do.
LEMMA HidSteps ==
  ASSUME CaptureInv, (\E kind \in Ops : Begin(kind)) \/ HidLocks \/ HidRuns
  PROVE  CaptureInv'
<1> USE Names, LabelsAre DEF CaptureInv, TypeOK, Goto, shared
<1>1. CASE \E kind \in Ops : Begin(kind)
  <2>1. TypeOK'
    BY <1>1 DEF Begin, Resting
  <2>2. FlagCoversThread' /\ Locks' /\ Quiet'
    BY <1>1 DEF Begin, Resting, FlagCoversThread, ThreadGone, Locks, Quiet
  <2>3. OneTemplate' /\ Room' /\ LastFree' /\ NoTemplateLeft'
    BY <1>1 DEF Begin, Resting, OneTemplate, Room, LastFree, NoTemplateLeft, Locks, Quiet
  <2>4. QED
    BY <2>1, <2>2, <2>3 DEF CaptureInv
<1>2. CASE LockAndEnable
  <2>1. TypeOK'
    BY <1>2 DEF LockAndEnable, AfterEnable
  <2>2. FlagCoversThread' /\ Locks' /\ Quiet'
    BY <1>2 DEF LockAndEnable, AfterEnable, FlagCoversThread, ThreadGone, Locks, Quiet
  <2>3. OneTemplate' /\ Room' /\ LastFree' /\ NoTemplateLeft'
    BY <1>2 DEF LockAndEnable, AfterEnable, OneTemplate, Room, LastFree, NoTemplateLeft, Locks, Quiet
  <2>4. QED
    BY <2>1, <2>2, <2>3 DEF CaptureInv
<1>3. CASE JoinAndStart
  <2>1. TypeOK'
    BY <1>3 DEF JoinAndStart, FlagSet
  <2>2. FlagCoversThread' /\ Locks' /\ Quiet'
    BY <1>3 DEF JoinAndStart, FlagSet, FlagCoversThread, ThreadGone, Locks, Quiet
  <2>3. OneTemplate' /\ Room' /\ LastFree' /\ NoTemplateLeft'
    BY <1>3 DEF JoinAndStart, FlagSet, OneTemplate, Room, LastFree, NoTemplateLeft, Locks, Quiet
  <2>4. QED
    BY <2>1, <2>2, <2>3 DEF CaptureInv
<1>4. CASE CheckTemplate
  <2>1. TypeOK'
    BY <1>4 DEF CheckTemplate, Return
  <2>2. FlagCoversThread' /\ Locks' /\ Quiet'
    BY <1>4 DEF CheckTemplate, Return, FlagCoversThread, ThreadGone, Locks, Quiet
  <2>3. OneTemplate' /\ Room' /\ LastFree' /\ NoTemplateLeft'
    BY <1>4 DEF CheckTemplate, Return, OneTemplate, Room, LastFree, NoTemplateLeft, Locks, Quiet
  <2>4. QED
    BY <2>1, <2>2, <2>3 DEF CaptureInv
<1>5. CASE PassTemplate
  <2>1. TypeOK'
    BY <1>5 DEF PassTemplate, Return
  <2>2. FlagCoversThread' /\ Locks' /\ Quiet'
    BY <1>5 DEF PassTemplate, Return, FlagCoversThread, ThreadGone, Locks, Quiet
  <2>3. OneTemplate' /\ Room' /\ LastFree' /\ NoTemplateLeft'
    BY <1>5 DEF PassTemplate, Return, OneTemplate, Room, LastFree, NoTemplateLeft, Locks, Quiet
  <2>4. QED
    BY <2>1, <2>2, <2>3 DEF CaptureInv
<1>6. CASE UseFreed
  <2>1. TypeOK'
    BY <1>6 DEF UseFreed
  <2>2. FlagCoversThread' /\ Locks' /\ Quiet'
    BY <1>6 DEF UseFreed, FlagCoversThread, ThreadGone, Locks, Quiet
  <2>3. OneTemplate' /\ Room' /\ LastFree' /\ NoTemplateLeft'
    BY <1>6 DEF UseFreed, OneTemplate, Room, LastFree, NoTemplateLeft, Locks, Quiet
  <2>4. QED
    BY <2>1, <2>2, <2>3 DEF CaptureInv
<1>7. CASE Enroll
  <2>1. TypeOK'
    <3>1. held["hid"] \in DOMAIN heap \cup {Null} /\ FingerPassed \in Fingers \cup {NoFinger}
      BY <1>7 DEF Enroll, FingerPassed
    <3>2. registered' \subseteq Fingers \cup {NoFinger} /\ rewarded' \subseteq DOMAIN heap
      BY <1>7, <3>1 DEF Enroll, Reward
    <3>3. PICK label \in {"granted", "idle"} : Return(label)
      BY <1>7 DEF Enroll
    <3>4. DOMAIN pc' = Threads /\ \A t \in Threads : pc'[t] \in Labels[t]
      BY <3>3, Moved DEF Return
    <3>5. mutex' = "none" /\ held' \in [Threads -> Buffers \cup {Null}]
      BY <3>3 DEF Return
    <3>6. expired' \in BOOLEAN /\ UNCHANGED <<call, isCapturing, listening, attached, fingerprintTemplate, heap, alive>>
      BY <1>7 DEF Enroll, CaptureCompleted
    <3>7. QED
      BY <3>2, <3>4, <3>5, <3>6
  <2>2. FlagCoversThread' /\ Locks' /\ Quiet'
    BY <1>7 DEF Enroll, Return, CaptureCompleted, Reward, FingerPassed, FlagCoversThread, ThreadGone, Locks, Quiet
  <2>3. OneTemplate' /\ Room' /\ LastFree' /\ NoTemplateLeft'
    BY <1>7 DEF Enroll, Return, CaptureCompleted, Reward, FingerPassed, OneTemplate, Room, LastFree, NoTemplateLeft, Locks, Quiet
  <2>4. QED
    BY <2>1, <2>2, <2>3 DEF CaptureInv
<1>8. CASE Authenticate
  <2>1. TypeOK'
    <3>1. held["hid"] \in DOMAIN heap \cup {Null} /\ FingerPassed \in Fingers \cup {NoFinger}
      BY <1>8 DEF Authenticate, FingerPassed
    <3>2. registered' \subseteq Fingers \cup {NoFinger} /\ rewarded' \subseteq DOMAIN heap
      BY <1>8, <3>1 DEF Authenticate, Reward
    <3>3. PICK label \in {"granted", "idle"} : Return(label)
      BY <1>8 DEF Authenticate
    <3>4. DOMAIN pc' = Threads /\ \A t \in Threads : pc'[t] \in Labels[t]
      BY <3>3, Moved DEF Return
    <3>5. mutex' = "none" /\ held' \in [Threads -> Buffers \cup {Null}]
      BY <3>3 DEF Return
    <3>6. expired' \in BOOLEAN /\ UNCHANGED <<call, isCapturing, listening, attached, fingerprintTemplate, heap, alive>>
      BY <1>8 DEF Authenticate, CaptureCompleted
    <3>7. QED
      BY <3>2, <3>4, <3>5, <3>6
  <2>2. FlagCoversThread' /\ Locks' /\ Quiet'
    BY <1>8 DEF Authenticate, Return, CaptureCompleted, Reward, FingerPassed, FlagCoversThread, ThreadGone, Locks, Quiet
  <2>3. OneTemplate' /\ Room' /\ LastFree' /\ NoTemplateLeft'
    BY <1>8 DEF Authenticate, Return, CaptureCompleted, Reward, FingerPassed, OneTemplate, Room, LastFree, NoTemplateLeft, Locks, Quiet
  <2>4. QED
    BY <2>1, <2>2, <2>3 DEF CaptureInv
<1>9. CASE Destroy
  <2>1. TypeOK'
    BY <1>9 DEF Destroy, CaptureCompleted
  <2>2. FlagCoversThread' /\ Locks' /\ Quiet'
    BY <1>9 DEF Destroy, CaptureCompleted, FlagCoversThread, ThreadGone, Locks, Quiet
  <2>3. OneTemplate' /\ Room' /\ LastFree' /\ NoTemplateLeft'
    BY <1>9 DEF Destroy, CaptureCompleted, OneTemplate, Room, LastFree, NoTemplateLeft, Locks, Quiet
  <2>4. QED
    BY <2>1, <2>2, <2>3 DEF CaptureInv
<1>10. CASE JoinLast
  <2>1. TypeOK'
    BY <1>10 DEF JoinLast
  <2>2. FlagCoversThread' /\ Locks' /\ Quiet'
    BY <1>10 DEF JoinLast, FlagCoversThread, ThreadGone, Locks, Quiet
  <2>3. OneTemplate' /\ Room' /\ LastFree' /\ NoTemplateLeft'
    BY <1>10 DEF JoinLast, ThreadGone, OneTemplate, Room, LastFree, NoTemplateLeft, Locks, Quiet
  <2>4. QED
    BY <2>1, <2>2, <2>3 DEF CaptureInv
<1>11. QED
  BY <1>1, <1>2, <1>3, <1>4, <1>5, <1>6, <1>7, <1>8, <1>9, <1>10 DEF HidLocks, HidRuns

\* The capture thread.
LEMMA CaptureSteps ==
  ASSUME CaptureInv, LockOrWake \/ CaptureRuns
  PROVE  CaptureInv'
<1> USE Names, LabelsAre DEF CaptureInv, TypeOK, Goto, shared
<1>1. CASE StartListening
  <2>1. TypeOK'
    BY <1>1 DEF StartListening
  <2>2. FlagCoversThread' /\ Locks' /\ Quiet'
    BY <1>1 DEF StartListening, FlagCoversThread, ThreadGone, Locks, Quiet
  <2>3. OneTemplate' /\ Room' /\ LastFree' /\ NoTemplateLeft'
    BY <1>1 DEF StartListening, OneTemplate, Room, LastFree, NoTemplateLeft, Locks, Quiet
  <2>4. QED
    BY <2>1, <2>2, <2>3 DEF CaptureInv
<1>2. CASE LockOrWake
  <2>1. TypeOK'
    BY <1>2 DEF LockOrWake
  <2>2. FlagCoversThread' /\ Locks' /\ Quiet'
    BY <1>2 DEF LockOrWake, FlagCoversThread, ThreadGone, Locks, Quiet
  <2>3. OneTemplate' /\ Room' /\ LastFree' /\ NoTemplateLeft'
    BY <1>2 DEF LockOrWake, OneTemplate, Room, LastFree, NoTemplateLeft, Locks, Quiet
  <2>4. QED
    BY <2>1, <2>2, <2>3 DEF CaptureInv
<1>3. CASE WaitOrStop
  <2>1. TypeOK'
    BY <1>3 DEF WaitOrStop, AfterLoop
  <2>2. FlagCoversThread' /\ Locks' /\ Quiet'
    BY <1>3 DEF WaitOrStop, AfterLoop, FlagCoversThread, ThreadGone, Locks, Quiet
  <2>3. OneTemplate' /\ Room' /\ LastFree' /\ NoTemplateLeft'
    BY <1>3 DEF WaitOrStop, AfterLoop, OneTemplate, Room, LastFree, NoTemplateLeft, Locks, Quiet
  <2>4. QED
    BY <2>1, <2>2, <2>3 DEF CaptureInv
<1>4. CASE StopListening
  <2>1. TypeOK'
    BY <1>4 DEF StopListening
  <2>2. FlagCoversThread' /\ Locks' /\ Quiet'
    BY <1>4 DEF StopListening, FlagCoversThread, ThreadGone, Locks, Quiet
  <2>3. OneTemplate' /\ Room' /\ LastFree' /\ NoTemplateLeft'
    BY <1>4 DEF StopListening, OneTemplate, Room, LastFree, NoTemplateLeft, Locks, Quiet
  <2>4. QED
    BY <2>1, <2>2, <2>3 DEF CaptureInv
<1>5. CASE NobodyReports
  <2>1. TypeOK'
    BY <1>5 DEF NobodyReports, AfterRemoving
  <2>2. FlagCoversThread' /\ Locks' /\ Quiet'
    BY <1>5 DEF NobodyReports, AfterRemoving, FlagCoversThread, ThreadGone, Locks, Quiet
  <2>3. OneTemplate' /\ Room' /\ LastFree' /\ NoTemplateLeft'
    BY <1>5 DEF NobodyReports, AfterRemoving, OneTemplate, Room, LastFree, NoTemplateLeft, Locks, Quiet
  <2>4. QED
    BY <2>1, <2>2, <2>3 DEF CaptureInv
<1>6. CASE ClearCapturing
  <2>1. TypeOK'
    BY <1>6 DEF ClearCapturing
  <2>2. FlagCoversThread' /\ Locks' /\ Quiet'
    BY <1>6 DEF ClearCapturing, FlagCoversThread, ThreadGone, Locks, Quiet
  <2>3. OneTemplate' /\ Room' /\ LastFree' /\ NoTemplateLeft'
    BY <1>6 DEF ClearCapturing, OneTemplate, Room, LastFree, NoTemplateLeft, Locks, Quiet
  <2>4. QED
    BY <2>1, <2>2, <2>3 DEF CaptureInv
<1>7. CASE EndThread
  <2>1. TypeOK'
    BY <1>7 DEF EndThread
  <2>2. FlagCoversThread' /\ Locks' /\ Quiet'
    BY <1>7 DEF EndThread, FlagCoversThread, ThreadGone, Locks, Quiet
  <2>3. OneTemplate' /\ Room' /\ LastFree' /\ NoTemplateLeft'
    BY <1>7 DEF EndThread, OneTemplate, Room, LastFree, NoTemplateLeft, Locks, Quiet
  <2>4. QED
    BY <2>1, <2>2, <2>3 DEF CaptureInv
<1>8. CASE ReadTemplate("capture")
  <2>1. TypeOK'
    BY <1>8 DEF ReadTemplate
  <2>2. FlagCoversThread' /\ Locks' /\ Quiet'
    BY <1>8 DEF ReadTemplate, FlagCoversThread, ThreadGone, Locks, Quiet
  <2>3. OneTemplate' /\ Room' /\ LastFree' /\ NoTemplateLeft'
    BY <1>8 DEF ReadTemplate, OneTemplate, Room, LastFree, NoTemplateLeft, Locks, Quiet
  <2>4. QED
    BY <2>1, <2>2, <2>3 DEF CaptureInv
<1>9. CASE FreeTemplate("capture")
  <2>1. TypeOK'
    <3>1. AfterFree("capture") \in Labels["capture"] /\ Goto("capture", AfterFree("capture"))
      BY <1>9 DEF FreeTemplate, AfterFree
    <3>2. DOMAIN pc' = Threads /\ \A t \in Threads : pc'[t] \in Labels[t]
      BY <3>1, Moved
    <3>3. held' \in [Threads -> Buffers \cup {Null}]
      BY <1>9 DEF FreeTemplate
    <3>4. /\ DOMAIN heap' \subseteq Buffers /\ \A b \in DOMAIN heap' : heap'[b] \in Fingers
          /\ rewarded' \subseteq DOMAIN heap' /\ fingerprintTemplate' \in Buffers \cup {Null}
          /\ alive' \in BOOLEAN
      <4>1. CASE heap' = heap /\ UNCHANGED <<fingerprintTemplate, rewarded>> /\ alive' \in BOOLEAN
        BY <4>1
      <4>2. CASE /\ heap' = [b \in DOMAIN heap \ {held["capture"]} |-> heap[b]]
                 /\ rewarded' = rewarded \ {held["capture"]}
                 /\ fingerprintTemplate' = Null /\ UNCHANGED alive
        <5>1. DOMAIN heap' = DOMAIN heap \ {held["capture"]} /\ \A b \in DOMAIN heap' : heap'[b] = heap[b]
          BY <4>2
        <5>2. QED
          BY <4>2, <5>1
      <4>3. QED
        BY <1>9, <4>1, <4>2 DEF FreeTemplate
    <3>5. UNCHANGED <<mutex, isCapturing, expired, listening, attached, call, registered>>
      BY <1>9 DEF FreeTemplate
    <3>6. QED
      BY <3>2, <3>3, <3>4, <3>5
  <2>2. FlagCoversThread' /\ Locks' /\ Quiet'
    BY <1>9 DEF FreeTemplate, AfterFree, FlagCoversThread, ThreadGone, Locks, Quiet
  <2>3. OneTemplate' /\ Room' /\ LastFree' /\ NoTemplateLeft'
    BY <1>9 DEF FreeTemplate, AfterFree, OneTemplate, Room, LastFree, NoTemplateLeft, Locks, Quiet
  <2>4. QED
    BY <2>1, <2>2, <2>3 DEF CaptureInv
<1>10. QED
  BY <1>1, <1>2, <1>3, <1>4, <1>5, <1>6, <1>7, <1>8, <1>9 DEF CaptureRuns

\* The thread of a reader.
LEMMA ReaderSteps ==
  ASSUME CaptureInv, NEW r \in Readers, ReaderReports(r) \/ LockForImage(r) \/ ReaderRuns(r)
  PROVE  CaptureInv'
<1> USE Names, LabelsAre DEF CaptureInv, TypeOK, Goto, shared
<1>1. CASE Plugged(r)
  <2>1. TypeOK'
    BY <1>1 DEF Plugged
  <2>2. FlagCoversThread' /\ Locks' /\ Quiet'
    BY <1>1 DEF Plugged, FlagCoversThread, ThreadGone, Locks, Quiet
  <2>3. OneTemplate' /\ Room' /\ LastFree' /\ NoTemplateLeft'
    BY <1>1 DEF Plugged, OneTemplate, Room, LastFree, NoTemplateLeft, Locks, Quiet
  <2>4. QED
    BY <2>1, <2>2, <2>3 DEF CaptureInv
<1>2. CASE Attach(r)
  <2>1. TypeOK'
    BY <1>2 DEF Attach, Attaches
  <2>2. FlagCoversThread' /\ Locks' /\ Quiet'
    BY <1>2 DEF Attach, Attaches, FlagCoversThread, ThreadGone, Locks, Quiet
  <2>3. OneTemplate' /\ Room' /\ LastFree' /\ NoTemplateLeft'
    BY <1>2 DEF Attach, Attaches, OneTemplate, Room, LastFree, NoTemplateLeft, Locks, Quiet
  <2>4. QED
    BY <2>1, <2>2, <2>3 DEF CaptureInv
<1>3. CASE Unplugged(r)
  <2>1. TypeOK'
    BY <1>3 DEF Unplugged
  <2>2. FlagCoversThread' /\ Locks' /\ Quiet'
    BY <1>3 DEF Unplugged, FlagCoversThread, ThreadGone, Locks, Quiet
  <2>3. OneTemplate' /\ Room' /\ LastFree' /\ NoTemplateLeft'
    BY <1>3 DEF Unplugged, OneTemplate, Room, LastFree, NoTemplateLeft, Locks, Quiet
  <2>4. QED
    BY <2>1, <2>2, <2>3 DEF CaptureInv
<1>4. CASE FingerRemoved(r)
  <2>1. TypeOK'
    BY <1>4 DEF FingerRemoved
  <2>2. FlagCoversThread' /\ Locks' /\ Quiet'
    BY <1>4 DEF FingerRemoved, FlagCoversThread, ThreadGone, Locks, Quiet
  <2>3. OneTemplate' /\ Room' /\ LastFree' /\ NoTemplateLeft'
    BY <1>4 DEF FingerRemoved, OneTemplate, Room, LastFree, NoTemplateLeft, Locks, Quiet
  <2>4. QED
    BY <2>1, <2>2, <2>3 DEF CaptureInv
<1>5. CASE ImageCaptured(r)
  <2>1. TypeOK'
    BY <1>5 DEF ImageCaptured
  <2>2. FlagCoversThread' /\ Locks' /\ Quiet'
    BY <1>5 DEF ImageCaptured, FlagCoversThread, ThreadGone, Locks, Quiet
  <2>3. OneTemplate' /\ Room' /\ LastFree' /\ NoTemplateLeft'
    BY <1>5 DEF ImageCaptured, OneTemplate, Room, LastFree, NoTemplateLeft, Locks, Quiet
  <2>4. QED
    BY <2>1, <2>2, <2>3 DEF CaptureInv
<1>6. CASE LockForImage(r)
  <2>1. TypeOK'
    BY <1>6 DEF LockForImage
  <2>2. FlagCoversThread' /\ Locks' /\ Quiet'
    BY <1>6 DEF LockForImage, FlagCoversThread, ThreadGone, Locks, Quiet
  <2>3. OneTemplate' /\ Room' /\ LastFree' /\ NoTemplateLeft'
    BY <1>6 DEF LockForImage, OneTemplate, Room, LastFree, NoTemplateLeft, Locks, Quiet
  <2>4. QED
    BY <2>1, <2>2, <2>3 DEF CaptureInv
<1>7. CASE ReadTemplate(r)
  <2>1. TypeOK'
    BY <1>7 DEF ReadTemplate
  <2>2. FlagCoversThread' /\ Locks' /\ Quiet'
    BY <1>7 DEF ReadTemplate, FlagCoversThread, ThreadGone, Locks, Quiet
  <2>3. OneTemplate' /\ Room' /\ LastFree' /\ NoTemplateLeft'
    BY <1>7 DEF ReadTemplate, OneTemplate, Room, LastFree, NoTemplateLeft, Locks, Quiet
  <2>4. QED
    BY <2>1, <2>2, <2>3 DEF CaptureInv
<1>8. CASE FreeTemplate(r)
  <2>1. TypeOK'
    <3>1. AfterFree(r) \in Labels[r] /\ Goto(r, AfterFree(r))
      BY <1>8 DEF FreeTemplate, AfterFree
    <3>2. DOMAIN pc' = Threads /\ \A t \in Threads : pc'[t] \in Labels[t]
      BY <3>1, Moved
    <3>3. held' \in [Threads -> Buffers \cup {Null}]
      BY <1>8 DEF FreeTemplate
    <3>4. /\ DOMAIN heap' \subseteq Buffers /\ \A b \in DOMAIN heap' : heap'[b] \in Fingers
          /\ rewarded' \subseteq DOMAIN heap' /\ fingerprintTemplate' \in Buffers \cup {Null}
          /\ alive' \in BOOLEAN
      <4>1. CASE heap' = heap /\ UNCHANGED <<fingerprintTemplate, rewarded>> /\ alive' \in BOOLEAN
        BY <4>1
      <4>2. CASE /\ heap' = [b \in DOMAIN heap \ {held[r]} |-> heap[b]]
                 /\ rewarded' = rewarded \ {held[r]}
                 /\ fingerprintTemplate' = Null /\ UNCHANGED alive
        <5>1. DOMAIN heap' = DOMAIN heap \ {held[r]} /\ \A b \in DOMAIN heap' : heap'[b] = heap[b]
          BY <4>2
        <5>2. QED
          BY <4>2, <5>1
      <4>3. QED
        BY <1>8, <4>1, <4>2 DEF FreeTemplate
    <3>5. UNCHANGED <<mutex, isCapturing, expired, listening, attached, call, registered>>
      BY <1>8 DEF FreeTemplate
    <3>6. QED
      BY <3>2, <3>3, <3>4, <3>5
  <2>2. FlagCoversThread' /\ Locks' /\ Quiet'
    BY <1>8 DEF FreeTemplate, AfterFree, FlagCoversThread, ThreadGone, Locks, Quiet
  <2>3. OneTemplate' /\ Room' /\ LastFree' /\ NoTemplateLeft'
    BY <1>8 DEF FreeTemplate, AfterFree, OneTemplate, Room, LastFree, NoTemplateLeft, Locks, Quiet
  <2>4. QED
    BY <2>1, <2>2, <2>3 DEF CaptureInv
<1>9. CASE Extract(r)
  <2>1. TypeOK'
    <3>1. DOMAIN pc' = Threads /\ \A t \in Threads : pc'[t] \in Labels[t]
      BY <1>9, Moved DEF Extract
    <3>2. /\ DOMAIN heap \subseteq DOMAIN heap'
          /\ DOMAIN heap' \subseteq Buffers /\ \A b \in DOMAIN heap' : heap'[b] \in Fingers
          /\ fingerprintTemplate' \in Buffers \cup {Null}
      <4>1. CASE UNCHANGED <<heap, fingerprintTemplate>>
        BY <4>1
      <4>2. CASE ~UNCHANGED <<heap, fingerprintTemplate>>
        <5>1. PICK f \in Fingers, b \in Buffers \ (DOMAIN heap \cup {held[t] : t \in Threads}) :
                /\ heap' = [c \in DOMAIN heap \cup {b} |-> IF c = b THEN f ELSE heap[c]]
                /\ fingerprintTemplate' = b
          BY <1>9, <4>2 DEF Extract
        <5>2. /\ DOMAIN heap' = DOMAIN heap \cup {b}
              /\ \A c \in DOMAIN heap' : heap'[c] = IF c = b THEN f ELSE heap[c]
          BY <5>1
        <5>3. QED
          BY <5>1, <5>2
      <4>3. QED
        BY <4>1, <4>2
    <3>3. /\ mutex' = "none"
          /\ UNCHANGED <<held, call, isCapturing, expired, listening, attached, registered, rewarded, alive>>
      BY <1>9 DEF Extract
    <3>4. QED
      BY <3>1, <3>2, <3>3
  <2>2. FlagCoversThread' /\ Locks' /\ Quiet'
    BY <1>9 DEF Extract, FlagCoversThread, ThreadGone, Locks, Quiet
  <2>3. OneTemplate' /\ Room' /\ LastFree' /\ NoTemplateLeft'
    BY <1>9 DEF Extract, OneTemplate, Room, LastFree, NoTemplateLeft, Locks, Quiet
  <2>4. QED
    BY <2>1, <2>2, <2>3 DEF CaptureInv
<1>10. QED
  BY <1>1, <1>2, <1>3, <1>4, <1>5, <1>6, <1>7, <1>8, <1>9 DEF ReaderReports, ReaderRuns

-----------------------------------------------------------------------------
LEMMA CaptureStep == CaptureInv /\ [Next]_vars => CaptureInv'
<1> SUFFICES ASSUME CaptureInv, [Next]_vars PROVE CaptureInv'
  OBVIOUS
<1>1. CASE (\E kind \in Ops : Begin(kind)) \/ HidLocks \/ HidRuns
  BY <1>1, HidSteps
<1>2. CASE LockOrWake \/ CaptureRuns
  BY <1>2, CaptureSteps
<1>3. CASE \E r \in Readers : ReaderReports(r) \/ LockForImage(r) \/ ReaderRuns(r)
  BY <1>3, ReaderSteps
<1>4. CASE Expire \/ UNCHANGED vars
  <2>1. /\ expired' \in BOOLEAN
        /\ UNCHANGED <<mutex, isCapturing, listening, attached, fingerprintTemplate, heap, pc, held, call,
                       registered, rewarded, alive>>
    BY <1>4 DEF Expire, vars, CaptureInv, TypeOK
  <2>2. TypeOK'
    BY <2>1 DEF CaptureInv, TypeOK
  <2>3. FlagCoversThread' /\ Locks' /\ Quiet' /\ OneTemplate' /\ Room' /\ LastFree' /\ NoTemplateLeft'
    BY <2>1 DEF CaptureInv, FlagCoversThread, ThreadGone, Locks, Quiet, OneTemplate, Room, LastFree,
                NoTemplateLeft
  <2>4. QED
    BY <2>2, <2>3 DEF CaptureInv
<1>5. QED
  BY <1>1, <1>2, <1>3, <1>4 DEF Next

LEMMA CaptureAlways == Spec => []CaptureInv
BY CaptureInit, CaptureStep, PTL DEF Spec

\* Type correctness; in particular only a reader of a core that listens reports images, and
\* only templates that have not been freed have made a call succeed (core-biometric.cpp:52-121).
THEOREM CaptureTypes == Spec => []TypeOK
<1>1. CaptureInv => TypeOK
  BY DEF CaptureInv
<1>2. QED
  BY <1>1, CaptureAlways, PTL

\* With any number of scanners, no fingerprint outlives the session it was captured in
\* (core-biometric.cpp:88-91).
THEOREM NothingIsLeft == Spec => []NoTemplateLeft
<1>1. CaptureInv => NoTemplateLeft
  BY DEF CaptureInv
<1>2. QED
  BY <1>1, CaptureAlways, PTL

\* A capture thread is replaced only when it has ended (core-biometric.cpp:94-106).
THEOREM ThreadsAreCovered == Spec => []FlagCoversThread
<1>1. CaptureInv => FlagCoversThread
  BY DEF CaptureInv
<1>2. QED
  BY <1>1, CaptureAlways, PTL
===============================================================================

---------------------------- MODULE U2FTokenProofs ----------------------------
(***************************************************************************)
(* Theorems about U2FToken, for any number of processes, applications and  *)
(* handles: the counters of the stores that keep one in a file, and of     *)
(* those that take the wall clock for one.                                 *)
(***************************************************************************)
EXTENDS U2FToken, TLAPS

Found == {"update", "presence", "answer"}

\* Process p has read the counter; and has incremented it, or another has since.
Taken(p) == pc[p] \in Found => count[p] <= table[key[p]]
Past(p) ==
  \/ pc[p] = "answer"
  \/ pc[p] = "presence" /\ store = "sqlite"

Counters ==
  /\ \A s \in signed : s[1] \in DOMAIN table /\ s[2] < table[s[1]]
  /\ \A p \in Procs : Taken(p)
  /\ \A p \in Procs : Past(p) => count[p] < table[key[p]]

\* What was signed before a request came in is below the counter it has read.
Earlier ==
  /\ \A p \in Procs : before[p] \subseteq signed
  /\ \A p \in Procs : pc[p] \in Found => \A s \in before[p] : s[1] = key[p] => s[2] < count[p]

\* Nothing that was read off a clock that goes forward is ahead of it, and what had been
\* signed before a request came in is not ahead of what the request has read.
OnClock ==
  /\ \A s \in signed : s[2] <= clock
  /\ \A p \in Procs : before[p] \subseteq signed
  /\ \A p \in Procs : pc[p] \in Found =>
       /\ count[p] <= clock
       /\ \A s \in before[p] : s[2] <= count[p]

TokenInv ==
  /\ TypeOK
  /\ store \in Databases => Counters /\ Earlier
  /\ store \in WallClocks /\ steady => OnClock

\* A store keeps a file or goes by the clock.
LEMMA TwoKinds ==
  /\ \A s \in AllStores : s \in Databases \/ s \in WallClocks
  /\ \A s \in Databases : s \notin WallClocks
BY DEF AllStores, Databases, WallClocks

\* A key is a pair, and no pair is NoKey.
LEMMA KeysAreKeys == NoKey \notin Keys
BY DEF NoKey, Keys

\* The initial state satisfies the invariant.
LEMMA TokenInit == Init => TokenInv
<1> SUFFICES ASSUME Init PROVE TokenInv
  OBVIOUS
<1>1. TypeOK
  <2>1. DOMAIN table = {} /\ table \in [DOMAIN table -> Nat]
    BY DEF Init
  <2>2. store \in AllStores /\ clock \in Nat /\ steady \in BOOLEAN
    <3>1. steady = TRUE /\ store \in Stores /\ clock \in 0 .. MaxClock
      BY DEF Init
    <3>2. QED
      BY <3>1, TokenAssumption
  <2>3. pc \in [Procs -> Labels] /\ control \in [Procs -> Controls]
    BY DEF Init, Labels, Controls
  <2>4. before \in [Procs -> SUBSET Answers] /\ present \in [Procs -> BOOLEAN]
    BY DEF Init
  <2>5. QED
    BY <2>1, <2>2, <2>3, <2>4 DEF Init, TypeOK
<1>2. Counters
  BY DEF Init, Counters, Taken, Past, Found
<1>3. Earlier
  BY DEF Init, Earlier, Found
<1>4. OnClock
  BY DEF Init, OnClock, Found
<1>5. QED
  BY <1>1, <1>2, <1>3, <1>4 DEF TokenInv

\* A request that ends leaves nothing behind in its process.
LEMMA ReturnTypes ==
  ASSUME TypeOK, NEW p \in Procs, Return(p)
  PROVE  /\ store' = store /\ clock' = clock /\ steady' = steady
         /\ pc' \in [Procs -> Labels] /\ key' \in [Procs -> Keys \cup {NoKey}]
         /\ control' \in [Procs -> Controls] /\ present' \in [Procs -> BOOLEAN]
         /\ count' \in [Procs -> Nat] /\ before' \in [Procs -> SUBSET Answers]
         /\ \A q \in Procs :
              /\ pc'[q] # "idle" => key'[q] # NoKey
              /\ pc'[q] \in Found /\ store \in Databases => key'[q] \in DOMAIN table
              /\ pc'[q] = "update" => store \in Databases
BY DEF TypeOK, Return, Goto, Labels, Controls, Found

\* With the table and the answers in order, that is all of the types.
LEMMA EndTypes ==
  ASSUME TypeOK, NEW p \in Procs, Return(p),
         DOMAIN table \subseteq DOMAIN table', DOMAIN table' \subseteq Keys,
         table' \in [DOMAIN table' -> Nat], signed' \subseteq Answers
  PROVE  TypeOK'
<1>1. store' \in AllStores /\ clock' \in Nat /\ steady' \in BOOLEAN
  BY ReturnTypes DEF TypeOK
<1>2. QED
  BY <1>1, ReturnTypes DEF TypeOK, Found

LEMMA FailsTypes ==
  ASSUME TypeOK, NEW p \in Procs, Fails(p)
  PROVE  TypeOK'
BY EndTypes DEF TypeOK, Fails

\* A request that fails changes no counter and no answer.
LEMMA FailsKeeps ==
  ASSUME TokenInv, NEW p \in Procs, Fails(p)
  PROVE  TokenInv'
<1>1. TypeOK'
  BY FailsTypes DEF TokenInv
<1>2. ASSUME store' \in Databases PROVE Counters'
  <2>1. Counters
    BY <1>2 DEF TokenInv, Fails, Return
  <2>2. QED
    BY <2>1 DEF TokenInv, TypeOK, Counters, Taken, Past, Found, Fails, Return, Goto
<1>3. ASSUME store' \in Databases PROVE Earlier'
  <2>1. Earlier
    BY <1>3 DEF TokenInv, Fails, Return
  <2>2. QED
    BY <2>1 DEF TokenInv, TypeOK, Earlier, Found, Fails, Return, Goto
<1>4. ASSUME store' \in WallClocks, steady' PROVE OnClock'
  <2>1. OnClock
    BY <1>4 DEF TokenInv, Fails, Return
  <2>2. QED
    BY <2>1 DEF TokenInv, TypeOK, OnClock, Found, Fails, Return, Goto
<1>5. QED
  BY <1>1, <1>2, <1>3, <1>4 DEF TokenInv

-----------------------------------------------------------------------------
\* Every step of a process keeps the types.
LEMMA StepTypes ==
  ASSUME TypeOK, [Next]_vars
  PROVE  TypeOK'
<1> USE DEF TypeOK, Labels, Goto
<1>1. ASSUME NEW p \in Procs, Register(p) PROVE TypeOK'
  BY <1>1, KeysAreKeys DEF Register
<1>2. ASSUME NEW p \in Procs, Enroll(p) PROVE TypeOK'
  BY <1>2, FailsTypes DEF Enroll
<1>3. ASSUME NEW p \in Procs, Insert(p) PROVE TypeOK'
  <2>1. CASE Fails(p)
    BY <2>1, FailsTypes
  <2>2. CASE ~Fails(p)
    <3>1. key[p] \in Keys
      BY <1>3 DEF Insert
    <3>2. DOMAIN table' = DOMAIN table \cup {key[p]} /\ table' \in [DOMAIN table' -> Nat]
      BY <1>3, <2>2 DEF Insert, NewRow
    <3>3. Return(p) /\ signed' = signed
      BY <1>3, <2>2 DEF Insert
    <3>4. QED
      BY <3>1, <3>2, <3>3, EndTypes
  <2>3. QED
    BY <2>1, <2>2
<1>12. ASSUME NEW p \in Procs, MakeHandle(p) PROVE TypeOK'
  <2>1. key[p] \in Keys
    BY <1>12 DEF MakeHandle
  <2>2. DOMAIN table' = DOMAIN table \cup {key[p]} /\ table' \in [DOMAIN table' -> Nat]
    BY <1>12 DEF MakeHandle, NewRow
  <2>3. Return(p) /\ signed' = signed
    BY <1>12 DEF MakeHandle
  <2>4. QED
    BY <2>1, <2>2, <2>3, EndTypes
<1>4. ASSUME NEW p \in Procs, Authenticate(p) PROVE TypeOK'
  BY <1>4, KeysAreKeys DEF Authenticate
<1>5. ASSUME NEW p \in Procs, Select(p) PROVE TypeOK'
  <2>1. CASE Fails(p)
    BY <2>1, FailsTypes
  <2>2. CASE ~Fails(p)
    <3>1. table[key[p]] \in Nat
      BY <1>5, <2>2 DEF Select
    <3>2. QED
      BY <1>5, <2>2, <3>1 DEF Select, AfterSelect
  <2>3. QED
    BY <2>1, <2>2
<1>13. ASSUME NEW p \in Procs, Recognize(p) PROVE TypeOK'
  <2>1. CASE Fails(p)
    BY <2>1, FailsTypes
  <2>2. CASE ~Fails(p)
    <3>1. AfterSelect = "presence"
      BY <1>13, TwoKinds DEF Recognize, AfterSelect, WallClocks
    <3>2. QED
      BY <1>13, <2>2, <3>1, TwoKinds DEF Recognize, WallClockCounter
  <2>3. QED
    BY <2>1, <2>2
<1>6. ASSUME NEW p \in Procs, Update(p) PROVE TypeOK'
  <2>1. CASE Fails(p)
    BY <2>1, FailsTypes
  <2>2. CASE ~Fails(p)
    BY <1>6, <2>2 DEF Update, Incremented, AfterUpdate
  <2>3. QED
    BY <2>1, <2>2
<1>7. ASSUME NEW p \in Procs, Presence(p) PROVE TypeOK'
  BY <1>7 DEF Presence, AfterPresence, AllStores, Databases
<1>8. ASSUME NEW p \in Procs, Answer(p) PROVE TypeOK'
  <2>1. CASE Fails(p)
    BY <2>1, FailsTypes
  <2>2. CASE ~Fails(p)
    <3>1. key[p] \in Keys /\ count[p] \in Nat
      BY <1>8, <2>2 DEF Answer, Signs
    <3>2. signed' \subseteq Answers
      BY <1>8, <2>2, <3>1 DEF Answer, Answers
    <3>3. Return(p) /\ table' = table
      BY <1>8, <2>2 DEF Answer
    <3>4. QED
      BY <3>2, <3>3, EndTypes
  <2>3. QED
    BY <2>1, <2>2
<1>9. ASSUME NEW p \in Procs, Restart(p) PROVE TypeOK'
  BY <1>9, FailsTypes DEF Restart
<1>10. CASE ClockMoves
  BY <1>10, TokenAssumption DEF ClockMoves
<1>11. CASE UNCHANGED vars
  BY <1>11 DEF vars
<1>14. QED
  BY <1>1, <1>2, <1>3, <1>4, <1>5, <1>6, <1>7, <1>8, <1>9, <1>10, <1>11, <1>12, <1>13 DEF Next

-----------------------------------------------------------------------------
\* Every step keeps the counters in order.
LEMMA StepCounters ==
  ASSUME TypeOK, TypeOK', Counters, Earlier, store \in Databases, [Next]_vars
  PROVE  Counters' /\ Earlier'
<1> USE DEF TypeOK, Goto, Found
<1>a. store \notin WallClocks
  BY TwoKinds
<1>0. ASSUME NEW p \in Procs, Fails(p) PROVE Counters' /\ Earlier'
  <2>1. TokenInv'
    BY <1>0, <1>a, FailsKeeps DEF TokenInv
  <2>2. store' = store
    BY <1>0 DEF Fails, Return
  <2>3. QED
    BY <2>1, <2>2 DEF TokenInv
<1>1. ASSUME NEW p \in Procs, Register(p) PROVE Counters' /\ Earlier'
  BY <1>1 DEF Register, Counters, Earlier, Taken, Past
<1>2. ASSUME NEW p \in Procs, Enroll(p) PROVE Counters' /\ Earlier'
  <2>1. CASE Fails(p)
    BY <2>1, <1>0
  <2>2. CASE ~Fails(p)
    BY <1>2, <2>2 DEF Enroll, Counters, Earlier, Taken, Past
  <2>3. QED
    BY <2>1, <2>2
<1>3. ASSUME NEW p \in Procs, Insert(p) PROVE Counters' /\ Earlier'
  <2>1. CASE Fails(p)
    BY <2>1, <1>0
  <2>2. CASE ~Fails(p)
    <3>1. \A k \in DOMAIN table : k \in DOMAIN table' /\ table'[k] = table[k]
      BY <1>3, <2>2 DEF Insert, Inserts, NewRow
    <3>2. /\ pc' = [pc EXCEPT ![p] = "idle"] /\ key' = [key EXCEPT ![p] = NoKey]
          /\ count' = [count EXCEPT ![p] = 0] /\ before' = [before EXCEPT ![p] = {}]
          /\ signed' = signed /\ store' = store
      BY <1>3, <2>2 DEF Insert, Return
    <3>3. Counters'
      BY <1>a, <3>1, <3>2 DEF Counters, Taken, Past
    <3>4. Earlier'
      BY <3>2 DEF Earlier
    <3>5. QED
      BY <3>3, <3>4
  <2>3. QED
    BY <2>1, <2>2
<1>4. ASSUME NEW p \in Procs, Authenticate(p) PROVE Counters' /\ Earlier'
  BY <1>4 DEF Authenticate, Counters, Earlier, Taken, Past
<1>5. ASSUME NEW p \in Procs, Select(p) PROVE Counters' /\ Earlier'
  <2>1. CASE Fails(p)
    BY <2>1, <1>0
  <2>2. CASE ~Fails(p)
    <3>1. /\ pc' = [pc EXCEPT ![p] = AfterSelect] /\ count' = [count EXCEPT ![p] = table[key[p]]]
          /\ UNCHANGED <<store, table, key, before, signed>> /\ key[p] \in DOMAIN table
      BY <1>5, <2>2 DEF Select
    <3>2. ~Past(p)'
      BY <3>1 DEF Past, AfterSelect
    <3>3. Counters'
      BY <3>1, <3>2 DEF Counters, Taken, Past
    <3>4. \A s \in before[p] : s[1] = key[p] => s[2] < table[key[p]]
      BY DEF Counters, Earlier
    <3>5. Earlier'
      BY <3>1, <3>4 DEF Earlier
    <3>6. QED
      BY <3>3, <3>5
  <2>3. QED
    BY <2>1, <2>2
<1>6. ASSUME NEW p \in Procs, Update(p) PROVE Counters' /\ Earlier'
  <2>1. CASE Fails(p)
    BY <2>1, <1>0
  <2>2. CASE ~Fails(p)
    <3>1. /\ pc' = [pc EXCEPT ![p] = AfterUpdate] /\ pc[p] = "update"
          /\ UNCHANGED <<store, key, count, before, signed>>
      BY <1>6, <2>2 DEF Update
    <3>2. /\ DOMAIN table' = DOMAIN table
          /\ \A k \in DOMAIN table : table'[k] >= table[k]
          /\ table'[key[p]] = table[key[p]] + 1
      BY <1>a, <1>6, <2>2 DEF Update, Incremented
    <3>3. AfterUpdate \in Found
      BY DEF AfterUpdate
    <3>4. \A s \in signed : s[1] \in DOMAIN table' /\ s[2] < table'[s[1]]
      <4>1. SUFFICES ASSUME NEW s \in signed
                     PROVE  s[1] \in DOMAIN table' /\ s[2] < table'[s[1]]
        OBVIOUS
      <4>2. s[2] \in Nat /\ s[1] \in DOMAIN table /\ s[2] < table[s[1]]
        BY DEF Counters, Answers
      <4>3. table[s[1]] \in Nat /\ table'[s[1]] \in Nat
        BY <4>2, <3>2
      <4>4. QED
        BY <3>2, <4>2, <4>3
    <3>5. ASSUME NEW q \in Procs PROVE Taken(q)' /\ (Past(q)' => count'[q] < table'[key'[q]])
      BY <1>a, <3>1, <3>2, <3>3 DEF Counters, Taken, Past
    <3>6. Counters'
      BY <3>1, <3>4, <3>5 DEF Counters
    <3>7. Earlier'
      BY <3>1, <3>3 DEF Earlier
    <3>8. QED
      BY <3>6, <3>7
  <2>3. QED
    BY <2>1, <2>2
<1>7. ASSUME NEW p \in Procs, Presence(p) PROVE Counters' /\ Earlier'
  <2>1. /\ pc' = [pc EXCEPT ![p] = AfterPresence] /\ pc[p] = "presence"
        /\ UNCHANGED <<store, table, key, count, before, signed>>
    BY <1>7 DEF Presence
  <2>2. AfterPresence \in Found /\ (Past(p)' => Past(p))
    BY <2>1 DEF AfterPresence, Past, AllStores, Databases, WallClocks
  <2>3. Counters'
    BY <2>1, <2>2 DEF Counters, Taken, Past
  <2>4. Earlier'
    BY <2>1, <2>2 DEF Earlier
  <2>5. QED
    BY <2>3, <2>4
<1>8. ASSUME NEW p \in Procs, Answer(p) PROVE Counters' /\ Earlier'
  <2>1. CASE Fails(p)
    BY <2>1, <1>0
  <2>2. CASE ~Fails(p)
    <3>1. /\ pc' = [pc EXCEPT ![p] = "idle"] /\ key' = [key EXCEPT ![p] = NoKey]
          /\ count' = [count EXCEPT ![p] = 0] /\ before' = [before EXCEPT ![p] = {}]
          /\ signed' = signed \cup {<<key[p], count[p]>>}
          /\ UNCHANGED <<store, table>> /\ pc[p] = "answer"
      BY <1>8, <2>2 DEF Answer, Return, Signs
    <3>2. key[p] \in DOMAIN table /\ count[p] < table[key[p]]
      BY <1>a, <3>1 DEF Counters, Past
    <3>3. Counters'
      BY <3>1, <3>2 DEF Counters, Taken, Past
    <3>4. Earlier'
      BY <3>1 DEF Earlier
    <3>5. QED
      BY <3>3, <3>4
  <2>3. QED
    BY <2>1, <2>2
<1>9. ASSUME NEW p \in Procs, Restart(p) PROVE Counters' /\ Earlier'
  BY <1>9, <1>0 DEF Restart
<1>10. CASE UNCHANGED vars
  BY <1>10 DEF vars, Counters, Earlier, Taken, Past
<1>11. ~ClockMoves /\ \A p \in Procs : ~MakeHandle(p) /\ ~Recognize(p)
  BY <1>a DEF ClockMoves, MakeHandle, Recognize
<1>12. QED
  BY <1>1, <1>2, <1>3, <1>4, <1>5, <1>6, <1>7, <1>8, <1>9, <1>10, <1>11 DEF Next

\* Every step keeps what was read off the clock behind it, unless it sets the clock back.
LEMMA StepClock ==
  ASSUME TypeOK, TypeOK', OnClock, store \in WallClocks, steady, steady', [Next]_vars
  PROVE  OnClock'
<1> USE DEF TypeOK, Goto, Found
<1>a. store \notin Databases /\ store # "sqlite" /\ store # "biometric"
  BY DEF Databases, WallClocks
<1>0. ASSUME NEW p \in Procs, Fails(p) PROVE OnClock'
  <2>1. TokenInv'
    BY <1>0, <1>a, FailsKeeps DEF TokenInv
  <2>2. store' = store
    BY <1>0 DEF Fails, Return
  <2>3. QED
    BY <2>1, <2>2 DEF TokenInv
<1>1. ASSUME NEW p \in Procs, Register(p) PROVE OnClock'
  BY <1>1 DEF Register, OnClock
<1>2. ASSUME NEW p \in Procs, Enroll(p) PROVE OnClock'
  <2>1. CASE Fails(p)
    BY <2>1, <1>0
  <2>2. CASE ~Fails(p)
    BY <1>2, <2>2 DEF Enroll, OnClock
  <2>3. QED
    BY <2>1, <2>2
<1>3. ASSUME NEW p \in Procs, MakeHandle(p) PROVE OnClock'
  <2>1. /\ pc' = [pc EXCEPT ![p] = "idle"] /\ clock' = clock
        /\ count' = [count EXCEPT ![p] = 0] /\ before' = [before EXCEPT ![p] = {}]
        /\ signed' = signed
    BY <1>3 DEF MakeHandle, Return
  <2>2. QED
    BY <2>1 DEF OnClock
<1>4. ASSUME NEW p \in Procs, Authenticate(p) PROVE OnClock'
  BY <1>4 DEF Authenticate, OnClock
<1>5. ASSUME NEW p \in Procs, Recognize(p) PROVE OnClock'
  <2>1. CASE Fails(p)
    BY <2>1, <1>0
  <2>2. CASE ~Fails(p)
    <3>1. /\ pc' = [pc EXCEPT ![p] = AfterSelect] /\ count' = [count EXCEPT ![p] = clock]
          /\ UNCHANGED <<clock, before, signed>>
      BY <1>5, <2>2 DEF Recognize, WallClockCounter
    <3>2. \A s \in before[p] : s[2] <= clock
      BY DEF OnClock
    <3>3. QED
      BY <3>1, <3>2 DEF OnClock
  <2>3. QED
    BY <2>1, <2>2
<1>6. ASSUME NEW p \in Procs, Presence(p) PROVE OnClock'
  <2>1. /\ pc' = [pc EXCEPT ![p] = AfterPresence] /\ pc[p] = "presence"
        /\ UNCHANGED <<clock, count, before, signed>>
    BY <1>6 DEF Presence
  <2>2. QED
    BY <2>1 DEF OnClock
<1>7. ASSUME NEW p \in Procs, Answer(p) PROVE OnClock'
  <2>1. CASE Fails(p)
    BY <2>1, <1>0
  <2>2. CASE ~Fails(p)
    <3>1. /\ pc' = [pc EXCEPT ![p] = "idle"] /\ clock' = clock
          /\ count' = [count EXCEPT ![p] = 0] /\ before' = [before EXCEPT ![p] = {}]
          /\ signed' = signed \cup {<<key[p], count[p]>>} /\ pc[p] = "answer"
      BY <1>7, <2>2 DEF Answer, Return, Signs
    <3>2. count[p] <= clock
      BY <3>1 DEF OnClock
    <3>3. QED
      BY <3>1, <3>2 DEF OnClock
  <2>3. QED
    BY <2>1, <2>2
<1>8. ASSUME NEW p \in Procs, Restart(p) PROVE OnClock'
  BY <1>8, <1>0 DEF Restart
<1>9. CASE ClockMoves
  <2>1. clock' >= clock /\ clock' \in Nat /\ UNCHANGED <<pc, count, before, signed>>
    BY <1>9 DEF ClockMoves
  <2>2. \A s \in signed : s[2] \in Nat
    BY DEF Answers
  <2>3. QED
    BY <2>1, <2>2 DEF OnClock
<1>10. CASE UNCHANGED vars
  BY <1>10 DEF vars, OnClock
<1>11. \A p \in Procs : ~Insert(p) /\ ~Select(p) /\ ~Update(p)
  BY <1>a DEF Insert, Select, Update
<1>12. QED
  BY <1>1, <1>2, <1>3, <1>4, <1>5, <1>6, <1>7, <1>8, <1>9, <1>10, <1>11 DEF Next

\* The store in use is chosen once, and a clock that was set back stays one that was.
LEMMA StoreStays ==
  ASSUME TypeOK, [Next]_vars
  PROVE  store' = store /\ (steady' => steady)
<1>1. store' = store
  BY DEF Next, vars, Register, Enroll, Insert, MakeHandle, Authenticate, Select, Recognize,
         Update, Presence, Answer, Restart, ClockMoves, Fails, Return
<1>2. CASE ClockMoves
  BY <1>1, <1>2 DEF ClockMoves, TypeOK
<1>3. CASE ~ClockMoves
  <2>1. steady' = steady
    BY <1>3 DEF Next, vars, Register, Enroll, Insert, MakeHandle, Authenticate, Select, Recognize,
                Update, Presence, Answer, Restart, Fails, Return
  <2>2. QED
    BY <1>1, <2>1
<1>4. QED
  BY <1>2, <1>3

LEMMA TokenStep == TokenInv /\ [Next]_vars => TokenInv'
<1> SUFFICES ASSUME TokenInv, [Next]_vars PROVE TokenInv'
  OBVIOUS
<1>1. TypeOK'
  BY StepTypes DEF TokenInv
<1>2. store' \in Databases => Counters' /\ Earlier'
  BY <1>1, StoreStays, StepCounters DEF TokenInv
<1>3. store' \in WallClocks /\ steady' => OnClock'
  BY <1>1, StoreStays, StepClock DEF TokenInv
<1>4. QED
  BY <1>1, <1>2, <1>3 DEF TokenInv

LEMMA TokenAlways == Spec => []TokenInv
BY TokenInit, TokenStep, PTL DEF Spec

-----------------------------------------------------------------------------
\* Type correctness, and that in a store with a file an authentication answers for a key
\* that is in the table: no row is forgotten (core-sqlite.cpp), and only such a store runs
\* an UPDATE.
THEOREM TokenTypes == Spec => []TypeOK
<1>1. TokenInv => TypeOK
  BY DEF TokenInv
<1>2. QED
  BY <1>1, TokenAlways, PTL

\* In every store with a table, each counter that has been signed is below the one in the
\* file, whichever process is killed or statement fails between SELECT and answer.
THEOREM FileStaysAhead == Spec => []FileIsAhead
<1>1. TokenInv => FileIsAhead
  BY DEF TokenInv, Counters, FileIsAhead
<1>2. QED
  BY <1>1, TokenAlways, PTL

\* With any number of processes on one file, an authentication that comes in after an answer
\* was given for its key signs a higher counter than that answer did.
THEOREM CounterIncreases == Spec => []LaterIsHigher
<1>1. TokenInv => LaterIsHigher
  BY DEF TokenInv, Earlier, Found, LaterIsHigher, HigherThanBefore, Signs
<1>2. QED
  BY <1>1, TokenAlways, PTL

\* As long as the clock is not set back, no answer of a store that takes it for a counter is
\* below one that had been given when its request came in.
THEOREM ClockIsFollowed == Spec => []FollowsClock
<1>1. TokenInv => FollowsClock
  BY DEF TokenInv, OnClock, Found, FollowsClock, Signs
<1>2. QED
  BY <1>1, TokenAlways, PTL
-----------------------------------------------------------------------------
(* What the race between processes takes away. *)

\* Nothing is signed while the only process is about a request of its own.
Alone == \A p \in Procs : pc[p] \in Found \cup {"select"} => before[p] = signed

LEMMA AloneStep ==
  ASSUME NEW only, Procs = {only}, TypeOK, Alone, [Next]_vars
  PROVE  Alone'
<1> SUFFICES ASSUME pc'[only] \in Found \cup {"select"}
             PROVE  before'[only] = signed'
  BY DEF Alone
<1> USE DEF TypeOK, Goto, Found
<1>1. pc \in [{only} -> Labels] /\ before \in [{only} -> SUBSET Answers]
  OBVIOUS
<1>2. ~Return(only)
  BY <1>1 DEF Return
<1>3. CASE Authenticate(only)
  BY <1>1, <1>3 DEF Authenticate
<1>4. CASE UNCHANGED vars \/ ClockMoves
  BY <1>4 DEF vars, ClockMoves, Alone
<1>5. CASE Select(only) \/ Recognize(only) \/ Update(only) \/ Presence(only)
  <2>1. /\ pc[only] \in Found \cup {"select"} /\ UNCHANGED <<before, signed>>
    BY <1>2, <1>5 DEF Select, Recognize, Update, Presence, Fails
  <2>2. QED
    BY <2>1 DEF Alone
<1>6. ~Register(only) /\ ~Enroll(only)
  BY <1>1, <1>2 DEF Register, Enroll, Fails
<1>7. ~Insert(only) /\ ~MakeHandle(only) /\ ~Answer(only) /\ ~Restart(only)
  BY <1>2 DEF Insert, MakeHandle, Answer, Restart, Fails
<1>8. QED
  BY <1>3, <1>4, <1>5, <1>6, <1>7 DEF Next

\* With a file and one process, no two answers of a key carry the same counter: what is asked
\* of the counter (biometric-u2f.md:97-98) fails for nothing but the two statements of another
\* process in between (core-sqlite.cpp:96-108).
THEOREM SignedOnceAlone ==
  ASSUME NEW only, Procs = {only}, Stores \subseteq Databases
  PROVE  Spec => []NeverSignedTwice
<1> DEFINE Inv == TokenInv /\ Alone /\ store \in Databases
<1>1. Init => Inv
  BY TokenInit DEF Init, Alone, Found
<1>2. Inv /\ [Next]_vars => Inv'
  <2> SUFFICES ASSUME Inv, [Next]_vars PROVE Inv'
    OBVIOUS
  <2>1. TypeOK
    BY DEF TokenInv
  <2>2. QED
    BY <2>1, TokenStep, AloneStep, StoreStays
<1>3. Inv => NeverSignedTwice
  <2> SUFFICES ASSUME Inv, NEW p \in Procs, Signs(p), <<key[p], count[p]>> \in signed
               PROVE  FALSE
    BY DEF NeverSignedTwice
  <2>1. <<key[p], count[p]>> \in before[p] /\ count[p] \in Nat /\ pc[p] \in Found
    BY DEF Alone, Signs, Found, TokenInv, TypeOK
  <2>2. count[p] < count[p]
    BY <2>1 DEF TokenInv, Earlier
  <2>3. QED
    BY <2>1, <2>2
<1>4. QED
  BY <1>1, <1>2, <1>3, PTL DEF Spec
===============================================================================

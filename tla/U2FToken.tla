------------------------------- MODULE U2FToken -------------------------------
(***************************************************************************)
(* Register and authenticate requests from the U2F core (src/core.cpp) down*)
(* to the stores, in several processes that use one database file:         *)
(*                                                                         *)
(*   "sqlite"     SimpleCore over SQLiteCore (core-sqlite.cpp), from which *)
(*                the notification core is derived                         *)
(*   "biometric"  BiometricCore (core-biometric.cpp), which looks for a    *)
(*                finger between the two statements                        *)
(*   "stateless"  SimpleCore over core-stateless.cpp, whose handles hold   *)
(*                the key, encrypted: no file, the counter is the wall     *)
(*                clock in seconds                                         *)
(*   "unsafe"     the same over core-unsafe.cpp, with the key in the clear *)
(*                                                                         *)
(* SQLite is external: each statement is a step of its own, done as a      *)
(* whole or failed.  A process may be killed between any two steps.  Only  *)
(* one request is handled at a time by a process.  Whether the user is     *)
(* present is any answer; UserPresence is about which.  AES is external:   *)
(* what decrypts to the application's hash is a handle made for it, but    *)
(* for its first block, which nothing in it attests.                       *)
(*                                                                         *)
(* Where a definition stands right before another one with the same        *)
(* parameters, the first is the second with a mistake in it: the checks    *)
(* are run with it in turn to see that a property notices.                 *)
(***************************************************************************)
EXTENDS Integers

CONSTANTS
  Procs,
  Apps,        \* application hashes
  Handles,     \* the handles sqlite3_randomness() may make
  Stores,      \* the stores considered
  MaxCounter,  \* times a key is used at most (bounds the model; below 2^32)
  MaxClock     \* last second considered (bounds the model)

Databases == {"sqlite", "biometric"}
WallClocks == {"stateless", "unsafe"}
AllStores == Databases \cup WallClocks

ASSUME TokenAssumption ==
  /\ Stores \subseteq AllStores
  /\ MaxCounter \in Nat
  /\ MaxClock \in Nat

Keys == Apps \X Handles

\* Control bytes of an authentication (the others are refused at once).
Controls == {"check only", "enforce user", "don't enforce user"}

VARIABLES
  store,
  table,   \* the rows of Handle: key |-> authCounter; without a file, 0 for each handle made
  clock,   \* tv_sec
  steady,  \* the clock has never been set back
  pc,      \* what each process does next
  key,     \* the key its request is about (its handle is to be made while it registers)
  control,
  present, \* userPresent
  count,   \* authCounter, once it is fetched
  signed,  \* the answers given: key and counter
  before   \* the answers that had been given when the request came in

vars == <<store, table, clock, steady, pc, key, control, present, count, signed, before>>

Goto(p, label) == pc' = [pc EXCEPT ![p] = label]

NoKey == <<>>

\* The request is over, and what was on the stack is gone.
Return(p) ==
  /\ Goto(p, "idle")
  /\ key' = [key EXCEPT ![p] = NoKey]
  /\ control' = [control EXCEPT ![p] = "check only"]
  /\ present' = [present EXCEPT ![p] = FALSE]
  /\ count' = [count EXCEPT ![p] = 0]
  /\ before' = [before EXCEPT ![p] = {}]
  /\ UNCHANGED <<store, clock, steady>>

\* It failed, or was answered with an error.
Fails(p) == Return(p) /\ UNCHANGED <<table, signed>>

-----------------------------------------------------------------------------
(* processRegisterRequest(), enroll() and createHandle(). *)

Register(p) ==
  /\ pc[p] = "idle"
  /\ \E k \in Keys : key' = [key EXCEPT ![p] = k]
  /\ Goto(p, "enroll")
  /\ UNCHANGED <<store, table, clock, steady, control, present, count, signed, before>>

\* The user is there, and a key pair has been made.
Enroll(p) ==
  /\ pc[p] = "enroll"
  /\ \/ Fails(p)
     \/ /\ Goto(p, "insert")
        /\ UNCHANGED <<store, table, clock, steady, key, control, present, count, signed, before>>

\* The primary key: a row that is there already makes the INSERT fail.
InsertsOrReplaces(k) == TRUE
Inserts(k) == k \notin DOMAIN table

\* A new row starts at 0.
NewRow(k) == [r \in DOMAIN table \cup {k} |-> IF r = k THEN 0 ELSE table[r]]

Insert(p) ==
  /\ pc[p] = "insert" /\ store \in Databases
  /\ \/ Fails(p)
     \/ /\ Inserts(key[p])
        /\ table' = NewRow(key[p])
        /\ Return(p)
        /\ UNCHANGED signed

\* The other stores only write the handle.
MakeHandle(p) ==
  /\ pc[p] = "insert" /\ store \in WallClocks
  /\ table' = NewRow(key[p])
  /\ Return(p)
  /\ UNCHANGED signed

-----------------------------------------------------------------------------
(* processAuthenticationRequest(), authenticate() and fetchHandle(). *)

Authenticate(p) ==
  /\ pc[p] = "idle"
  /\ \E k \in Keys, c \in Controls :
       /\ key' = [key EXCEPT ![p] = k]
       /\ control' = [control EXCEPT ![p] = c]
  /\ before' = [before EXCEPT ![p] = signed]
  /\ Goto(p, "select")
  /\ UNCHANGED <<store, table, clock, steady, present, count, signed>>

\* The statements that a store runs, and where it looks for the user.
AfterSelect == IF store = "sqlite" THEN "update" ELSE "presence"
AfterPresenceAlike == "update"
AfterPresence == IF store = "biometric" THEN "update" ELSE "answer"
AfterUpdate == IF store = "sqlite" THEN "presence" ELSE "answer"

\* There is no such row, or the statement fails; or the row is read.
Select(p) ==
  /\ pc[p] = "select" /\ store \in Databases
  /\ \/ Fails(p)
     \/ /\ key[p] \in DOMAIN table
        /\ count' = [count EXCEPT ![p] = table[key[p]]]
        /\ Goto(p, AfterSelect)
        /\ UNCHANGED <<store, table, clock, steady, key, control, present, signed, before>>

\* The stateless store compares what follows the private key with the application, so it
\* takes a handle made for it whose first block has been changed since, with another key in
\* it; the unsafe store takes every handle that names the application, whoever made it.
Refuses(k) == store = "unsafe" \/ k \notin DOMAIN table
Accepts(k) == store = "unsafe" \/ \E made \in DOMAIN table : made[1] = k[1]

NanosecondsCounter == MaxClock - clock
WallClockCounter == clock

Recognize(p) ==
  /\ pc[p] = "select" /\ store \in WallClocks
  /\ \/ Refuses(key[p]) /\ Fails(p)
     \/ /\ Accepts(key[p])
        /\ count' = [count EXCEPT ![p] = WallClockCounter]
        /\ Goto(p, AfterSelect)
        /\ UNCHANGED <<store, table, clock, steady, key, control, present, signed, before>>

NotIncremented(k) == table[k]
Incremented(k) == table[k] + 1

Update(p) ==
  /\ pc[p] = "update"
  /\ table[key[p]] < MaxCounter
  /\ \/ Fails(p)
     \/ /\ table' = [table EXCEPT ![key[p]] = Incremented(key[p])]
        /\ Goto(p, AfterUpdate)
        /\ UNCHANGED <<store, clock, steady, key, control, present, count, signed, before>>

\* A check-only request does not look for the user.
Presence(p) ==
  /\ pc[p] = "presence"
  /\ \E b \in IF control[p] = "check only" THEN {FALSE} ELSE BOOLEAN :
       present' = [present EXCEPT ![p] = b]
  /\ Goto(p, AfterPresence)
  /\ UNCHANGED <<store, table, clock, steady, key, control, count, signed, before>>

\* The request is one to answer with a signature.
Signs(p) ==
  /\ pc[p] = "answer"
  /\ control[p] # "check only"
  /\ control[p] = "enforce user" => present[p]

Answer(p) ==
  \/ /\ pc[p] = "answer" /\ ~Signs(p)
     /\ Fails(p)
  \/ /\ Signs(p)
     /\ signed' = signed \cup {<<key[p], count[p]>>}
     /\ Return(p)
     /\ UNCHANGED table

-----------------------------------------------------------------------------
\* The process is killed and started again; the file stays as it is.
Restart(p) == pc[p] # "idle" /\ Fails(p)

\* The wall clock goes on, or is set.
ClockMoves ==
  /\ store \in WallClocks
  /\ clock' \in 0 .. MaxClock
  /\ steady' = (steady /\ clock' >= clock)
  /\ UNCHANGED <<store, table, pc, key, control, present, count, signed, before>>

Init ==
  /\ store \in Stores
  /\ table = [k \in {} |-> 0]
  /\ clock \in 0 .. MaxClock /\ steady = TRUE
  /\ pc = [p \in Procs |-> "idle"]
  /\ key = [p \in Procs |-> NoKey]
  /\ control = [p \in Procs |-> "check only"]
  /\ present = [p \in Procs |-> FALSE]
  /\ count = [p \in Procs |-> 0]
  /\ signed = {}
  /\ before = [p \in Procs |-> {}]

Next ==
  \/ \E p \in Procs :
       \/ Register(p) \/ Enroll(p) \/ Insert(p) \/ MakeHandle(p)
       \/ Authenticate(p) \/ Select(p) \/ Recognize(p) \/ Update(p) \/ Presence(p) \/ Answer(p)
       \/ Restart(p)
  \/ ClockMoves

Spec == Init /\ [][Next]_vars

-----------------------------------------------------------------------------
Labels == {"idle", "enroll", "insert", "select", "update", "presence", "answer"}
Answers == Keys \X Nat

\* In a store with a file the key a request has found stays in the table until it is
\* answered (the others take handles that no one has made), and only there is it updated.
TypeOK ==
  /\ store \in AllStores
  /\ DOMAIN table \subseteq Keys /\ table \in [DOMAIN table -> Nat]
  /\ clock \in Nat /\ steady \in BOOLEAN
  /\ pc \in [Procs -> Labels]
  /\ key \in [Procs -> Keys \cup {NoKey}]
  /\ control \in [Procs -> Controls]
  /\ present \in [Procs -> BOOLEAN]
  /\ count \in [Procs -> Nat]
  /\ signed \subseteq Answers
  /\ before \in [Procs -> SUBSET Answers]
  /\ \A p \in Procs : pc[p] # "idle" => key[p] # NoKey
  /\ \A p \in Procs : pc[p] \in {"update", "presence", "answer"} /\ store \in Databases => key[p] \in DOMAIN table
  /\ \A p \in Procs : pc[p] = "update" => store \in Databases

\* Every counter that has been signed is below the one in the file, so neither a process
\* killed nor a statement that failed can make it be signed by a later request.
FileIsAhead == store \in Databases => \A s \in signed : s[2] < table[s[1]]

\* What process p is about to sign is higher than all that had been signed for the same
\* key when the request came in.
HigherThanBefore(p) == Signs(p) => \A s \in before[p] : s[1] = key[p] => s[2] < count[p]

\* The counter of a key increases from answer to answer, over all processes that share the
\* file, whatever fails and whoever is killed in between.
LaterIsHigher == store \in Databases => \A p \in Procs : HigherThanBefore(p)

\* Where the counter is the wall clock, an answer may carry that of an earlier one, and a
\* lower one than that only after the clock was set back (core-stateless.cpp:52-56,
\* core-unsafe.cpp:25-29).
FollowsClock ==
  store \in WallClocks /\ steady =>
    \A p \in Procs : Signs(p) => \A s \in before[p] : s[2] <= count[p]

\* "There is an authentication counter returned on every successful authentication. It must
\* be always-increasing" (biometric-u2f.md:97-98): no two answers carry the same one.
NeverSignedTwice == \A p \in Procs : Signs(p) => <<key[p], count[p]>> \notin signed
===============================================================================

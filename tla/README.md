# A TLA+ model of u2fdev

u2fdev is a U2F (FIDO) authentication device in software: it receives U2F HID
reports, reassembles them into requests, answers the requests from a key store,
and asks for the user's presence through a fingerprint scanner or a desktop
notification. This directory holds TLA+ specifications of the parts of it that
keep state, the TLC configurations that check them on small instances, and
machine-checked proofs of what holds for every instance.

## 1. Inventory

| Component | Source | State it keeps | Operations |
|---|---|---|---|
| HID transport | `src/hid.cpp`, `include/u2f/hid.h` | 10 slots for requests in reassembly (channel, command, sequence number, buffer, deadline), the channel lock (holder, deadline), the last channel id allocated | `receivedOutputReport` for a command or a continuation packet; the commands INIT, MSG, PING, WINK, LOCK; `sendResponse` |
| U2F core | `src/core.cpp`, `include/u2f/core.h` | none between calls | `processRawAdpu`: parse an APDU, dispatch register, authenticate, version; build and size the response |
| Simple core | `src/core-simple.cpp` | none | `enroll`, `authenticate` in terms of `isUserPresent`, `createHandle`, `fetchHandle` |
| SQLite store | `src/core-sqlite.cpp` | the table Handle (application, handle, key, counter) in a file other processes may have open | `createHandle`: one INSERT; `fetchHandle`: a SELECT, then an UPDATE of the counter |
| Stateless and unsafe stores | `src/core-stateless.cpp`, `src/core-unsafe.cpp` | none: the handle holds the key, the counter is the wall clock in seconds | `createHandle`, `fetchHandle` |
| Biometric core | `src/core-biometric.cpp` | the table Handle with a fingerprint template, the current template, `isCapturing`, `captureThread`, `captureTimeout`, a mutex and a condition variable | `wink`, `enroll`, `authenticate` from the HID thread; capture events from the scanner library's threads; the capture thread; the destructor |
| Notification core | `examples/uhid-notify.cpp` | `userPresentUntil`, `notififyUntil`, the notification, the thread that closes it, a mutex and two condition variables | `isUserPresent` from the HID thread; the Confirm and closed callbacks from the GTK thread; the notification thread; the destructor |
| Cryptography | `src/crypto.cpp`, `src/crypto-simple.cpp` | none | key pairs, SHA-256, ECDSA signatures and their DER encoding, whose size depends on the value |
| Wiring | `examples/uhid.cpp` | none | creates a core, a `Hid` and a `UHid` |
| Scanner SDK | `dependencies/veridisbiometric` | external | listeners, template extraction and matching |
| Git submodules | `hiddev`, `micro-ecc`, `crypto-algorithms` | external, their directories are empty | report transport, elliptic curves, SHA-256 and AES |

**How they interact.** The kernel's UHID device calls `receivedOutputReport` on one
thread, one report after the other; a report is handled to the end, replies
included, before the next. `Hid` calls the core synchronously
(`processRawAdpu`, `wink`, `supportsWink`); the core calls its store and its
presence check. Concurrency enters in two places only: the biometric core (HID
thread, capture thread, the SDK's threads) and the notification core (HID
thread, GTK thread, notification thread). The SQLite file is shared with any
other process that opened `handles.db`.

**What is hard.**

* *HID transport.* There is no timer: time-outs are deadlines compared with a 32
  bit clock when a packet arrives, so a request can expire between two clock
  reads of one handler, and the comparison is wrong once the clock wraps. Any
  number of channels compete for ten slots. What makes it correct: the message
  that is dispatched is the message that was sent, once, on its own channel; a
  message is lost only to time, to a new command on its channel, or to a packet
  out of sequence; a lock excludes the other channels until it runs out.
* *Response framing.* A response of any length up to 65535 bytes is cut into
  packets with 7 bit sequence numbers; the host must be able to put it together.
* *U2F core.* The response buffer is as large as the host says it expects, and
  the handlers write as much as they have; every error path must forget the size
  that the host asked for; sizes of data, handle and signature come from the data
  itself; four parts of request and answer are hashed from where they lie.
* *Cryptography.* The size of a signature depends on the top bits of two numbers,
  and nobody looks whether there is a signature.
* *Stores.* Reading the counter and incrementing it are two statements, and the
  wall clock may stand still or step back between two authentications.
* *Biometric core.* The capture thread decides to stop under the mutex but stops
  without it; a request in that window believes that the scanner is on. The
  template may be thrown away while it is matched.
* *Notification core.* Two threads may both wait for the notification thread to
  finish, then both join it; the wait has no predicate.

**What makes each part correct.** The transport: see above. The framing: a host
reads back what was sent, and no byte of one packet stays in the next. The U2F
core: it reads nothing beyond the request, sends nothing it has not written, fits
its buffer when the host asks for enough, and signs what the host can verify. The
stores: a counter never repeats, and never steps back, over all processes that
share a file. The biometric core: a template grants one request, of its own
session; the scanner goes off when nobody calls; retries succeed in the end; no
call hangs. The notification core: one click grants one request, in time; the
notification goes when its time is up.

## 2. Modules

| Module | What it is |
|---|---|
| `HidProtocol` | the vocabulary of the protocol: reports, messages, command and error codes, and the constants with their assumptions |
| `HidChannels` | the abstract specification of the transport: one unfinished message per channel, a lock, no slots, no clock, no sequence counters |
| `HidTransport` | requests: `receivedOutputReport()` and all it calls, as coded; it implements `HidChannels` |
| `HidFraming` | responses: `sendResponse()` packet by packet, and the host that reads them |
| `BiometricCapture` | the concurrent part of `BiometricCore`: requests, capture thread, scanner events |
| `UserPresence` | the abstract specification of a presence check: a confirmation, used once or lapsed |
| `NotifyPresence` | the concurrent part of `NotifySQLiteCore`; it implements `UserPresence` |
| `U2FCore` | `processRawAdpu()` and both handlers, byte for byte: the parser, the buffer, the answers, and the host that reads them |
| `DerSignature` | how `sign()` writes the two numbers of a signature, and how a host reads them |
| `U2FToken` | register and authenticate from the U2F core down to every store, in several processes |
| `MCHidTransport`, `MCHidFraming`, `MCBiometricCapture`, `MCNotifyPresence`, `MCU2FCore`, `MCU2FToken` | values of the constants for TLC |
| `ModuloLemmas` | lemmas on division with remainder |
| `HidTransportProofs`, `HidFramingProofs`, `BiometricCaptureProofs`, `NotifyPresenceProofs`, `U2FCoreProofs`, `U2FTokenProofs` | theorems |
| `HidRefinementProofs` | the proof that `HidTransport` implements `HidChannels` |

Where a definition stands right before another with the same parameters (`Cancel`
and `CancelKeepsDeadline`), the first is the second with a mistake in it, of the
kind a change of the code might make. `PROJECT.json` lists, for every property
that a run checks, such a mistake that breaks it.

### HidTransport

The variables are the members of `Hid` (`slot` is `multipartRequest`, `lock`,
`channelIdCount`), plus the true time `clock`, of which the program sees `Now(t)`
(32 bits of it), `alive`, which becomes FALSE when a handler has used a null
buffer, and what the last report caused: the request it completed (`handled`)
and the messages sent (`replies`).

`ReceiveCommand(r)` and `ReceiveContinuation(r)` are `receivedOutputReport()` for a
packet with and without the command bit; each is a disjunction of operators, one
per path through the handler, and each of those is the whole path, replies
included. The handler reads the clock several times. The slot pending on the
channel is looked up at the instant `clock`; all that follows sees a later instant
`t`, at most `MaxStall` away, so that a slot may expire between the lookup and
its use, as it may in the program. `Tick` lets time pass between reports.

Data is abstracted so: a packet's payload is a function to `Byte`, the sizes of
its two kinds are parameters, a channel id is a number modulo `CidMod` (the last
one is the broadcast channel), a channel id takes one element of a payload
instead of four bytes and the constant version bytes of the INIT answer are left
out. `processRawAdpu()` is a choice between failure and any of `Responses`. A
report with a wrong type, number or size returns at once and changes nothing; it
is no action. A reply is one message: `HidFraming` has what becomes of it.

Once the clock has wrapped a slot without a buffer may look pending
(`ContinueWithoutBuffer`). A byte copied through its null pointer ends the process;
where none is left to copy the old request is dispatched again, and `HandleUnread`
says what becomes of it without a look at the bytes it does not have.

Uninitialised members (`channelIdCount`, the lock's channel, most of a slot) start
with any value of `UninitCids` and `UninitSlots`.

### HidChannels

What a reader would say the transport does. `Command`, `Reject` and `Extend` are a
first packet, a packet that does not continue anything, and one that does; in
each of them the messages outside a set `D` may be lost to time, and `Serve` says
what the answer to a complete request may be. The refinement mapping
(`partialBar`, `holderBar`) reads the unfinished messages off the slots that are
not expired.

### HidFraming

`SendFirst` is `sendResponse()` up to its first packet, `SendNext` a turn of its
loop; the variables are the function's own, with the pointer `payload` as an
offset (`sentSize`), plus the packets `sent`. The buffer `msg` is kept byte by
byte: that it is refilled and cleared rightly is the point. `HostReads` is a
receiver that trusts the length in the first packet.

The run shows in passing that `seq` does go past 127, which the comment at
hid.cpp:315 says it never should; the mask there, and in `append()`, makes up
for it, and `HostGetsMessage` holds.

### BiometricCapture

Three kinds of thread: `"hid"` (the requests), `"capture"` (the capture thread)
and one per reader (the library's). `pc` says where each is; a step is what a
thread does between two accesses to data that another thread may change at that
moment. That is a whole critical section, except for `fingerprintTemplate` and
`isCapturing`, which the program also writes without `captureMutex`: each access
to them is a step of its own, and `held` is the pointer that a thread has read
and not used yet. `heap` is the set of buffers allocated, so that a template
freed twice, or used after it was freed, is seen (`alive` becomes FALSE: the
behaviour is undefined and the model says no more). `captureTimeout` is only ever
compared with the present and is reduced to `expired`.

`LockAndEnable` and `JoinAndStart` are `enableCapture()` up to and from the join,
which waits with the mutex held; `CheckTemplate` to `Authenticate` are the rest
of `wink()`, `enroll()` and `authenticate()`. `StartListening` to `EndThread` are
`captureTimeoutThreadFunc()` in its order. `FingerRemoved`, `ImageCaptured` and
what follows them are `onCaptureEvent()`. An authentication without a presence
check does not come near this state.

A reader first reports only that it is there (`Plugged`); the core then asks for
its events (`Attach`), which fails when the listener has been removed meanwhile;
images and lifted fingers come from `attached` readers, and `Unplugged` may come
from any. So it is after each start of the capture thread, since removing the
listener forgets the readers.

Two assumptions are made of the scanner library, which is there as a header
only: a reader reports one event after the other, and `removeListener()` returns
when no event is being handled. The deadlock it takes part in (a report that
waits for `captureMutex`, which the destructor holds while it joins the thread
that is in `removeListener()`) rests on the second.

### NotifyPresence, UserPresence

Here all shared data is protected by `notifyMutex`, so a step is what a thread does
with the mutex until it lets go of it; `mutex` is only ever seen taken by a
thread that joins another with it, which `closeNotification()` and
`showNotification()` both do. `FindPresent`, `FindAbsent` and `ShowNotification` are
`isUserPresent()`, `RunCallback` is the callback for Confirm or for a notification
that has gone, `WaitMore` and `CloseForGood` are `notifyThread()`. `Signal` is
external: GTK may run a callback while there is a notification to have it. A
condition variable's waiters are those at `"waiting"`; `CloseForGood` moves them
to `"woken"`, and `SpuriousWakeup` may do so too.

`UserPresence` has the confirmation (`credit`) and the answer. The mapping
(`creditBar`) counts a check that has seen the confirmation, and waits, as one
that still has it.

### U2FCore, DerSignature

One call of `processRawAdpu()` after another. A step is a stage of the call, from one
exit to the next: `ParseBare` to `Refuse` are the forms of a request, `WrongClass` to
`Version` are `processRequest()`, then the two handlers, and `AppendStatus`. The
offsets are those of the code. `read` is how far the request has been looked at,
`capacity` the size that the host asked for (the buffer has two bytes more),
`response` what has been written to the buffer, in order, `responseSize` the
variable of that name, which is what is sent. A write past the buffer ends the
model (`alive`), since its effect is undefined.

What the virtual functions do is free: `enroll()` and `authenticate()` fail, or come
back with any key, handle, presence and counter of small sets; a signature is any
two `Numbers`, written by `DerSignature` as `sign()` does, or fails (`SignFails`), in
which case the size is computed from a byte nobody wrote (`Leftovers`). SHA-256 is
the string it is given, so that two inputs have one hash when they are the same.
`Encoded` and the definitions named `Host...` are the other side: how a host writes
a request (ISO 7816-4, extended lengths) and what it makes of an answer.

### U2FToken

`store` is the core in use: `"sqlite"` is `SimpleCore` over `SQLiteCore`,
`"biometric"` is `BiometricCore`, `"stateless"` and `"unsafe"` are `SimpleCore` over the
stores of these names, whose counter is the wall clock. They differ in where they
look for the user: `SQLiteCore` reads and increments the counter before the presence
check, `BiometricCore` reads it before and increments it after, the others increment
nothing. `AfterSelect`, `AfterPresence` and `AfterUpdate` say so, and the labels
in `pc` name what a process does next. The two stores without a file differ in the
handles they take. The stateless one compares the application with the last 32 of the
64 bytes it decrypts: besides the handles that it made for the application (`table`
has them) it takes one of these whose first block has been changed since, and signs
with whatever key comes out. The unsafe one takes every handle that names the
application.

`Register`, `Enroll` and `Insert` are `processRegisterRequest()`, `enroll()` and
`createHandle()`; `Authenticate` to `Answer` are `processAuthenticationRequest()`
and what it calls. Each SQL statement is a step, done as a whole or failed;
`Restart` ends a process anywhere. `table` is the file (without one, the handles
that the device has made), `count` the local `authCounter`, `signed` what was
answered. `before` is a history variable: what had been answered when the
request came in; `steady` is another: the clock has never been set back.

`BiometricCore` keeps its SELECT open during the presence check, which may make
another process's UPDATE fail as busy; the model lets it fail or succeed at any
time, which is more than SQLite does. The sizes of requests and responses, and
keys and signatures, are in `U2FCore`. A request of a wrong size or control byte is
answered at once and changes nothing; it is no action.

## 3. Runs

Passing runs:

| Run | Question | Bounds |
|---|---|---|
| `hid_reassembly` | Do the slots implement one reassembly buffer per channel? Is what is dispatched what was sent? | 2 slots for 3 channels, so that the pool runs out; requests of 3 to 4 packets, with a last packet that is full and one that is not; sequence numbers modulo 2 that wrap within a request; 4 ticks with a time-out of 2, so that a slot expires and is used again; a handler may take 1 tick |
| `hid_commands` | Is every command answered once, as the switch says, and does a lock stop what it should? | every command with every outcome, locks on two channels that are taken, renewed, given up and run out, one request begun before a lock and finished after |
| `hid_framing` | Does a host read back every response? | bytes of 3 bits and packets of 5: every length from 0 to 63, the largest, which takes 17 packets, twice round the `uint8_t` |
| `biometric_sessions` | Do calls return, does the scanner go off, do retries succeed, does a template outlive its session? | 1 reader that is plugged and unplugged at any time, 2 fingers, 5 buffers (one for each pointer a thread can hold and two to allocate), any number of requests and sessions |
| `notify_sessions` | Does one click grant one request, has every notification its thread, is a wake-up lost? | none: the model is the system, any number of checks and clicks |
| `token_counters` | Does the counter of a key increase from an answer to a later request's, in spite of failures, restarts and other processes? Does it follow the clock where it is one? | 2 processes, 1 application with 2 handles, each used twice; a clock of 2 seconds; all stores. A third process adds no new kind of interference: `U2FTokenProofs` has any number |
| `core_responses` | Does the parser invert the encoding? Is anything read or sent that is not there? Can a host verify the answer? | some 4,000 requests: 8 headers (every instruction, every control byte, a wrong class), 8 strings of data and 7 sizes of it, right, wrong and spoilt, 9 endings (no size, 0, sizes at and around those of the answers, a stray byte). Hashes of 1 byte, keys and handles of 2, numbers of 2 bytes with a leading zero, without, and with the top bit set: every field is there, each length that depends on a value takes all its forms, and `U2FCoreProofs` has any sizes |

The bytes of the HID runs tell the channel and the packet they belong to, so that
a byte out of place is seen. The state of each run is bounded by its constants
alone; `Horizon` and `MaxCounter` are the only bounds on counters. The processes
of `U2FToken` are interchangeable, which its runs, all of invariants, use as a
symmetry. With two readers, one finger and six buffers `BiometricCapture`
has more than 1,790,000 states and does not finish in a routine run: its
temporal properties are checked on the instance of `biometric_sessions` only, its
invariants are proved for any number of readers, fingers and buffers.

Deadlock is checked except for `BiometricCapture`, `NotifyPresence` and `U2FCore`. There
the process may end (`alive`), the destructor ends it, and the first two hang in the
ways the violations below show. In `HidTransport` a report can always arrive; with the
horizon reached it is handled at that instant. In `U2FToken` a process can always
be killed, and an idle one register.

Runs that TLC refutes, each for a statement of the repository that its code does
not keep:

| Run | Statement | What happens |
|---|---|---|
| `hid_clock_wrap` | the search returns a non-expired request (hid.h:67) | when the 32 bit clock wraps, slots without a buffer look pending |
| `biometric_reuse` | a success clears the template (biometric-u2f.md:70) | the next request uses it first |
| `notify_confirm` | a confirmation can be checked for during 5 s (uhid-notify.cpp:10) | callback and check both join one thread, the second through a null pointer |
| `token_race` | the counter "must be always-increasing" (biometric-u2f.md:97-98) | two processes read it before either increments it |
| `signature_der` | the signature is wrapped in DER (crypto.cpp:85) | a number that starts with a zero byte keeps it |

`notify_confirm` is found without spurious wake-ups (`SpuriousWakeups = FALSE`); the
C++ standard allows these, and `notify_sessions` has them.

Two more statements are refuted by runs that are easily made from these.
`PopupCloses` of `NotifyPresence`, for "The popup must be closed after a 5s timeout"
(uhid-notify.cpp:8), as the property of `notify_confirm.cfg`: a callback that waited
for the old notification joins the thread of a newer one, with the mutex held.
`NeverSignedTwice` with `Stores <- WallClocks` in `token_race.cfg`, for the counter that
"must be monotonically increasing" (core-stateless.cpp:52): two requests within a
second carry the same one.

`BiometricCapture` states three more that its code does not keep: put their names in
place of the property in `biometric_reuse.cfg` to see them refuted. `ScannerOn`, for
"Scanner must be on" (core-biometric.cpp:142): a request may meet the capture
thread past its decision to stop. `DestructorReturns`, for "Wait for the thread to
die" (111): it waits with the mutex held that the thread needs (a `PROPERTIES` entry,
with `Ops <- Calls`). `TemplateStored`, for the template stored with the key
(biometric-u2f.md:65): the finger is lifted in between, and a null template is
stored.

`notify_sessions` says what is left when `notify_confirm` and `PopupCloses` are set
apart: `Unharmed` is that neither has happened, and as long as it holds a check
comes back and the notification goes. `biometric_sessions` says of the destructor
when its join ends (`LastJoinEnds`): when it takes the mutex after the capture
thread's last wait, and no reader waits for the mutex whose report
`removeListener()` waits for. Of everything else it says that it holds or that a
freed buffer has been used. `core_responses` says nothing of what the core does
after a write past its buffer (`alive`), which `RoomSuffices` excludes for a host that
asks for enough, nor of the bytes sent when a signature failed (`SignFails`).

## 4. Fairness

`HidTransport`, `HidFraming`, `U2FCore` and `U2FToken` have none: everything there is safety,
and nobody has to send anything.

In the other two, a thread that can run does (weak fairness), and one that waits
for the mutex gets it if it is free again and again (strong fairness): each holder
releases it after a bounded number of steps, or joins, and `std::mutex` is not
required to be fair but a wait in which others always come first is not what the
code is about. A `wait_until()` ends, since its deadline is finite; spurious
wake-ups are never required. A deadline passes when no call is in progress or to
come that could move it (`WF_vars(Resting /\ Expire)`); it is not required to pass
while requests keep coming, since each of them extends it. Nobody has to call,
confirm, or touch a scanner: `RetriesSucceed` says so of its own premise that
somebody does, and that a scanner which is there is reported each time the
listener is added (strong fairness of `Plugged` and `ImageCaptured`, in the premise).

## 5. Proofs

The theorems hold for every value of the constants that satisfies the `ASSUME`s
of the modules, for reports, channels, slots, packet sizes and clocks of any
number and width.

`HidTransportProofs`

* `TypeCorrect`, `LockHeld`: from the assumptions alone; the type invariant is
  inductive as it stands. `LockHeld` needs no bound on the clock, so a lock in
  force is not taken over when the clock wraps, either.
* `CancelledStaysExpired`, `PendingIsUnique`, `ReassemblyIsSound`: under `NoWrap`, that
  the clock does not wrap before `Horizon`; `hid_clock_wrap` shows that they fail
  without it. None of the three is inductive. `SafeInv` strengthens them
  together: the true time of every slot's deadline is known (`Good`), a slot that
  is not expired is consistent, two such slots differ in their channel, and no
  null buffer has been used. The argument needs all of it at once: a continuation
  does not use a null buffer because a pending slot has one, which is so because
  cancelling sets the deadline to the present, and the present never goes back.

`HidRefinementProofs`

* `ChannelsImplemented`, under `NoWrap` too: for any number of slots and channels, the
  transport implements `HidChannels`. The refinement mapping looks at the slots at one
  time, so it changes when nothing but the clock does. The proof therefore first says
  what a table of slots shows at a time (`Seen`, which `BarIsSeen` identifies with the
  mapping), and that a table of which `Good` holds shows exactly the slots that pend:
  the first match is the only one (`SeenIs`). A step of the code then has to show two
  things: what the slots that it leaves alone still show, at its later time (`SeenKept`:
  some channels may be gone, none has changed), and what the one that it wrote does
  (`SeenChanged`). There is one lemma for each action, named for it (`BusyRefines` to
  `ContinueToEndRefines`). Two of them have an argument of their own: a command is
  refused for want of room only when `NumSlots` different channels are seen, since two
  pending slots never share one (`SlotCount`), and the sequence number that a
  slot expects is the one that the bytes it holds determine, because every packet but
  the last is full (`Consistent`, used in `PendingIsPartial` and `AppendIs`).

`HidFramingProofs`

* `FramingTypes`, `BytesInPlace`, `MessageReadBack`, from `FramingAssumption`.
  `FramingInv` relates the variables of the function to the packets sent:
  `sentSize` is what the packets carry, `payloadSize` the rest, `seq` the number of
  continuations modulo 256, and every packet has its bytes in place. The rest is
  arithmetic of quotient and remainder, in `ModuloLemmas`.

`NotifyPresenceProofs`

* `NotifyTypes`, `NotificationAttended`, and `PresenceRefined`: `isUserPresent()`
  implements `UserPresence`, for any behaviour of the user and with or without
  spurious wake-ups. `NotifyTypes` says who keeps the mutex: exactly the thread that
  joins with it. `PresenceInv` adds that who shows a notification has found the user
  absent; without it a confirmation could come between the look and the answer.

`U2FCoreProofs`

* `CoreTypes`, `RequestsReadWithin`, `AnswersAreWritten`, `AnswersAreWhole`, `RoomIsEnough`,
  from `CoreAssumption` and `DerAssumption`: for requests of any length and content and
  for hashes, keys, handles, certificates and numbers of any size. The invariant
  relates what has been written to `responseSize` at each label: they agree from the
  moment a handler has reset the size until the answer is complete, and each part
  adds at most what `LongestAnswer` counts for it; and `read` to the form the parser
  found. `SignatureFits` says of `DerSignature` what all of them need, that what is
  written are bytes and `signatureSize()` is their number, and that with numbers of 32
  bytes they fit the type `Signature`.
* `ParsingInverts`: inductive by itself beside that invariant, since a request is parsed
  once and does not change. Each of the four forms is shown equal to an encoding byte by
  byte: `BytesOf` lists the bytes of an encoding, `SizesMatch` says that a request with the
  sizes it claims has them. What is refused is the other direction: a request that is
  an encoding has the form the code looks for (`RefusedEncodesNothing`). This is
  where the subtractions of the code matter: for a request of 8 bytes,
  `rawRequestSize - 9` is near 2^32, which no 16 bit size equals (`DataAndSizeEncodes`).
  Of a request with 65536 bytes of data or more nothing is said: its size does not fit
  the two bytes that an extended length has, so no such encoding exists to be refused.
* `AnswersAreVerified`: the strengthening, `AnswersInv`, is that from the handler's end
  to the answer, what is hashed is about what is in the buffer (`Registers`,
  `Authenticates`), whatever signature follows it, and that an answer with a signature
  has the status of success. What a host makes of such a buffer is then a fact about
  strings: `RegistrationReads` finds the key, the handle, the certificate and the
  signature by the sizes in the answer, `WrappedReads` the two numbers in a signature,
  for every length they can take.
* `DerUnlessPadded` says exactly when `SignatureIsDER`, which `signature_der` refutes,
  holds: when neither number begins with a zero byte that it could do without (`Padded`).
  The zero that the code puts before a number is never one too many.

`U2FTokenProofs`

* `TokenTypes`, `FileStaysAhead`, `CounterIncreases`, `ClockIsFollowed`, from
  `TokenAssumption`: for any number of processes on one file, or over one clock.
  `TokenInv` adds to the types that a process past its UPDATE has a counter below the
  one in the file (`Past`), that one which has read the counter has it at most equal
  (`Taken`), and that what was answered before a request came in is below what the
  request has read (`Earlier`). The order of SELECT, UPDATE and answer is all the
  argument needs; that no transaction encloses them is why `NeverSignedTwice` is not
  a theorem. With one process it is (`SignedOnceAlone`, for the stores with a file): then
  all that is signed was signed before the request came in (`Alone`), so another process
  is what `token_race` needs: a failure or a restart alone does not do it. `ClockIsFollowed` needs that all counters answered or read are at most
  the present while the clock has not been set back.

`BiometricCaptureProofs`

* `CaptureTypes`, `NothingIsLeft`, `ThreadsAreCovered`, from `CaptureAssumption`: for any
  number of scanners and fingers. `NoTemplateLeft` rests on everything else: that the
  mutex is held where the code holds it (`Locks`), that no reader reports once the
  capture thread has come back from `removeListener()` (`Quiet`), that all of the heap
  is in `fingerprintTemplate` (`OneTemplate`) because who extracts a template has freed
  the one before under the mutex (`Room`), so that the capture thread frees the last
  one (`LastFree`). The unlocked free of a lifted finger can break none of this, since
  it only ever takes away.

Every safety property of the passing runs is a theorem, and so are the two
refinements. Of the five that runs refute, three are theorems under what makes them
hold: no wrap of the clock, one process, numbers that are not padded. Only TLC checks liveness (`RequestReturns`, `ScannerGoesOff`,
`RetriesSucceed`, `CheckReturns`, `QuietInTheEnd`): it rests on fairness, hence on when a
step is enabled, which TLAPS cannot reason about.

## 6. Not modelled

* `Cryptography`: SHA-256, AES and the elliptic curve are third-party code that is not
  in the repository. Which key a signature is made with is not modelled: each
  handler has one signer, and passes it on.
* `Wiring`: no state. The scanner library and the git submodules: external.
* In modelled parts: logging, `getDescriptor()`, `getReportSize()`, `isNumberedReport()`
  (constants); a database that could not be opened (`db` is null: every call
  returns at once); the failure of a `new`.

## 7. Plan

1. `HidTransport` composed with `HidFraming` and a host that retries, end to end.
2. `U2FToken` over `UserPresence` instead of a free choice.

# Verification of the controller bridge

TLA+ models of the Pico 2 W controller bridge (`src/`): the firmware takes a
DualSense over Bluetooth Classic or a Switch 2 Pro controller over Bluetooth LE
and presents it to a USB host as a DS5, an Edge, an XInput or an NS2Pro device.

## The system

Everything but the audio codec runs on core 0.  The main loop polls the radio
(`cyw43_arch_poll`, which runs BTstack and with it every Bluetooth callback),
then `bt_tick`, the USB stack, the pending manager command, and the ticks of the
other parts.  Handlers therefore never overlap, but their order is arbitrary:
commands of the user, ticks, answers of BTstack and actions of the controller
come in any order, and an answer can be an answer to a question that has been
withdrawn since.  That, power cuts during a flash write, and the buffers that
core 1 and the USB interrupt share with core 0 are the hard parts.

| Component | State | Operations | What makes it correct |
|---|---|---|---|
| Classic link, `bt.cpp` | policy flags, inquiry and retry, saved peer, one ACL, two HID channels, pending erasures | pair, reconnect, disconnect, forget, cancel, enable; `bt_tick`; HCI and L2CAP events | owns every ACL, never strands, never pages the wrong peer, ends what it starts |
| Send path, `bt.cpp` | send FIFO with epochs, control queue, request flags, feature cache | `bt_try_write`, `get/set_feature_data`, `CAN_SEND_NOW`, session begin and end | nothing crosses from one link to the next, no lost wake-up |
| Settings journal, `bridge_store.cpp`, `bridge_runtime.cpp` | two flash slots, RAM settings, dirty | change, save, boot | a record once saved is never lost |
| Bridge runtime, `bridge_runtime.cpp` | physical input, epoch, connection attempt, preference | note, tick, begin/clear connection | stale input becomes neutral, an attempt ends after 60 s |
| NS2 BLE link, `ns2_ble.cpp` | policy flags, attempt, link, GATT set-up stage, pairing step and session, saved target, pending saves and erasure | pair, reconnect, disconnect, forget, suspend, resume, cancel; `ns2_ble_tick`; HCI, SM, GATT and crypto events | one link, nothing late acts on its successor, a set-up ends, keys and target belong to the controller on the link |
| Arbitration, `auto_profile.cpp`, `bridge_connection_control.cpp`, `main.cpp` | lock, preference, attempt, the radios | pair, reconnect, disconnect, forget, `input set`; first report; session tick | one accepted source, the radios follow, nothing carries over, an attempt ends |
| USB identity, `auto_usb.cpp` | current and wanted identity, deadlines | request, task; the host enumerates | the last request wins, no report of the old identity |
| Manager commands, `main.cpp` | one command, one reply and its offset, reboot flag | SET, GET, handling in the main loop | a host reads whole replies to its last command; a reboot waits for its reply |
| Audio, `audio.cpp`, `bridge_output_mic.h` | microphone ring, two queues, speaker buffers, epochs, codecs of core 1 | USB and Bluetooth callbacks, core 1, interrupt, resets | no sample of an old stream in a new one, no frame slept on |
| DS5 and NS2 records, `config.cpp`, `ns2_state.cpp` | one sector each | load, save, migrate, reset | a save that says true is there after a reboot; the paired controller stays |
| NS2 feedback, `ns2_usb.cpp`, `bridge_ns2_audio_mixer.h` | game and audio vibration, stop packets owed, the write under way | host reports, audio blocks, tests, commands, scheduler | what has ended is stopped, neither source ends the other, a controller starts still |
| NS2 input, `ns2_input.cpp` | last snapshot, stick calibration | parse, reset | a duplicate is one, a new frame is none |
| Mapping and codecs, `src/parity` | bindings of two profiles | bind, reset, apply, patch, encode | each host reads what is bound |
| Display, status texts, descriptors, helpers | tables and pure functions | | |

Left aside: vendored code (`lib/opus`, `lib/WDL`), descriptor tables, and the
pass-through to TinyUSB.  `PROJECT.json` lists every component with its status,
and every hazard at its line with the properties that cover it.

## Modules

    HidLink  <--implements--  ClassicLink  <--  MCClassicLink, ClassicLinkProofs
       ^
       | uses (INSTANCE)
    SendPath  --implements-->  Outbox          MCSendPath, SendPathProofs
    BridgeStore  --implements-->  AtomicRecord     BridgeProofs
    Settings   uses AtomicRecord                   MCSettings, SettingsProofs
    MicRing    --implements-->  LossyFifo          } MCAudio, AudioPathProofs
    AudioPath                                      }
    Arbitration    (over ClassicLink, Ns2Link)     ArbitrationProofs
    Manager                                        BridgeProofs
    Rumble                                         ReportProofs
    Ns2Link                                        MCNs2Link, Ns2LinkProofs
    InputState (under Arbitration)                 } MCInput, BridgeProofs
    Mapping, Axes (functions)                      } MCInput, ReportProofs

**ClassicLink** is the connection half of `bt.cpp`.  Each variable is a static of
that file, with deadlines reduced to "armed" (`retry_due`), the two channel ids
and flags to sets of channels, and the handle to the peer it belongs to.  Each
command, each path of `bt_tick`, each HCI event and each L2CAP event is one
action.  BTstack is external: an ACL per peer, an inquiry, two channels and a
link-key table, which answer as BTstack may.  Assumed of BTstack, from how
`bt.cpp` uses it: every page, disconnect and inquiry gets its completion; the
failure of a page is reported to L2CAP before it is reported to `bt.cpp`;
channels end with their ACL; a channel that needs security level 2 opens only on
a link with a stored key.  Time is abstract: any armed deadline may be found due,
or not due yet, by any tick.  Left out: RSSI, LED, page time-outs in numbers, and
the probe that tells an Edge from a DS5.

**HidLink** is what `bt.cpp` promises about its link to those who use it: five
kinds of steps over an ACL, `disconnect_pending`, the open channels and the
session.  `ClassicLink` implements it (`KeepsLifecycle`), and **SendPath**
takes it for its environment, so that sending is checked over every link life that
the connection half can produce, without its state.

**SendPath** is the sending half: the FIFO of packets tagged with the session
epoch, the queue of feature requests, the request flags against what BTstack
owes, the feature cache.  `bt_try_write` is atomic here, although the comment at
`bt.cpp:291` speaks of a producer on core 1: all its callers (`audio.cpp:133`,
`audio.cpp:351`, `main.cpp:935`, `main.cpp:1005`, `bt.cpp:682`) run in the main
loop.  A packet is a model value, a feature report is the name of the controller
it came from.

**Outbox** is what writers of output may rely on: a session starts with its
first state report and nothing else, packets leave in the order they were
accepted, at most once, and only in the session that accepted them.

**Ns2Link** is `ns2_ble.cpp` whole, with the commands and resets of `main.cpp` and
`bridge_connection_control.cpp` that call it.  There each command calls several
functions in a row (`ns2 pair` cancels, clears, applies the preference twice and
then pairs), so a function of the source is an operator from the record `ble` it
finds to the one it leaves, and a command is a composition of them in one step.
`ble` has the fields of `BleRuntime`, of the NS2 configuration and of the status
that decide anything, and BTstack's side as `bt_*`: what it scans, the
one attempt it has, links, those being closed, the query under way.  `keys` is the
device database as the controllers see it, `heard` the pairing steps that reached
the controller on the link.  A tick is one action per deadline: it erases and
saves what is pending and then finds one deadline, or none, passed; a tick that
finds several does what as many ticks do.  `tick_due` keeps the order of the main
loop, in which `ns2_ble_tick` comes between a command and the next events.
Assumed of BTstack: it has one outgoing LE attempt at a time and refuses another;
it refuses a query while one is under way; a cancelled attempt completes,
either way, before the deadlines (100 ms, 2 s and more) of the next automatic attempt
(`Drained`).  A controller shows one characteristic for each role.  The
code never uses `DirectSaved`, `ManualScan` and `known_handle_due_ms`.

**BridgeStore** is the two-slot journal under the runtime that owns the settings.
A save is split where power can fail: before the erase, before the program, before
the verification.  A record that `valid` rejects is `Damaged`, whatever it holds;
the model relies on the checksum to tell.  `HalfRange` stands for 2^31.
**AtomicRecord** is the abstract store: a save takes effect at one point or not
at all, and its answer tells which.

**Settings** has the three records together: the DS5 configuration in the last
sector, the NS2 record in its own, and the bridge settings, for which it uses
`AtomicRecord` in place of the journal.  A save is three steps (erase, program,
verify), `settings save` and `settings reset` run several, and power may go
between any two.  What programming may do wrong is a constant:
`MayDamageHeader` lets it spare the body of the DS5 record and damage its header.
`told` is what was last reported saved, `wanted` the controller the user paired;
`harmed` says that a fault hit the record that holds it, `orphaned` that the
legacy record went with a DS5 save (see below).

**MicRing** is the ring with its indices, a step per sample as `push` works, and
**LossyFifo** the jitter buffer it implements: order, loss of the oldest, priming.

**AudioPath** puts the ring among those who use it.  A handler of core 0 is the
set of steps it still has to run, `todo`, so that core 1 and the interrupt come
between any two of them; the interrupt itself runs on core 0, and critical
sections keep both out while core 1 is inside one.  Samples are tagged with the
epoch they came in, which is all that the properties ask of them.  Core 1 has a
`pc` and the event register of `__wfe`.  Assumed: the main loop serves the audio
once between the loss of a link and the next (`LinkUp`), which it does in every
round while a link takes many.  The 16-sample decoder tail and the gain are data.

**Arbitration** sees the radios through the functions that `main.cpp` calls; what
they do inside is `ClassicLink` and `Ns2Link`.  A round of the main loop is poll,
lock actions, session tick.  A link lost in a poll is not back up in that same
poll (`dropped`): neither stack sets up a link in one.  What `ns2_ble_tick` does
to the radio is put into the next poll, since it commutes with the session tick
between them.

**InputState** goes on where `Arbitration` has accepted a source: frames have
numbers which wrap, and may be repeated or lost; a state is the number's, so two
frames of one number are one frame.  A loss of the accepted link and the reset of
the session are one step, since `Arbitration` shows (`NoCarryOver`) that nothing
comes between them.  `received` and `age` are what the controller really did.

**Manager** is the feature report 0x7f, the commands on role, reconnect and
reboot, and the identity switch, with the main loop as `pc` and time in ticks.
SETs are numbered and chunks of replies carry the number, so that a mixture of
two replies would be seen.  A restart ends the behaviour (`pc = "off"`).

**Rumble** is the vibration of the Switch 2 Pro: a vibration is the set of
sources that are heard in it, times are countdowns, stop packets are counted.
The commands, which the main loop runs between polls, are taken in the poll.  A
link that ends is "lost" until the poll is over, which is what the session tick
sees.  BTstack may refuse any write and answer a write request late or never.

**Mapping** and **Axes** are the codecs.  A report is the set of its bits, so the
parsers, encoders and the patch of a native report keep their bytes and masks;
a trigger is pressed in full or not at all.  `Mapping` compares what a host reads
with what `bl616_bridge_protocol.h:39-56` and the bindings promise.  `Axes` has
the integer arithmetic of the sticks with the widths of the casts.

## Runs

| Run | Bounds | Properties and what they show |
|---|---|---|
| `classic_link` | 2 controllers | `RadioIsOwned` (every link has its owner, `disconnect_pending` an event to come, a session its whole link), `NeverStranded`, `SessionKeepsItsBond`, `AttemptsAreWanted` (of the saved controller, and not before an erasure), `KeepsLifecycle` (implements `HidLink`), `BegunEnds` (disconnects, erasures and useless links end) |
| `classic_link_forget` | 2 controllers | violation of `ExplicitForgetStays`: a cancel of a pair request calls off an explicit forget |
| `send_path` | 2 controllers, FIFO of 2, control queue of 3, 3 reports, epochs wrap after 2 sessions | `QueuesAreLive` (no lost wake-up, no request that cannot leave), `SessionsApart` (epoch, FIFO and feature cache are of the present link), `KeepsOrder` (implements `Outbox`), `OutputMoves` |
| `bridge_store` | 3 settings, generations modulo 6, slots may decay | `RecordIsKept` (nothing promised is lost, what is clean is stored), `SavesAtomically` (implements `AtomicRecord`) |
| `ns2_link` | 1 controller, 1 service, 1 retry, 2 initialization commands of which the second gives way to pairing | `WaitsAreAnswered` (set-up and rumble have something to wait for), `QuietWhenTold`, `NeverStuck` (set-up and search come to an end) |
| `ns2_link_two` | 2 controllers, symmetric; no services, no retry, pairing only, `auto_connect` left on | `LinkIsOneControllers` (owned, current, input only with a key), `EraseBeforeNewLink`, `OnlyPartnersKept` (key and target are of the controller paired) |
| `settings` | 2 fields, 2 values, 2 controllers, 2 options, 2 bridge records | `SavedIsLoaded`, `TargetKept`, `AnswerIsTrue` |
| `audio` | microphone queue of 2, speaker queue of 1; 3 resets of the microphone with nothing played, 2 and 1 of both streams; ring of 5, priming 4, packets of 2 | `StreamsAreCurrent`, `MicFollowsHost` (silent when off, the state told), `FramesServed`, `KeepsOrder` (implements `LossyFifo`) |
| `arbitration` | none (finite) | `ChoiceIsObeyed` (one source, radios and intent), `SessionsAreApart` (nothing carried over, neutral between), `AttemptEnds` |
| `manager` | 2 roles, 2 chunks, SETs and waits as in `Manager.cfg` | `IdentityIsOne`, `OutputIsOwn`, `RepliesAreWhole` (of the last command, and before a reboot), `CommandsEnd` |
| `rumble` | countdowns and packets as in `Rumble.cfg` | `StopIsOwed`, `SourcesAreApart` (nothing cut short, own lifetimes, clean start), `ComesToRest` |
| `input` | 2 states, numbers modulo 3, clock modulo 2, stale after 1 tick of it; 5 buttons bound to each other, 1 binding and 2 held at once; 4096 positions of a stick around 3 centres | `ShownIsFresh`, `Released`, `ReadsBindings` (each host reads what is bound), `KeepsRestAndEnds`, `Follows` (no step of a stick jumps or turns back) |

A property that is a conjunction names its parts, each stated and commented where
it is defined in the module; type invariants are either part of one (`SendPath`,
`BridgeStore`, `Ns2Link`, `InputState`, `Mapping`, `Axes`) or proved (the others).
`MCAudio` and `MCInput` put modules that share no variable into one run: `part`
says which of them moves in a behaviour, so that nothing is multiplied.

Two controllers are enough for the link: it holds one handle, one saved and one
current peer, and every comparison is with one of these, so a second controller
already plays every part a stranger can play.  The FIFO (10 in the code) and
the control queue (8) are small so that they fill up; two initial reports stand
for the five of `init_feature`, and one volatile report for 0x81 and its kind.
The epoch counter and the generation wrap within a few steps; the code compares
them for equality and by half range only, which the small range keeps.

For the NS2 link, one controller is enough for the set-up, which belongs to one
link; two are needed where an attempt, a save or an erasure may hit another
controller than it was meant for, and there the length of the set-up does not
matter, only that pairing takes place.  The code sends 3 initialization commands
before the one that pairing replaces and more after it, and allows 20 retries of
discovery; one command before it, and one retry, reach every branch that does not
merely count.  `ns2_link` leaves out the preference for the DualSense, which
`ns2_link_two` has, and that leaves out switching `auto_connect` off.

The queues of the audio path hold 4 and 2 frames; what matters is that they can
be full, and empty.  Epochs of the audio path count resets and are compared for
equality; they do not wrap in the model (`MaxMicEpoch`, `MaxSpeakerEpoch`), as they
do not within any time a frame can be held.  The times of `Rumble` keep the order
of those of the code: audio ends before the game, a tick is shorter than both.  In
`InputState` fewer frames are lost in a row than there are numbers, and a
connected controller is silent for less than the clock takes to wrap (49.7 days).
`Mapping` binds the buttons that have a fallback, a level, a hat direction or a
lack in some role, and one plain one; every held pair is tried with each binding.
The theorems of `ReportProofs` lift these bounds.  `Axes` takes centres from 1600 to 2495, for which both ends are in the stick's
reach: the code learns any centre at which the stick is still.

Deadlock is checked except for the two links and `Manager`.  The Classic link may
stop: an idle bridge that listens, with nobody near and nothing commanded, has
nothing left to do.  The same holds of the NS2 link; `Manager` ends with a restart.

**Fairness.**  The main loop calls `bt_tick` for ever, so each path of it is
weakly fair: a path that stays due is taken.  BTstack answers each page, inquiry,
disconnect and `CAN_SEND_NOW` request, which is weak fairness of its answers.
Users, controllers and channels are not fair: nobody has to connect, answer or
send.  For `Ns2Link` a tick with nothing due, and a tick with something due, are
weakly fair.  The answers BTstack owes (a cancelled attempt, a disconnect, a
query, a crypto request) and the end of an attempt after 60 s are strongly fair:
they may be interrupted by commands, each of which is followed by a tick before
anything is polled, but the main loop polls between any two commands.  An answer
of a controller (MTU, notification, encryption) is not among them; the deadlines
of the tick stand in for it.  A user who starts a new attempt within
every 60 s for ever is outside this fairness.

Elsewhere it is the steps of the main loop (`Loop`, `Continue` of a handler), of core
1, and the clock (`Elapse`) that are weakly fair, nothing of user, controller or
BTstack.  `Manager` adds the host: it goes on reading a reply while it sees the
device, which comes and goes with a switch, so `Get` is strongly fair.  A host that
takes input reports goes on doing so (`Released`).  `AttemptEnds`, `ComesToRest` and
`Released` are about what follows once user, host or controller no longer act.

**Where code and documents disagree.**  One disagreement has a run.  `bt_pair`
records its erasure in the flag an explicit `bt_forget` uses, so that cancelling
the pair request calls off both: `ds5 forget`, `ds5 pair`, `input set auto`, given
while the link is still being taken down, leave the controller bonded
(`classic_link_forget`).  Four more are in the models, and bound what the
properties say:

- The NS2 record of the former firmware is loaded from the sector that the DS5
  configuration now owns, and written nowhere until an NS2 command saves: an
  upgrade, `ds5 save` and a restart lose the paired controller (`config.cpp:113`;
  `docs/PARITY.md:24` says that it is retained).  `TargetKept` therefore leaves
  out what is `orphaned`.
- `config_save` verifies the body only (`config.cpp:120`), so that a record with a
  damaged header is reported as saved.  With `MayDamageHeader = TRUE`, `Settings`
  breaks `SavedIsLoaded` and `AnswerIsTrue`; the run takes FALSE.
- `reconnect usb` during a switch asks for the identity being left and takes the
  place of the role asked for (`main.cpp:264`).  `LastRequestWins` is about what
  `auto_usb.cpp` was asked for last, whoever asked.
- `ns2_ble_pair` means to let a cancelled LE attempt drain before it scans
  (`ns2_ble.cpp:1871`), but the reset that `ns2 pair` runs first has cleared
  `connecting` by then: given twice with an advertisement answered in between, it
  scans at once, and the failure of the cancelled attempt sends the scan into
  back-off without stopping it in BTstack.  `NeverStuck` shows that the search
  goes on even so.

## Proofs

`tlapm` proves for every set of controllers (`ClassicLinkProofs`):
`TypeCorrect`, `LinksAreOwned`, `PendingIsOwned`, `EpochMatchesLink`, together
`OwnsItsRadio`, `NoAttemptForForgotten`, `OnlyWantedAttempts`, `KeepsBond`,
`PolicyGoesOn` and the refinement `LinkHasLifecycle`: every safety property of the
module.  The only assumption is `PeerAssumption`.  None of these
invariants is inductive alone.  `LinkInv` adds what an attempt, an inquiry answer
and a link look like between handlers: an attempt without a link is pending in
BTstack; an answer that may still start an attempt names a peer and came after
the last erasure request; when the policy is to stay away, whatever is left is being
taken down; channels are open on a link only.  The action properties follow
from it: three handlers start attempts, each guarded by one of these facts.  For
`OnlyWantedAttempts` a second invariant, `DiscoveryIsOpen`, is needed: while an
inquiry runs, or an answer to one may still start an attempt, the user has asked
for pairing, or there is no saved controller to keep to.  `KeepsBond` needs `BondIsKept`: the
link is to the current device, so that pruning to the one keeps the other's key.
`PolicyGoesOn` needs `GoesOn`: a channel that is queued without a link belongs to
the attempt under way, and whoever waits with no retry armed is listening for a
saved controller that has its key.  `LinkHasLifecycle` maps each action to one of the five steps of `HidLink`, or
to none, with what `LinkInv` says of channels and links.

For every capacity of the two queues, every range of the epoch and all sets of
reports (`SendPathProofs`): `TypeCorrect`, `QueuesStayLive`, `SessionsStayApart` and
the refinement `FifoKeepsOrder`.  The link is any that `HidLink` allows, which the
theorem above shows of `ClassicLink`.  What had to be added to make the
properties inductive: without a link no channel is open and there is no peer, what is
in the FIFO has a session or is left of one on a link that is leaving, and the queue
of requests, which never holds one GET twice, is empty unless it can leave.
`init_feature` is stated as the sequence it leaves rather than as a fold over its
five reports, since what a fold computes is proved by induction only; that the
five reports differ is an assumption, read off the table in `bt.cpp`.

For every set of controllers, every number of services, commands and retries of the
set-up, and every order of commands, ticks, answers and losses (`Ns2LinkProofs`):
`TypeCorrect`, `WaitsStayAnswered`, `QuietStays`, `OneController`, `EraseFirst` and
`PartnersOnly`, all safety properties of the link.  As a command is a composition
of functions on the record `ble`, so is its proof: one lemma per function of
`ns2_ble.cpp` says what the function leaves when it finds a sound record.  `Typed`
gives each field its kind (`Put`: who assigns a value of the kind leaves a record
of the type).  `Base` is kept by every function: types, who owns the link, where an
attempt is aimed, what is left without a link, and whose turn it is in pairing.
`SetUp`, which holds while the link is to stay, says that each stage of the set-up
has its query, its answer or its deadline outstanding, and that the stages of input
have a key.  `IInv` adds that an erasure that waits when the radio is polled has no
scan beside it, which an advertisement could turn into an attempt: that is what
`EraseFirst` needs.  `PartnersOnly` needs `Heard`: a key is stored by a tick after the
last answer, and each pairing step that the bridge is at has been preceded, on this
link, by those the controller has to hear.

For every set of settings and every range of the generation
(`BridgeProofs`): `StoreTypeCorrect`, `NothingIsLost`, `AlwaysOneApart`,
`CleanSettingsSaved`, `KeepsRecord` of both, and `JournalIsAtomic`, the refinement
of `AtomicRecord`, in which a record may decay if slots may.  The strengthening says that the slot being written is
never the one in force, and that the record in flight follows it by one.

For every set of fields, values and controllers (`SettingsProofs`): `TypeCorrect`,
`KeepsTarget`, and, where no header is damaged unnoticed (see above),
`SavedLoads` and `AnswersTruly`.  The invariant says what each stage of a
save relies on, that what was told saved stands untouched until it is saved
again, in which order the records of a command are done, and which controller
a boot would find.

For every capacity, level and packet length, `Prime` at least a packet and at most
the capacity (`AudioPathProofs`): the indices agree and the ring implements
`LossyFifo`.  The proof runs on two facts of `Advanced`, that it adds, and that it
tells apart what is less than a turn apart.

For every capacity of the queues and any number of resets (`AudioPathProofs`): all
safety properties of the path.  A reset is several steps with core 1 in between,
so no property holds by itself half way; the invariant says of each property
which later step of the handler will restore it, and what core 1 has compared
before it went on.

For any roles, waits, reply lengths and SETs (`BridgeProofs`): all safety properties.
The invariant ties the device on the bus to the switch, the output report to the
identity, and what the host has read to the offset of the queued reply.

For every set of states of a controller, every modulus of the number of a frame and
of the clock, and every `stale_ms` (`BridgeProofs`): `ShowsFresh`.  The invariant
says that the number kept last is as far behind the controller's as frames were
made since, fewer than a turn, so that an equal number means the same frame; that
`last_fresh_ms` is as far behind the clock as the age of what was heard; and the
first of these of the snapshot of `ns2_input.cpp` too, whether it is accepted or not.

For `Arbitration` and any two sources (`ArbitrationProofs`): all safety properties.
The invariant adds that input outlives its link only up to the end of the round,
that a session tick finds a lock applied, and that only the accepted source
locks.

For any times and numbers of packets (`Rumble`, in `ReportProofs`): all safety properties.  The
invariant adds that only an enabled source is active, that what a session
started has its lock, and that a lock outlives its link to the next session
tick only, which is what makes the next controller start still.

For any number of bindings and of buttons held at once (`Mapping`, in
`ReportProofs`): `HostsReadBindings`, where the run tries one binding and pairs of
buttons.  The invariant `ButtonsSound` has, beyond the types, that the cross of a
DualSense is never held in opposite directions, without which a native report has no
hat to be read back.  The argument follows a report.  A layout is read back when no
two controls share a bit and none has a bit that a patch keeps: facts about tables,
one lemma per layout.  The decoder therefore loses nothing of a native report
(`NativeRead`); binding, and Minus as the touchpad, give the buttons that are owed to
the role (`Applied`, `AdaptedIsOwn`); and what is encoded of them, or patched into
what is kept of the native report, is read as these (`EncodedRead`, `Ds5Sony`,
`Ns2Nintendo`).  `HatShows` is where directions that cancel are shown as cancelled.

For every set of centres of 12 bits (`Axes`, in `ReportProofs`): `StickRestAndEnds` and
`StickFollows`, where the run tries three centres.  With rounding, a codec is linear
on two or three pieces (`FromU8`, `ToU12`, `Normalized`, ...), and so are its inverse
(`U8Back`, `U12Back`) and its steps (`ToU8Step`, `NormalizedStep`, ...).  `ShownStep`
puts the steps of decoder and encoder together, with the direction in which either
counts the axis.  Of a centre from which an end of the scale is out of the stick's
reach, `StickRestAndEnds` says only that the other end and rest are shown.

`BridgeProofs` holds the proofs of `Manager`, `BridgeStore` and `InputState`,
`ReportProofs` those of `Mapping`, `Axes` and `Rumble`; the names in these modules are
distinct for that reason, as are those in `AudioPath` and `MicRing`.

Every safety and action property of the runs, and every refinement, is thereby stated
by a theorem.  Model-checked only are the properties under fairness, which are out
of the prover's reach: `BegunEnds`, `OutputMoves`, `NeverStuck`, `FramesServed`,
`AttemptEnds`, `CommandsEnd`, `ComesToRest` and `Released`.

## Not modelled

- Display, status texts, logging, RSSI, battery and LED: formatting without effect
  on the rest.
- The legacy input report, motion, touch, and the learning of the stick's centre:
  the known service offers the FD2 report only; `Axes` takes the centre as given.
- The wire form of the bindings, command parsing, the decoders of output
  reports, and the vendor endpoint's fixed replies: stateless parsing.
- The haptic resampler, the envelope of the audio vibration, gains and the Opus
  codec: signal processing.
- The rumble of the DualSense (`state_mgr.cpp`) and the XInput endpoints
  (`xinput_usb.cpp`), next in the plan.
- USB descriptors, `ns2_main.cpp` (another build) and TinyUSB glue: tables.
- `lib/`: vendored code, which is nearly all of the lines of the repository.

## Plan

1. The rumble of the DualSense: `state_mgr.cpp`, `feedback_stop_ms`, unmount and
   suspend, as a second client of what `Rumble` models.
2. `xinput_usb.cpp`: the endpoints, and a transfer that TinyUSB refuses.
3. The learning of the stick's centre (`ns2_input.cpp`).

# minibitx in TLA+

minibitx is the radio daemon of an sBitx transceiver: one Linux process, written
in C with POSIX threads, that runs the receiver's and the transmitter's signal
path and answers to a straight key, rigctl clients, an HPSDR client, telemetry
subscribers and a USB CAT port. There are about a dozen threads and four locks,
most of the shared state is plain `volatile` variables, and there are no tests.
This directory models what its threads do to each other, checks it with TLC on
small instances, and proves the main results for instances of any size with
TLAPS.

Contents: [the system](#the-system), [the modules](#the-modules),
[the runs](#the-runs), [what is proved](#what-is-proved),
[disagreements between code and comments](#where-code-and-comments-disagree),
[what is left out](#what-is-not-modelled-and-why), [the plan](#plan).

## The system

Threads, all in one process: *main* (bring-up, idle loop, shutdown); the *audio*
thread (SCHED_FIFO, one block per 10.7 ms, also polls the key); the *transmit
worker*; the *rigctl* accept thread and one thread per client; the HPSDR *poll*
and *pacer* threads; the telemetry *listener* and *pacer*; the USB audio
*writer*; the *CAT* reader.

| Component (source) | State | Operations | Meets the others through | Hard about it | What makes it correct |
|---|---|---|---|---|---|
| Transmit path (`radio.c`) | `in_tx`, `tx_pending`, `tx_pending_on`, device levels | `radio_set_tx()` from any thread, worker, `radio_tx_apply()` | one-slot mailbox under `tx_mutex`; `in_tx` outside it | requests overtake each other and the hardware, which takes tens of ms | nothing switched hot, no request lost, `in_tx` true |
| Dial, RIT, low-pass filter (`radio.c`, `radio_hw.c`) | `freq_hdr`, `rit_offset`, `rit_enabled`, `prev_lpf`, clk2 | `radio_tune_to()`, `radio_set_rit()`, `radio_set_rit_enabled()` from any thread, no lock | clk2 is also written by the worker; `in_tx` decides | long I2C writes overlap and mix; a value is computed before it is written | clk2 and filter follow the dial; RIT belongs to the dial |
| Straight key (`cw.c`) | `key_down`, `tx_active`, `hang_counter`, `envelope_pos` | `cw_poll_key()`, `cw_get_sample()`, `cw_tx_active()` | audio thread calls it; every remote surface asks `cw_tx_active()` | the hang and envelope count in polls; the audio thread may end in a burst | full hang, silent release, key never stuck |
| PTT arbitration (`hamlib.c`, `usb_gadget.c`, `hpsdr_p1.c`) | `net_mox` | `T`, `TX`/`RX`/`TQ`, the MOX bit | question and act are two steps | the key goes down in between | the local key wins |
| Sample rings (`hpsdr_p1.c`, `iq_stream.c`, `usb_gadget.c`) | `q_head`, `q_tail`, arrays, `reset_requested` | push a block, take a packet, drop all | audio thread and a sender, no lock | full against empty, stale copies of the other's index, a reset in between | no data race, first in first out, drops only when full |
| HPSDR link (`hpsdr_p1.c`) | `client_active`, `stream_dest`, `tx_seq`, last frequencies | discovery, START, STOP, EP2; pacer | poll thread and pacer share it without a lock | repeated, lost and competing STARTs while a packet is being built | fresh samples numbered from 0 without a gap; EP2 retunes only when it should |
| Telemetry stream (`iq_stream.c`) | four subscribers with a time stamp | subscribe or renew, expire, send to all | mutex shared by listener, pacer and audio thread | table full, expiry against renewal, the audio thread on a lock | a live subscriber is served, the audio thread does not wait |
| USB gadget (`usb_gadget.c`) | configfs tree, PCM handle, ring | create with self-healing, destroy, writer with back-off | writer against push and stop | any of some fifteen steps fails; remains of a killed process | no half-built gadget is used, all is taken down |
| CAT port (`usb_gadget.c`) | `cat_fd`, line buffer | framing, commands, `RU`/`RD` | calls the dial and the transmit path; stop closes the descriptor under the reader | RIT step is read, modify, write; descriptor closed while read; other threads get its number | no old offset on a new frequency; no other thread's descriptor touched; a command is what was sent |
| rigctl server (`hamlib.c`) | one line buffer per client | about twenty commands | calls dial, transmit path, volume, filter | several clients at once | as the components it calls |
| Audio thread (`sound.c`) | `g_running`, PCM handles, xrun counters | capture, process, play, recover | feeds all rings, polls the key | recovery fails; ends by itself | never blocks; the key does not stay pressed when it ends |
| Start-up and shutdown (`minibitx.c`) | order of it all | bring-up, idle, teardown | threads already running | a surface keys the radio before the codec is set up or after it was parked | parked at exit, configured before use |
| Board support, si5351, I2C (`radio_hw.c`, `si5351v2.c`, `i2c.c`, `gpio.c`) | pins, clock registers | set a pin, set a clock, read power | called by all of the above without a lock | mixed register writes, retries given up, 32-bit arithmetic | the right divider for every frequency |
| Settings file (`hw_settings.c`) | table of bands, entries filled key by key | load once, line by line; look a band up | the audio thread looks up the drive of a burst | incomplete, foreign and surplus sections | each band as written, the first that holds a frequency |
| Receive chain (`sound.c`, `vfo.c`, `rx_audio.c`, `antialias.c`, `decim48k.c`) | phases, doubled histories, positions in static variables | one block of any length | audio thread only; the narrow filter is switched by rigctl | what goes on over the end of a block | no block boundary shows |

`PROJECT.json` lists the same components with the modules that model them, and
under `hazards` every place where something can go wrong that a test would
hardly reach, with the properties that watch it.

## The modules

```
TxSwitch <=== RadioTx <--- RadioTune <--- MCRadioTune        <=== implements
                 ^-------- TxArbiter                         <--- extends
                 ^-------- Lifecycle
IqQueue  <=== IqRing  <--- HpsdrLink
IqStream
UsbGadget <--- CatPort
RemoteTune, RxChain, Settings, ClockGen, CatPort <--- MCRemoteTune
RadioTxProofs, RadioTuneProofs, TxArbiterProofs, LifecycleProofs,
HpsdrLinkProofs (with IqRing), UsbGadgetProofs (with CatPort),
RemoteTuneProofs (with RxChain and ClockGen), TableProofs (IqStream and Settings)
```

A step of a model is one access to shared state, or a run of them that no other
thread can tell apart from one; everything done under a mutex is one step; a
device write is one step, a clock setting (twenty registers over I2C) two.
Sleeps are left out: interleaving already lets any amount of time pass between
two steps. Steps are sequentially consistent. The code relies on `volatile` and
relaxed atomics for the rest, so orders that only a weakly ordered processor
could show are not covered, except in the ring, whose acquire and release
operations make the two the same.

Some variables are *histories*: the code has no such variable, no action but
their own update depends on them, and they only let a property speak of the
past. They are named as such where they are declared.

**TxSwitch** is what the transmit/receive switch promises: requests overwrite
each other, the newest is carried out, and between receive and transmit lies a
dead state.

**RadioTx** is `radio.c`'s transmit path. `SetTx` and `Post` are the two steps
of `radio_set_tx()`: the store of `in_tx` (with the `pthread_once` that creates
the worker) and the update of the mailbox under `tx_mutex`. `TakeRequest` is the
worker's wake-up, and one action per device write follows the order of
`radio_tx_apply(1)` (`MuteCapture` .. `RaiseDrive`) and `radio_tx_apply(0)`
(`DropDrive` .. `UnmuteCapture`). `hw` holds the levels of what it drives.

**RadioTune** adds the dial. `TuneTo`, `ClearRit`, `EndTuneClk2`, then
`KeepFilter` or `DropFilters` and `RaiseFilter`, are `radio_tune_to()` with
`set_lpf_40mhz()`; `SetRit`, `EnableRit` and `SetRitEnabled`, then
`LeaveRitForRx` or `StartRitClk2` and `EndRitClk2`, are the RIT calls. The two
clk2 steps that RadioTx only passes through become `WorkerStartsClk2` and
`WorkerEndsClk2`. Writes of clk2 that overlap leave it at either value or at
neither (`Torn`). The history `retuned` remembers that the dial was tuned during a
transmission.

**TxArbiter** puts the callers in front of RadioTx. `Press`, `Hold`, `HangOn`,
`HangUp`, `StayUp` are the branches of `cw_poll_key()`; `KeyCalls`, `KeyPosts`
and `Release` its call of `radio_set_tx()` and what follows it; `PlayBlock` the
envelope over one block; `CaptureFails` the end of the audio thread. `AskPtt` is
the guard of the PTT commands; `Ep2Frame` is the MOX bit's way through
`net_mox` and `cw_tx_active()`, `Ep2Compare` its comparison with `in_tx` as it is by
then; and `RemoteCalls` and `RemotePosts` are the call that comes after. The key is
free to move between any two of them.

**IqQueue** is the promise of a sample ring: a bounded first-in first-out queue
that may lose samples but never repeats, moves or invents one.

**IqRing** is the lock-free ring. `BeginBlock`, `StoreSample` or `DropSample`,
and `Publish` are one call of `hpsdr_send_iq()`; `SeeReset`, `CatchUp`,
`DropHeld`, `LookThere`, `CopySample`, `ReleaseSlots` and `SendPacket` one
wake-up of the pacer. Each side works from a copy of the other's index that may
be stale.

**HpsdrLink** adds START, STOP and the sequence numbers to the ring. `Start`,
`StartNumbering`, `AskReset` and `Activate` are the stores of a START in the
order of the code, any of which may meet the pacer in the middle of
`build_and_send_packet()` (`NumberPacket`, `CountPacket`, `FindClient`,
`SendOut` or `Forget`). A repeated START of the client being served stores what
is already there, so it is no step; losing or reordering datagrams needs no
step either, since any datagram may come at any time.

**IqStream** is the telemetry stream. `Touch` is `subscriber_touch()`, `Expired`
and `SendToAll` the walk over the table in `build_and_send_packet()`, and
`LookForAny`, `SkipBlock` and `PushBlock` are `iq_stream_send()`. The lock has an
owner, and whoever needs it waits for it (`Touch`, `SendToAll`, `LookForAny` take
it; `EndTouch`, `EndSend`, `EndLook` let go). The ring between audio thread and
pacer is the number of packets in it, as IqQueue allows. Time passes in seconds
(`Second`), and ages beyond the time-out are one.

**Lifecycle** is `main()` around RadioTx: `ClaimPins` and `StartClocks`, the
surfaces one after another (`StartNext`), the codec (`UnmuteReceiver`,
`MuteDrive`), the audio thread, the idle loop that a signal ends; then `Park`,
`PostPark` and the sleep until `WakeUp`, the join of the audio thread, and
`StopNext` for each surface. The other threads call `radio_set_tx()` all the
while, as often as they like, from the moment they are up until the process
ends. A stopped surface whose thread is not joined may serve the command it is
reading. The devices start as the last process left them.

**UsbGadget** is the life of the USB audio gadget across processes. configfs is
the set of nodes in it; `CreatePlan` and `DestroyPlan` are the orders of the
steps; `MakeNode` and `MissNode`, `RemoveNode` and `KeepNode` one of them done or
failed. `EndProcess` kills the process between any two steps and forgets all but
configfs, `Reboot` forgets that too. `TakePeriod`, `WriteSucceeds`, `WriteFails`
and `LeaveLoop` are the writer, `HostTakes` the computer at the other end.

**CatPort** puts the CAT port on top of it. The reader thread is `TestRunning`,
`LookAtFd`, `OpenTty` or `MissTty`, `Reload` and `EnterRead`, the characters
(`Receive`, `ReceiveSemicolon`, `ReceiveNewline`), `Answer` and `WriteAnswer`,
and, when a read fails, `CloseTty` and `ForgetTty`; the main thread is
`StartReader`, `StopReader`, `StopLooks`, `StopCloses`, `StopForgets`. Every load
of `cat_fd` is a step apart from the use of the number, and the descriptor table
hands the lowest free number to whichever thread opens next (`OtherOpens`).

**RemoteTune** is who moves the dial. `TakePacket`, per frame `FrameFreq`,
`FrameMox`, `FrameMoxKept` or `FrameOther`, then `TuneForTx`, `EndTuneForTx` and
`NetworkKeys` when the bit asks for the transmitter, and `Look`, `Follow`,
`EndFollow` are one EP2 packet. `TuneTo` and `EndTune`, `SetRit`, `ReadRit` and
`StepRit`, `SurfaceKeys` are the CAT and rigctl commands. The hardware behind
the calls is RadioTune's and RadioTx's, and the guard of the key TxArbiter's:
none of them changes the dial.

**RxChain** is the way of the samples through `sound_process()`. `ReadBlock` takes
a block from the codec, and `FilterSample` (mixer and anti-alias filter),
`DecimateSample` and `DemodulateSample` are its three loops, one after another over
the whole block; `SwitchNarrow` is rigctl's thread switching the narrow filter
between any two of them. A filter's output is the tuple of the samples its taps
meet, so coefficients and floating point stay out and order, history and phase stay
in. **ClockGen** is the arithmetic of `si5351bx_setfreq()` down to the register
bytes, with the chip's own reading of them beside it.

**Settings** is `hw_settings_load()`, one step for each line of the file, and the
lookup of a band. There is an action for each thing a line can do: `EnterBand` and
`EnterOther` for a section's name, `TopKey`, `EdgeKey` and `ScaleKey` for a key
where it means something, `PassOver` for all that is skipped. `linesRead` is a
history, the lines of the file so far; what they say of the bands is defined by
looking back from a line (`Within`, `Giving`, `Completes`), without the parser's own
state.

**MCRemoteTune** puts RemoteTune, RxChain, Settings and CatPort, which share no
state, beside each other in one run and evaluates ClockGen over a set of
frequencies: a behaviour is one of RemoteTune, of RxChain, of Settings or of CatPort,
or stays at the frequency chosen at its start.

## The runs

Each mutant in `PROJECT.json` is a plausible bug in one mapped definition that
makes one property of one run fail: a property no bug can break would say
nothing.

**RadioTune** (`MCRadioTune.cfg`, 9.9 million states). Two surfaces, two bands,
the offsets 0 and 500. Two bands make the filter change, an offset besides 0 makes
RIT differ from none, and two surfaces give every pairwise overlap together with
the worker as a third writer of clk2. The surfaces are interchangeable and no
liveness is checked, so symmetry is sound. `Clk2FollowsDial`: after calls that
did not overlap, clk2 is exactly what the radio calls for: in receive the dial with
its offset, also when RIT was changed during the transmission before; in transmit
the dial less the pitch, and, once somebody has tuned in that transmission
(`retuned`), the dial itself. That last case is what the code does and not what its
comments say, see [below](#where-code-and-comments-disagree), *RadioTunePitch*.
Overlaps really break the property, and the registers of two settings then mix: the
history `clkRaced` is in it for that, and what it claims is that the next setting
made alone puts clk2 right. `RitBelongsToDial` holds even for
overlapping calls: an offset left at the end was dialed in on the present
frequency, because `radio_tune_to()` stores the frequency before it clears the
offset. `FilterFollowsDial`: tunes that do not overlap select the one filter of
the band, never two; overlapping tunes do leave two pins high, and `prev_lpf`
then keeps them so until the next change of band (`lpfRaced`).

**TxArbiter** (`TxArbiter.cfg`, 457 thousand states). The key, one rigctl client and
the HPSDR MOX bit: three threads that call `radio_set_tx()` in front of the whole of
RadioTx; the third matters because a request may be overwritten by a second one
while another is in the worker. A hang of two polls (28 in the code) and an envelope
of one block: the hang must be longer than the envelope and more than one poll for
its restart to matter, and longer ones add nothing but states (the proofs hold for
any). Of RadioTx: `NoHotSwitch` and `SwitchesCold`, the exciter drives only a closed
relay, and relay and clk1 move only with drive and receiver off, in every
interleaving and from any phase; `RestFollowsRequest`, a worker asleep on an empty
mailbox has left the devices where the last request asked; `InTxHonestUnlessRaced`,
`in_tx` tells the truth of a quiet radio unless two calls overlapped;
`SettlesOnLastRequest` and `ImplementsSwitch`, the liveness and the refinement. Of
the arbiter, `KeyWinsUnlessLate`: no remote surface takes the transmitter from the
key in a burst, except one that had passed its check of `cw_tx_active()` when the
key went down (`early`); a frame that had, and then finds the radio as it wants it,
turns back and is no longer excepted. `HangsThroughGaps` and `ReleasesInSilence` are
safety too. `KeyLetsGo` and `KeyIsHeard` say that a key left up releases the
transmitter and one held down gets it. They are about an audio thread that goes on:
one that ends in a burst leaves the radio keyed and the remote surfaces shut out,
and the code does nothing about it. Fairness: audio blocks keep coming, a thread
that has decided to call does so and returns (the mutex is held for a few stores),
the worker runs. Neither the operator nor any client is assumed to do anything.

**IqRing** (`IqRing.cfg`, 413 thousand states). A ring of four slots, so three
samples fit; blocks of up to three, so one call can fill it; packets of two, so
a packet straddles the end of the arrays; two sample values, to tell samples
apart. Resets come at any moment. `NoSharedSlot` is the absence of data races on
the arrays, `StoresWhatFits` that samples are dropped only for want of room,
`FreshAfterReset` that a reset drops all that was held, `ImplementsQueue` the
refinement of IqQueue with its liveness. Fairness: the pacer wakes up. The audio
thread is not assumed to come back.

**HpsdrLink** (`HpsdrLink.cfg`, 1.0 million states). Two clients, the small ring
with blocks and packets of two, sequence numbers modulo three so that they wrap.
One sample value is enough, as what matters about a sample is whether it is
older than the START, which the ring's history `old` counts. `NumbersFromZero`
and `FreshForNewClient` carry the proviso that no packet was being built while
the START was handled (`raced`); without it both fail, harmlessly: the new
client's first packet may carry the old number or old samples. `KeepsStreaming`:
a client that stays, and from which no other takes the stream, is sent packets
for ever. Fairness: pacer, poll thread and audio thread run; clients do as they
please.

**IqStream** (`IqStream.cfg`, 107 thousand states). Three stations and a table of
two, so that it is full with one station left over and an entry may be freed in
front of another that is in use; a time-out of two seconds, so that entries may
be fresh, old and too old; a ring of two packets. `ReachesTheLive`: a packet goes
to every station heard within the time-out that the table had room for; who is
left out is exactly who two others have been heard after; and to nobody twice.
`SparesTheSilent`: to nobody silent for longer.
`StaleReadIsCheap`: `any_active`, used after the lock is gone, costs at most the
one block that the comment there allows. `KeepsSending`: whoever stays in the
table gets packets for ever. Fairness is strong for the three threads that take
the lock: it is held for microseconds and free most of each millisecond, so a
thread that keeps wanting it gets it. No station is assumed to send anything.

**Lifecycle** (`Lifecycle.cfg`, 314 thousand states). The key and two surfaces:
rigctl, whose failure `main()` shrugs off, and HPSDR, whose failure ends the
process; CAT is to `main()` a third like rigctl. The worker's state, the mailbox and
`in_tx` are RadioTx's, not a summary of them. `ParkedUnlessKeyedLate`: after a
signal the process ends with PTT and relay open and the drive down, whatever was
under way. It needs the sleep to cover the sequence the worker is in and the next
one (`owed`), which is an assumption: the comment there reckons that 50 ms cover the
25 ms of one. And it has a real proviso, `late`: the surfaces still run while the
radio is being parked, and nothing parks it again; nor does the sleep survive a
second signal. `ColdUnlessKeyedEarly`: from any remains of a killed process the
radio comes up quiet and switches nothing hot, unless a surface keyed it before the
codec was set up (`early`), when the drive the last process left may be up.
`ShutsDown`: the process does end. Fairness: `main()`, the worker and the audio
thread run. Deadlock is not checked, since the process stops.

**RemoteTune** (`MCRemoteTune.cfg`, 7.4 million states). Two surfaces besides the
network, interchangeable (no liveness is checked, so symmetry is sound); two
frequencies, so that transmit, receive and present one can be equal or differ; a
RIT step of 10 against a limit of 15, so that the clamp bites. Packets hold any two
frames. `TransmitsWhereAsked`: from the moment the network keys the radio the dial
is on the transmit frequency it gave, and neither the packet's second frame nor the
follow rule moves it, until another surface tunes or keys. `FollowsInReceive`: a
packet leaves a receiving radio on the application's receive frequency.
`RitStartsAfresh`: an offset was dialed in on the frequency the radio is tuned to;
only a step (`RU`, `RD`) that read the offset before somebody else stored one may
bring an old one back, although `radio.c:67` has just cleared it. That lost update is
real and excepted (`straddled`); what is left are the limits, and a step that meets
a tune which has stored the new frequency but not yet cleared the offset. Beside it the
receive path and the pure modules. `NoBoundaryShows`: seven samples in blocks of
any length, the narrow filter switched at any moment, through filters of 3, 2
and 4 taps: histories fill, wrap and straddle blocks, and what has come out by the
end of a block is what the whole stream says.
`EachBandAsWritten`: every file of up to seven lines of eight kinds. The kinds make
complete and incomplete bands in every order, give a key twice, break a section off
for another, and leave lines that cannot be read; seven lines fill the table of two
entries and go beyond it. The table is the file's complete bands in order, as many as
fit, and nothing of an incomplete or foreign section gets into another's entry.
`ClockReaches`: a comb of 2 501 frequencies over the tuning range (the dial up to 31
MHz plus the crystal filter's 40) and both sides of every change of the divider.

In the same run, apart from all that, the gadget with its CAT port: a PCM buffer of
four periods, as in the code; two descriptor numbers, so that the tty and another
thread's file compete for the lowest; a line buffer of two, two kinds of character
and lines of up to three, one more than fits. Processes start,
are killed and stop without bound. `HealsItself`: no remains of earlier processes
make `uac_init()` fail. `LeavesNothingBound`: after `uac_stop()` only the root and
the ACM function are left, also when `uac_init()` failed half-way.
`WritesToLiveGadget`: the PCM is open only while the card is there, the writer
runs only while the PCM is open. `BelievesOnlyAHost`: the writer reports a draining
host only when one has taken something. `TouchesItsOwnUnlessLate`: the CAT port
reads, writes and closes its own tty and never a file or connection that another
thread got under the same number, unless reader and `cat_stop()` each had a number
in hand at once (`late`), which nothing in the code prevents. `LineIsWhatWasSent`:
a command is what came since the open and the last semicolon; one longer than the
buffer is cut, and handled all the same. Taken from outside the code: binding
needs a linked function; unlinking one unbinds the gadget; the PCM underruns only
when its buffer is empty (a missing host shows as an error of the write, as the
bench notes say); and a read under way keeps its file.

Five runs expect a violation: **RadioTxRace**, **RadioTuneRit**,
**RadioTunePitch**, **TxArbiterKeyWins** and **IqStreamLock**; see
[below](#where-code-and-comments-disagree).

## What is proved

All theorems are for any values of the constants that satisfy the assumptions
next to them: any set of callers, any frequencies and offsets, any hang and any
envelope no longer than it, any ring with packets smaller than it and any block
size, any clients and counter width, any PCM buffer, any finite set of stations and
any subscriber table, any number of taps and any blocks. No theorem about safety
needs fairness: those of RadioTx start from `Safe`, which has none.

*RadioTxProofs*. `TypeOK` is inductive. `Sequence` ties every phase of the
worker to the levels the devices must have there; `NoHotSwitch` and
`SwitchesCold` follow, the latter step by step. `Request` ties the phase to the
request taken, which gives `RestFollowsRequest`. `Honest` follows `in_tx`
through the two steps of a call: while one call is under way and none has
overlapped it, `in_tx` is its argument, and after it the mailbox agrees. With a
single caller nothing can overlap, and the promise of `radio.h` holds as it
stands (`InTxTrueForOneCaller`). The abstract switch is implemented, the steps
that only prepare being stutters (`ImplementsSafeSwitch`).

*RadioTuneProofs*. Every step of the dial is a step of RadioTx or leaves it
alone, so its theorems carry over. `RitStaysWithDial` rests on the two stores of
a tune: between them the tuner is in phase "clear" and will remove any offset.
`OneFilterFollows` needs, besides the property, where the one tune that is alone
stands: which pins are high before, between and after its two steps.
`Clk2Follows` follows clk2, which callers and the worker write, each first computing
a value and then taking its time over it. While no calls overlap one thread at a
time has its turn (`Writing`, `TakingTurns`): a caller with the transmit path at
rest, or the worker with no caller about. `WorkerWrites` and `CallersWrite` then say
at each place of that thread what the value under way, or the one that is there, has
to do with the dial, and `TruthAtRest` what `in_tx`, by which a tune is counted
as one in transmit (`retuned`), has to do with the devices. It needs RadioTx's
invariant, which says what the devices show when the worker rests.

*TxArbiterProofs*. `Arithmetic` says that polls counted and hang left add up;
`Silence` that envelope and polls do; `KeyRules` follows the calls of
`radio_set_tx()` that a burst can meet: after the key went down every remote
caller on its way is in `early`, so if that is empty nobody is. A network thread that
has passed its check but not yet compared (`Undecided`) may still turn back and leave
`early`; until it has, what the key told `radio.c` still stands (`Told`). What the
run checks of the transmit path holds for any callers in front of it (`ArbiterKeepsPromises`),
the implementation of the abstract switch included.

*LifecycleProofs*. Types and requests are RadioTx's from the beginning, but the
devices start as the last process left them and `main()` writes to the codec beside
the worker, so RadioTx's `Sequence` does not hold at first. As long as nobody has
keyed (`early`), `Quietly` says how far `main()` has come in setting up a receiver,
and `OffSoFar` what a sequence to receive has switched off whatever it found. Both
together give `Sequence` once the codec is set up (`Afterwards`), and the theorems
about devices and requests hold from there until the process ends (`ComesUpCold`,
`UpSwitchesCold`, `UpRestFollowsRequest`). For `LeavesRadioParked`, `Parking` follows
the way down: from `main()`'s own request on, with nothing keyed since, what the
worker still has to do is counted by `owed`, and when nothing is owed the devices are
parked.

*TableProofs*, the table of subscribers. `Locked`: whoever is at work behind the lock is its owner, so the
table does not move under him. `Faithful` ties the table to history: no station has
two entries, an entry's age is the time since its station was heard, and a station
without one was silent for too long or has had as many others heard after it as there
are entries. That displacing the stalest entry keeps this true is a counting argument
over finite sets, and why `Stations` is assumed finite. `PacketsReachTheLive` and
`PacketsSpareTheSilent` follow at the step that sends. `Remembered` ties `any_active`
to the blocks lost or queued for nothing (`StaleReadsAreCheap`).

In the same module, the table of bands: `TableAsWritten` and `DriveAsWritten`, for a
file of any lines and length and a table of any size. `Reading` ties the
parser's state to the file: the section it is in is the last one named, the entry
under way holds what has been given since the last line that divides bands, and the
entries after it are empty. Lines once read keep their meaning when another is added, so a step needs
to be checked at the new line only. Numbers are cardinalities of sets of lines:
`Numbered` says that they are the file's order, and the first entry that holds a
frequency is then the first band written that does (`ScaleOfTheFirst`, which no run
checks: it follows from the state that `EachBandAsWritten` describes).

*HpsdrLinkProofs*, the ring. The heart is the cyclic order of five indexes: the producer's
copy of the tail, the tail, the pacer's place, the head, the producer's place,
with the producer one slot short of its copy. Cyclic order is stated by adding
distances. From it follow the absence of races, the exact count of what is
stored, and that a reset drops all; `Copied` (what has been copied is what is
still there) gives the refinement.

The link: every step is a step of the ring or leaves it alone.
`Asleep`: a START that is not raced meets the pacer asleep, and it wakes up only
to a request to reset. `Numbers` then relates counter, number and packets sent.
As a behaviour of the ring the link is the abstract queue too (`LinkIsQueue`).

*UsbGadgetProofs*. What create and destroy have done so far follows from how far
they are, unless a step of theirs failed (`Building`, `Undoing`); every node is
below the root and `uac_gadget_up` is set as soon as the root is there (`Rooted`,
`Owning`), so no way out of `uac_init()` leaves anything that `uac_stop()` would
not take down. `Living` orders card, PCM, writer and flags. `Counting`: while no
host takes anything the run of successes is what the PCM buffer holds. With the
CAT port every step is one of the gadget or leaves it alone (`CatKeepsGadget`);
as long as reader and `cat_stop()` do not overlap, every number in hand and
`cat_fd` itself is a tty of this process (`PortKeepsToItsTty`).

*RemoteTuneProofs*. What the EP2 thread knows of the dial depends on the place it
has come to in a packet: before keying that nobody has moved it since it compared
(`NetworkTransmitsThere`), after the last frame that it is where it followed to
(`RadioFollows`). `RitIsFresh` rests on `stale`: every step under way that is not
in it was read on the dial that is there, or will be cleared.

In the same module, *ClockGen*: for every frequency from 400 kHz to 100 MHz the
registers, read as the chip reads them, give the frequency asked for, with the PLL
in range and no field cut off (`EveryFrequency`); the quotient taken in 31-bit steps
is shown to be the one the code takes in 64. And *RxChain*: `FilterGoesOn`,
`DecimateGoesOn` and `DemodulateGoesOn` say that one sample more keeps a filter, of
whatever length, at exactly what the stream so far says. `Progress` puts them
together: how far each of the three loops has come in the stream follows from which
loop runs and how far, so at the end of any block all three stand at its end
(`BlocksDoNotShow`).

The type invariants of all modules with proofs are theorems (`TypeCorrect`,
`TunerTypes`, `ArbiterTypes`, `LifeTypes`, `StreamTypes`, `RingTypeCorrect`,
`LinkTypeCorrect`, `GadgetTypes`, `RemoteTypes`, `SettingsTypes`) rather than properties of runs.

Every safety property that the passing runs check is a theorem. Only model-checked is
liveness (`SettlesOnLastRequest`, `KeyLetsGo`, `KeyIsHeard`, `KeepsStreaming`,
`KeepsSending`, `ShutsDown`, and the fairness in `ImplementsSwitch` and
`ImplementsQueue`), which is out of the prover's reach.

## Where code and comments disagree

1. *RadioTxRace*. `in_tx` is stored before `tx_mutex` is taken. Two overlapping
   calls may store `in_tx` in one order and the mailbox in the other, and the
   radio then rests in the state opposite to `in_tx` until the next call.
   `radio.h:10` says what `in_tx` means, `radio.h:34` that the call updates it.
2. *RadioTuneRit*. `radio_set_rit()` decides by `in_tx`, which drops at once
   when the radio is told to receive, while the worker takes the drive down
   later. In between, RIT moves clk2 under a driven exciter. `radio.h:40` says
   that dialing in RIT never moves the transmit frequency. A single client that
   sends `T 0` and then `J` is enough.
3. *TxArbiterKeyWins*. `cw_tx_active()` and `radio_set_tx()` are two steps. A
   surface that found the key up and is overtaken by it unkeys the radio in the
   middle of the burst, and the key does not notice before the next burst.
   `hpsdr_p1.c:371` says "Defer to the local key completely".
4. *RadioTunePitch*. `radio_tune_to()` writes the receive value of clk2 whether or
   not the radio transmits. After a tune in the middle of a transmission, by F, FA or
   the network, the rest of it goes out off the dial by the pitch. `cw.h:17-18` says
   that the correction is applied "for the duration of TX", and
   `docs/03_tx_processing_pipeline.md:158-166` that clk2 is the dial less the pitch
   "while keyed". One client that keys and tunes is enough.
5. *IqStreamLock*. `iq_stream_send()` runs on the real-time audio thread and takes
   `subscribers_lock`, which the pacer holds while it sends to every subscriber
   and prints. The comments at `iq_stream.c:40-42` and `78` say that the audio
   thread never touches it, and rest the choice of a plain mutex on that.

The fourth needs one client and no particular moment; the others need two threads to
meet, which a test seldom makes them do.

Met on the way, and not shown by runs of their own:

- `hpsdr_p1.c:392` says "Live frequency control lives exclusively in hamlib.c's
  rigctld-compatible "F" command", but the follow rule at line 484 and the tuning
  before MOX move the dial too; RemoteTune is built on what the code does.
- The comment at `radio.c:157` says "let the relay settle before dropping PTT" on
  the way to receive, but PTT is dropped in the line before it, and the relay is
  moved after it, at 158. `SwitchesCold` checks the code's order, which is the safe
  one: the relay moves only with PTT off.
- The comment at `minibitx.c:203-204` says that 50 ms cover the worker's worst case of
  about 25 ms, but the worker may be at the beginning of a sequence when `main()`
  asks for its own, so that two are to come. Lifecycle assumes that they fit.
- After the network drops MOX, `in_tx` is false at once and the follow rule may
  retune clk2 in the same packet, while the worker is still taking the exciter
  down. This is finding 2 on another path.
- The CAT reader's back-off doubles past `CAT_OPEN_RETRY_MAX_MS` (1000 ms) once, to
  1280 ms, before it stops growing.
- A line of the settings file whose value does not begin as an integer does, such
  as `scale=.0008`, is passed over, since the value is read as an integer first.

## What is not modelled, and why

- *What the signal processing computes* (`rx_audio.c`, `antialias.c`, `vfo.c`,
  `decim48k.c`, the samples of `cw.c`): coefficients, envelopes and tables are
  floating-point data; which samples they meet is in RxChain. The S-meter only
  watches, the volume only scales. A tune writes the oscillator's phase from
  another thread; RxChain takes the dial to be left alone.
- *Clock frequencies of 650 MHz and more*, at which ClockGen's divider has other
  cases: the radio asks for 40 to 71 MHz. A build whose `long` has 32 bits would
  overflow in the comparison that ClockGen takes in 64.
- *Device failures*: every write to a pin, clock or mixer is taken to succeed,
  as its callers do; they ignore the results. A clock write given up half-way
  (`si5351v2.c:77`) looks like a torn one.
- *Power and SWR readings*, version detection, formatting of replies, the
  discovery reply, packet contents: nothing else depends on them.
- *A network client that vanishes with MOX set*: the code has no time-out for
  it, so there is nothing to check; the transmitter stays on. Nor does it check
  a frequency given to rigctl's `F`, of which 32 bits are passed on.
- *ALSA recovery, xrun counters, the rigctl line reader, volume and queries*:
  retries of one thread, or commands that change nothing that is modelled.
- *A playback output that is lost* (`sound.c:651`): the key is still polled and
  the transmitter still released, but the envelope stays where the last played
  block left it, with nothing to be heard. TxArbiter's audio thread always has
  its output, so `ReleasesInSilence` is about that case only.
- *`tools/rigctl_panel.py`* is a client of the rigctl server, in another
  process.
- The parts under [Plan](#plan), so far.

## Plan

Done, in this order: TxSwitch and RadioTx (everything keys through it),
RadioTune, TxArbiter, IqQueue and IqRing, HpsdrLink, with their proofs;
IqStream, Lifecycle and UsbGadget; then CatPort, RemoteTune, RxChain, ClockGen
and Settings; the proofs of the last two groups, of `Clk2FollowsDial`, and of
RxChain and Settings as systems of steps.

To come:

1. ALSA recovery in the audio thread, with what a gap does to the streams.
2. The shared phase of the oscillator, with a dial that moves.

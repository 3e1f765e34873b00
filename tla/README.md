# A TLA+ verification of the NTUEE DCLab 2019 designs

The repository holds four FPGA projects of one course: Lab 1 (a random number
generator), Lab 2 (an RSA-256 decryption core behind a UART), Lab 3 (an audio
recorder and player on the WM8731 codec) and the final project (a karaoke
player: a C program on a Nios II processor that plays wave files from an SD
card, with a remote control, a microphone and a scoring circuit). Most of the
3216 files are generated by Quartus/Qsys, board support packages, vendor
libraries, bitstreams, slides and test data. The specifications here are about
the hand-written logic.

All paths below are relative to `src/`. `PROJECT.json` maps every definition to
the lines it translates.

## 1. Inventory

### Lab 2: RSA-256 (`Lab2/lab2_final/src`)

| part | state | operations | correct when |
|---|---|---|---|
| `Montgomery_Algorithm.sv` | accumulator `m_r` (2 bits wider than the operands), bit counter, 3-state FSM | one bit of `a` per clock, final subtraction, one-cycle `o_finished` | the result is `a b 2^-W mod N`, no sum loses a carry, one subtraction is enough |
| `ModuloProduct.sv` | accumulator `m_r`, doubled operand `t_r`, counter, 2-state FSM | one bit of `a` per clock, 257 bits | the result is `a b mod N`, both accumulators stay reduced |
| `Rsa256Core.sv` | 6-state FSM, exponent bit counter, `t`, `m`, operand and start registers of three multipliers | bring the ciphertext into Montgomery form, then square and multiply right to left | `a^d mod n`; each one-cycle finish pulse is caught; operands are held; every request is answered |
| `Rsa256Wrapper.sv` | 6-state FSM, key, ciphertext and answer shift registers, byte counter, Avalon master registers | poll STATUS, read 32+32 key bytes, read 32 ciphertext bytes, run the core, write 31 answer bytes, go back to the ciphertext | the right byte lands in the right place; TX and RX are only touched when STATUS allows; the bus signals are held while the slave stalls |
| UART (`rsa_qsys_uart_0.v`, generated) and `pc_python/rs232.py` | two one-byte registers; the host's file | the host sends the key and one block, then one block for every 31 bytes it has got | no byte is overrun; the output file is the plaintext; the loop ends |

The parts interact by clocked handshakes: host <-> UART over the line, UART <->
wrapper over Avalon with `waitrequest`, wrapper <-> core and core <->
multipliers by start and finish pulses of one cycle, with operands read
throughout the calculation. Hard: pulses that are up for one cycle only, the
two multipliers that finish in different cycles, arbitrary stalls, a serial
line with no flow control but the host's own waiting.

### Lab 3: audio recorder (`Lab3/lab3_final`)

| part | state | operations | correct when |
|---|---|---|---|
| `Top.sv` | 6-state FSM, start/pause/stop lines to recorder and player, mode, end address | keys: record, pause, stop, play, next mode, back to recording | pause and stop never cut a sample; playback ends at the end of the recording |
| `I2cInitializer.sv` | bit, word and acknowledge counters, bus lines, 6-state FSM | ten configuration words, each with START, 3 acknowledged bytes, STOP | the codec understands every word; data is stable while the clock is high; finished only after the last word |
| `AudRecorder.sv` | 4-state FSM on the bit clock, shift register, address, a flag latched by the frame clock | start, pause, stop, one word per frame | every stored word is one sample; nothing moves while paused; a stop resets it |
| `AudDSP.sv` | address, previous and current sample, repetition counter, 3-state FSM on the frame clock | normal, fast, slow-repeat, slow-linear; pause, stop | positions kept over pauses; a stop rewinds; interpolation stays between the samples |
| `AudPlayer.sv` | 3-state FSM and bit counter on the bit clock, word and enable latched by the frame clock | one word per frame | every word AudDSP puts out reaches the codec whole, whenever a pause comes |
| `Debounce.sv` | a counter and three registers per key | one pulse per press | a press makes one pulse (at reset only `o_pos` can pulse, and the board wires `o_neg`) |

There are three unrelated clocks: 12 MHz (Top), the codec's bit clock with its
frame clock (recorder, DSP, player), 100 kHz (I2C). Signals cross between them
without a handshake: Top holds a level until the low half of a frame, in which
it assumes the other side has seen it. That assumption is where the
interesting behaviours are.

### Final project: karaoke player (`Final/Final_Project`)

| part | state | operations | correct when |
|---|---|---|---|
| `main.c`: main loop | play index, card-ready flag, local switches, karaoke / mode / repeat flags | wait for the card, mount, start a song, execute, handle keys, react to the remote, advance | a press is not lost; the index is in range; the music goes on |
| `main.c`: `handle_IrDA` | the remote's switches, mute, volume | an interrupt handler that runs between any two steps of main | agrees with main about volume, play state and switches |
| `main.c`: `handle_key`, `AUDIO.c`, `I2C.c` | volume; line-out and interface registers of the codec; two I2C pins | read, write left, write right, store | both channels at the believed volume; mute is silent |
| `main.c`: `build_wave_play_list` | three arrays of names (songs, backgrounds, vocals), three counts | scan the directory, insertion sort | every wave file is listed once; entries of one index are versions of one title |
| `main.c`: `waveplay_start`, `waveplay_execute`, `WaveLib.c` | per track: file, buffer, play, read and end position | parse the header, read a buffer, copy whole frames to the codec's FIFO | every frame of the data chunk is played once, in order; the vocal keeps in step; the end is reached |
| `terasic_fat` | volume geometry, one sector buffer for everything, handles with position and cluster | mount, browse, open, read, seek | a read returns the file's next bytes |
| `terasic_sdcard` | what the host believes of the card (capacity kind, address) | initialise (CMD0 .. ACMD42), read a block | host and card agree about state, bus width, address and addressing |
| `ip/`, `scoring/` | FIFOs, infrared decoder, correlation accumulators | as named | not modelled |

The calls go down one stack: the main loop calls the streaming functions, those
the FAT library, that the SD library, that the card. Failures come back up as
`FALSE`, and main then waits for a card and starts all over. Main and the
interrupt handler share plain globals, and the two pins of the I2C bus, without
masking interrupts. Hard: every interleaving of main and handler, an interrupt
in the middle of an I2C transfer, cards pulled or exchanged in the middle of
anything, lost commands and answers, a buffer shared by all files, a copy loop
that waits for the codec and looks at nothing else, return values that are
never initialised.

### Other

Lab 1 (`Lab1/lab1_final/src/Top.sv`), Lab 0 (an ALU example), generated Qsys
systems, board wiring, seven-segment, LED and LCD drivers.

## 2. Modules

| module | models | role |
|---|---|---|
| `Powers` | - | powers of two as a recursive function, bits of a number |
| `Montgomery_Algorithm` | `Montgomery_Algorithm.sv` | registers `mont`; `Clock` is the module, `Request`/`Hold` its ports as the core drives them |
| `ModuloProduct` | `ModuloProduct.sv` | registers `prod`; the same shape |
| `Powers_proofs`, `Multipliers_proofs`, and `..._proofs` of `Rsa256Core`, `RsaSystem`, `FatFile`, `Player` (with `VolumeBench`), `Karaoke`; `Recorder_proofs` (of `RecordPath`, `PlayPath` and `PlayOut`) | - | theorems and proofs, section 5 |
| `Rsa256Core` | `Rsa256Core.sv` | INSTANCEs one `ModuloProduct` and two `Montgomery_Algorithm`; one action of each per clock |
| `Decryption` | what the wrapper expects of the core | abstract specification, implemented by `Rsa256Core`, used by `RsaSystem` |
| `Rsa256Wrapper` | `Rsa256Wrapper.sv` | registers `wrap` |
| `RsaSystem` | wrapper + `Decryption` + UART + host | bytes are tokens, so a misplaced one shows |
| `RecorderTop` | `Top.sv` | registers `top`, no specification of its own |
| `AudRecorder`, `AudDSP`, `AudPlayer` | the modules of that name | registers `rec`, `dsp`, `player` and `latch` |
| `I2cInitializer` | the module, and a codec that follows the I2C rules | registers `i2c`; state of the listener `codec` |
| `FrameClock` | Top's registers, the codec's frame clock (external) | what `RecordPath` and `PlayPath` share |
| `Playback` | - | what `PlayPath` and `PlayOut` share: AudDSP's registers, the speed switches, the pace of the keys |
| `RecordPath` | Top + I2cInitializer + AudRecorder + SRAM | two clocks of equal frequency and unknown phase, I2C at a third pace |
| `PlayPath`, `MCPlayPath` | Top + AudDSP | several Top clocks per frame, the codec's edge free between them |
| `PlayOut` | AudDSP + AudPlayer + the codec's receiver | Top's outputs are environment; arbitrary samples in all modes, pauses at any bit clock; history variable `unheard` |
| `VolumeControl`, `VolumeBench` | main's start-up from `IRDA_init` on, `handle_key`, the volume part of `handle_IrDA`, `AUDIO_Init`, `AUDIO_SetLineOutVol`, the shared I2C bus | `boot` is how far the start-up has come, `key` where `handle_key` is; the handler between any two steps of main and in the middle of main's transfers; history variables `torn`, `untimely`, `heard` |
| `Player`, `MCPlayer` | the start-up, the main loop, `waveplay_start`, `waveplay_execute`, the remote | extends `VolumeControl`; `pc` is main's program counter; a song is a number of chunks; history variables `owed`, `cut` |
| `SdCard` | the card, as `sd_lib.c` and `sd_protocol.c` rely on it (external), and the noise of the bus | `Outcomes`: what may come of a command |
| `SdLib` | `SDLIB_Init`, a step per command with the checks of `SD_CMDn`; `SDLIB_ReadBlock512` | `init` is the command it is at; ghost `moved` |
| `FatImage` | what is on the cards (external): the blocks of FAT16 and FAT32 partitions, the bytes of the files | the reference `FileBytes` that reads are compared with; `WellFormatted` and `FirstClustersFit` are what the library takes for granted of a card |
| `ByteStream` | what the player may rely on of a mounted card, and that a handle read on after a failed read promises nothing (`Tampered`) | abstract specification, implemented by `FatFile` |
| `FatFile`, `MCFatFile` | `fatMountSdcard`, `fatMount`, `fatReadSecter`, `fatNextCluster`, browsing, open, read, seek | a step per block asked of the card; `op` holds the locals of the call; a file's first cluster is cut to `FirstClusters` values, positions wrap at `U32` |
| `WaveFiles` | `WaveLib.c`; opening and reading as `ByteStream` promises it, failures included | - |
| `PlayList` | `build_wave_play_list` | one action per directory entry |
| `WaveStream` | `waveplay_start`, `waveplay_execute` to the byte | one action per call of the FAT library, one per buffer copied |
| `Karaoke`, `MCKaraoke` | play list + streaming; main may start any song between two buffers | extends both |

The player is modelled at three grains that meet at their borders: `FatFile`
shows that cards and libraries give what `ByteStream` says; `Karaoke` takes
opening and reading from that promise and counts bytes; `Player` takes songs as
chunks and looks at the interleavings.

How state and actions correspond to the code:

* **Hardware modules.** One record variable per Verilog module, one field per
  register, with the source's names less the `_r`. One action per branch of the
  combinational block of a state; the module's `...Clock` operator is their
  disjunction and exactly one disjunct is enabled in each cycle. Modules on one
  clock are conjoined (`Rsa256Core!Clock`), modules on different clocks are
  interleaved. Asynchronous effects (play_stop resetting AudDSP) happen in the
  step that raises the signal.
* **Widths.** `m_r` and `t_r` wrap at W + 2 bits; AudDSP's address, counter and
  weighted sum wrap at their declared widths; signed and unsigned readings of a
  register are separate operators, because the source mixes them.
* **Software.** A step is what runs between two points at which an interrupt
  can matter: each read or write of a variable shared with the handler is an
  action of its own. The handler is one action. A bus transfer that the handler
  cuts into is an action of its own too (`BootCut`, `RemoteCuts`, `SongStartCut`; in
  `Player` `IrDACutsBoot`, `IrDACutsVolume`, `IrDACutsSongStart`) with every outcome the
  two byte streams on one bus can have: main's write may be lost, kept, or end up
  holding the handler's address byte, and the handler's write may be lost. The handler
  runs from `main.c:1157` on, where it is enabled: the codec's initialisation, `memset`
  over `gWavePlay`, the default volume and the two loads of it are steps it can come between.
* **Card and files.** A block in memory is named by the card it was read from and
  its number there, or it is junk; a byte is named by its file and position. What a
  piece of code computes from it (geometry, next cluster, positions) is
  translated; the identity of the data is what the properties compare.
* **What is uninitialised** in the code (`bSuccess` when a file cannot be opened,
  the result of `fatNextCluster` when the FAT cannot be read) is any value. So is the
  repeat switch, which main reads from the board in every turn (`Advance`).
* **Mutants.** An operator commented `Mutant` changes the definition that
  follows it the way a plausible bug would. None of them is part of a
  specification; each property is known to fail when its mutant is put in place
  of the definition (`PROJECT.json`, "mutants").

## 3. Runs

| run | question | bounds, and why they are enough |
|---|---|---|
| `montgomery` | result and carry of the Montgomery multiplier | W = 4: all odd moduli and all operands, among them sums that reach the top of `m_r` and results equal to N. The theorems of section 5 hold for every W |
| `rsa_core` | handshakes, loop invariant, operands; `Decryption` implemented, with liveness | W = 3: all moduli, ciphertexts and exponents, requests back to back and with pauses. Exponents with and without adjacent one bits make the two multipliers finish together and alone |
| `rsa_system` | the host's file is its plaintext; polling, stalls, overrun, termination | K = 4 bytes per register instead of 32, so that first, last and the bytes between differ; 3 blocks, so that the way back from sending to receiving is taken |
| `record_path` | configuration before recording; whole samples; quiet while paused | 2-bit samples (first and last bit differ), 3 words of SRAM (first, one in the middle, last address), a frame of 3 + 5 bit clocks: the low half is longer than the recorder's reaction, the high half longer than a sample. Any set of keys in any cycle, both phases of the clocks; the configuration words are the real ten words of 24 bits. One playback mode stands for the four, which recording does not look at |
| `record_stop` | violated: a stop may be lost | as above |
| `play_path` | positions, rewinding, end of the recording | 3 words of 3 bits, one of them negative, all end addresses, all four modes, speeds 2 and 3 that turn at any moment, four Top clocks per frame (2 + 2): an edge in each quarter (921,944 states) |
| `play_out` | what the codec hears, slow modes included | 4-bit samples, six patterns of both signs, the largest and the smallest among them, speeds 1 (whose counter runs through all its values), 2, 3, 5 (a power of two and not), a frame of 2 + 6 bit clocks: the high half just longer than a word (924,324 states). The theorems of section 5 hold for all of them and for speed 0 |
| `volume` | main and the remote on the volume and on the I2C bus, from power-up on | minimum 2, maximum 5, default 4, and a level each for the codec's reset, for `AUDIO_Init`'s and for the I2C address taken for one, inside the range and outside: all volumes from the 0 of `memset` to the maximum, the minimum reached by hand as well as by mute. Any buttons at any step, cuts into every transfer of the start-up, of `handle_key` and of a song's start (178,311 states) |
| `player` | presses, play state, progress of the main loop | 2 songs (first and last), shorter background and vocal lists, 2 chunks per song (the first comes with the header, the second is read), a FIFO of one chunk (full and empty), one volume level, karaoke as the one key, last/next/play as the remote's buttons. The remote's presses begin during the start-up; the card may move at every step, any read or start may fail, the remote may cut into every transfer (543,730 states, about 2 minutes) |
| `sd_fat` | does a card, initialised and mounted through all disturbances, yield its files' bytes; does mounting succeed | three cards: version 1 with FAT16, version 2 with a file system the player does not know, high capacity with FAT32. Blocks of 2 bytes and clusters of 2 blocks, so that a read begins and ends inside a block, at its border, and crosses blocks and clusters; two files with interleaved chains, whose entries share the sector buffer with the FAT; two FAT copies on one card, one on the other; a chain longer than one FAT sector; deleted entries and a name in two long entries; one file that one card does not have; files begin below `FirstClusters` = 4, though their chains go on above it. One move of the card at any point, also to another card (`MaxMoves`), one busy answer and two polls, two mount attempts; a file may be read on after a failed read, and the difference of positions that may be negative then wraps at `U32` = 8, above every size; reads of 3 bytes from 0, from 3 and, after a seek, from 4 on; one address that a card may give itself (before it does, it has 0); noise until it settles, which may be never (521,739 states, about 2 minutes) |
| `karaoke_songs` | lists and streaming of every song, vocal and mode | nine wave files in three orders and one text file, a tenth with a name the player does not look for, a directory without songs; titles A, AB, C, one the beginning of another; buffers of four frames; data chunks at the frame border and off it, ending inside the first buffer, one buffer later and off a frame, behind the first buffer, a vocal shorter than its song and one at another offset; one failed call anywhere (`MaxFaults`), main starts any song at any buffer (397,704 states, about a minute) |
| `wave_stuck` | violated: a song never ends | as above |

What is bounded and by what: `W` (operand width), `K`, `NBlocks`, `LastAddress`,
`Modes`, `Bits`, `Low`, `High`, `SampleBits`, `Counters`, `Speeds`, `Samples`,
`HW_*_VOL`, `ResetLevel`, `InitLevel`, `AddressLevel`, `NFiles`, `BgmFiles`, `VocalFiles`, `SongLen`, `FifoLen`, `BlockSize`,
`NBlocks` of a card, `MaxBusy`, `MaxPolls`, `MaxTry`, `ReadSizes`, `SeekTargets`, `Garbage`,
`BufSize`, `FrameSize`, `HeaderSize`, `Dirs`, all CONSTANTS. `MaxTry` is the
code's own limit, scaled. Two constants bound the environment and have no
counterpart in the code: `MaxMoves` (how often the card is moved) and
`MaxFaults` (how many calls fail that need not). No guard caps a counter the
code does not cap. `FirstClusters` and `U32` are widths of the code, scaled. `FatFile` stops using a stream or a volume once junk has
got into it (`file[f].sound`, `vol.sound`): nothing is claimed of it, so this only
saves states.

Environment assumptions, each stated where it is used: the core gets an odd
modulus above 1 and a reduced ciphertext (RSA); a byte on the serial line takes
longer than a poll (`RsaSystem!HostByteArrives`); two key presses are at least a
frame apart during playback (`PlayPath`, `PlayOut`), and the speed switches do not
move in `PlayOut`; a vocal track is as long as its song (`Player` only; `WaveStream`
has all lengths); a bus that has come to rest stays so, with the card in its
slot (`FatFile`: `Settle`), but nothing says that it ever comes to rest; and in
`sd_fat` the files begin in clusters whose number 16 bits can tell (`FirstClustersFit`;
section 4 says what happens to others). Recording makes none of these: keys are
arbitrary in every cycle.

### Properties worth arguing about

* `WholeSamples`: whatever the keys do, every stored word except the first is
  one sample of one frame. The first word is not: started in the high half of a
  frame, the recorder shifts a single bit and counts it as a word, which is why
  the property starts at address 1.
* `QuietWhenNotRecording`, `PausedPositionKept`: the two clock domains agree
  about a pause although Top goes on up to a frame before the other side knows.
* `EverySampleHeard`: AudDSP computes a word when the frame clock falls, AudPlayer
  latches it when it rises, and a pause may come between the two; the word is
  then held and sent after the pause, before AudDSP computes the next.
* `PulsesAreCollected`: the finish pulses of three multipliers find the core in
  the one state that looks at them.
* `NoOverrun`: the wrapper is deaf while it calculates and sends; the host's
  wait for 31 bytes is what saves it (with a host that streams, it fails).
* `LineOutMatchesVolume`: main and the remote may leave registers and variable apart
  when the remote comes between main's steps with the volume or cuts into a transfer of
  main's - the start-up's, `handle_key`'s, or those of a song's start, in which the handler's own
  write may be lost. `torn` says that this happened and that nobody has set the volume in peace
  since. What the property claims is the rest: without such an event they never part, and the
  next undisturbed setting, by main or the remote, puts them together, whatever was broken off before.
* `MuteIsSilent`: a mute that came in peace stays silent, however later presses meet
  main's steps and transfers. One that comes between the test of `bMuteSwitch` and the end of
  `handle_key`, during the start-up, or into a transfer (`untimely`) may be audible although the switch says
  muted: a mute before `main.c:1182` is undone by the default volume, and the switch stays on.
  No comment or document claims otherwise, so these are behaviours of the model and exceptions of
  the properties, not findings. `UnmuteRestores` needs no such condition: however the two
  interleave, unmuting returns to the level the mute silenced.
* `NextIsNotForgotten`, `NextIsHonoured`: a press of "next" survives every path
  through the loop, with two exceptions that are in the code: it falls between the loop's look at
  the switch and the line that clears it (`SwitchIsSeen`), or the turn that reads it gives its song up
  (`bSdacrdReady` is false at `main.c:1311`, after a failed read, or a failed restart in
  another mode), and clears it at 1343 without acting. `owed` is not discharged
  before that line: the loss shows in the property's statement. `NextIsHonoured` lists the ways out
  once more, with what can hold the loop up: a pause, the karaoke break.
* `PlaySwitchMeansActive`: the remote's pause, `waveplay_start`'s reset of the
  codec's interface and the start-up's never leave the program believing it plays while the
  interface is off, unless the last write of that switch met another transfer
  on the bus, or never came because `AUDIO_Init` was broken off (`cut`).
* `CardAgrees`: `SDLIB_Init` takes a silent CMD8 for a card of version 1 and
  ACMD41's answer for the capacity; whatever is lost on the way, and whichever
  card was in the slot at an earlier command, a result of TRUE means that card
  and host agree on everything block addresses depend on. It takes the second
  CMD0 and the way an illegal command shows in the next status.
* `CacheHoldsItsSecter`: the one sector buffer is shared by FAT, directory and all
  files, and is trusted by its index. It never holds half a block or the block of
  another index or another card, through failed reads and remounts.
* `ImplementsByteStream`: the position of a handle, its cluster and the cluster's
  number advance separately, and a failed read leaves them apart; still, after a
  mount in calm every read returns exactly the next bytes, and after any other
  mount a successful read does too, unless junk was delivered for a block (in
  the 4-bit mode the library checks no CRC) - which the ghost `sound` tells - or the
  file is read on after a failed read without a new open or seek, as main does when the vocal
  track's success overwrites the song's failure (`main.c:497`, `:553`): then `ClusterSeq` may be
  ahead of `SeekPos`, the difference wraps, and `ByteStream` promises nothing (`Tampered`).
* `MountCompletes`: a card may be left in any state of the protocol by what was
  lost before, in the data state too; from each of them the player mounts it
  once the bus is quiet.
* `ListsMatch`, `EveryFileListed`: main plays the files with one index in three
  lists, sorted by a comparison of common prefixes and filled from one directory
  in any order. Both need that no entry was skipped by a failed call
  (`scan.whole`) and that the wave files have names of the kinds the player looks for
  (`WellNamed`). `ListsMatch` also needs complete titles whose characters order
  behind those that begin the endings (`Orderly`), `EveryFileListed` that no name
  is a prefix of another (`PrefixFree`). All are needed: without `PrefixFree`, the
  insertion overwrites an entry; `WellNamed` is in section 4.
* `PlaysTheData`, `VocalInStep`, `SongEnds`: for files whose data chunk begins and ends
  on a frame, begins in the first buffer or right behind it and reaches to its
  end (`Aligned`), what the codec gets is
  the data chunk, complete at the end, and the vocal in step if it begins at the
  same offset and is long enough (`Suits`). Each of these conditions is needed:
  section 4 says what happens to other files.

### Fairness

* `Rsa256Core!LiveSpec`: weak fairness of the clock. A clock ticks.
* `RsaSystem!Fairness`: the clock runs and does not stall for ever; the core
  delivers (shown of `Rsa256Core` in `rsa_core`); the line delivers bytes; the
  host reads.
* `PlayPath!LiveSpec`: both clocks run; fairness of Top's clock is stated for
  cycles without a key, so nothing is assumed of the user but that a key is not
  pulsed in every single cycle.
* `Player!LiveSpec`: main is resumed after every interrupt, the codec's clock
  runs. Nothing is assumed of the card, the remote or the keys: the properties
  say what they may hold up.
* `FatFile!LiveSpec`: weak fairness of main inside a mount or a call: the processor
  runs. Nothing is assumed of the bus and the card: that the noise ends is in
  the premise of `MountCompletes`.
* `Karaoke!LiveSpec`: weak fairness of `waveplay_start` and `waveplay_execute`: main
  calls them again and again. A call may fail every time it may fail.

The recording, volume and serial output runs state safety only and assume no fairness.

## 4. Findings and observations

Two runs show a disagreement between what the repository says and what its
code does.

1. `record_stop` / `StopReachesRecorder`: `AudRecorder.sv:91`. Top holds `stop`
   for the cycles up to its own transition in the low half of the frame. If the
   recorder is still in S_RECORD_FINISHED then, it ignores the stop, goes to
   S_NOT_RECORD and stays there: the next recording continues at the old
   address. The comment at `AudRecorder.sv:30` says the flag is there to decide
   whether to stop.
2. `wave_stuck` / `EverySongEnds`: `main.c:731`. `play_size` is rounded down to whole
   frames. A data chunk that begins off a frame (after a LIST chunk of 26 bytes
   it begins at byte 78) or is not whole frames long leaves one to three bytes
   of a buffer that are never copied: `waveplay_execute` then copies nothing,
   reads nothing and does not report the end, and the player stays silent until
   somebody presses a key. `main.c:166` announces uncompressed wave files without
   that restriction.

Other things met while modelling. No run refutes a text of the repository with
them, but the models contain them:

* `I2cInitializer.sv:195`: the output enable is off until the first word has begun,
  so the first START never reaches the bus and the first word is lost
  (`LaterWordsReceived` speaks of the other nine).
* `AudDSP.sv:113`: the interpolation is evaluated unsigned; between samples of
  different signs the output leaves their interval (`OnTheLineForPositive`).
* `AudDSP.sv:86`, `:114`: at speed 1 the slow modes never find the counter at
  `i_speed - 1`, because it is 1 when it is first compared: it runs through all 16
  values, so slow play at speed 1 repeats a word 16 times, and the interpolation
  goes past the end of its interval. `OnTheLineForPositive` speaks of speeds from 2 on.
* `main.c:1157`: the remote is live before main has set anything up. A press in the middle of `AUDIO_Init` may
  make it fail, and main return; a mute before `main.c:1182` leaves the player audible with its mute switch on.
* `main.c:519`: a press that cuts into the transfers of a song's start may lose its own write: the volume or the
  mute is then in the program and not in the codec.
* `main.c:1311`: a press of next or last that comes with a failed read is read, not acted on, and cleared.
* `Top.sv:246`: a recording that fills the memory, or whose end a fast step wraps over, is played round and round
  (`StepFits` excludes it from `PlaybackEnds` and `NothingPastTheEnd`).
* `main.c:1054`: mute is told from unmute by the volume. A mute at the lowest
  volume counts as an unmute, and may set the volume to 0, below the minimum.
* `sd_hal.c`: blocks are taken without a check of CRC or end bit in 4-bit mode.
* `main.c`: main returns for good when a mount fails after the card was seen, or
  when a card has no songs; a directory entry that cannot be read looks like
  the end of the directory.
* `FatFileSystem.c:330`, and `:495` after a seek: the first cluster of a file is kept in 16 bits; the
  upper half (`FatFileSystem.h:74`: "not used in FAT12/FAT16") is copied from the directory at `:201` and never
  used. On a FAT32 card a file that begins in cluster 65536 or above is read, without an error, from the
  cluster that the lower half names. The model has this (`FirstLogicalCluster`), and `ImplementsByteStream` is
  false of such a file; the runs and `StreamsCorrect` assume that there is none (`FirstClustersFit`). To see it fail, let a
  file of `MCVolume` begin in cluster 4 or above.
* `FatInternal.c`: the root directory of FAT32 is taken to be at cluster 2 and
  contiguous.
* `main.c:390`: a name that is a prefix of another overwrites an entry; titles with
  characters between `(` and `.` are sorted differently in the three lists; a
  skipped file shifts all later songs against their vocals; a wave file whose name has
  none of the endings is listed only if some file before it had one (`bFlag` is never
  cleared); names longer than 31
  characters and more than 128 entries are not checked for.
* `main.c`: a data chunk behind the first 512 bytes makes the song silently empty;
  one whose header ends the first buffer but whose data begins further behind plays
  what the buffer still holds;
  a clip that ends inside the first buffer is played with what follows it; a
  vocal shorter than its song is read past its end, or brings the loop to a
  standstill; a song's failed start is masked by its vocal's success; the
  karaoke key also lowers the volume; file handles are not closed between songs.

## 5. Proofs

Checked by TLAPS with the SMT, Zenon and LS4 backends. Each theorem holds for
every value of the constants that satisfies the named assumptions; TLC
evaluates the same assumptions on the runs.

| theorem | of | for every | says |
|---|---|---|---|
| `TypeCorrect`, `ProductTypeCorrect` | both multipliers | width `W` | registers keep to their declared widths |
| `AccumulatorBounded` | Montgomery | " | `m_r < 2N` during a multiplication |
| `NoCarryLost` | " | " | `m_r + b + N` fits into W + 2 bits |
| `PartialProductCorrect` | " | " | after c bits, `m_r 2^c = (a mod 2^c) b (mod N)` |
| `MontgomeryCorrect` | " | " | the announced result is below N and is `a b 2^-W` modulo N |
| `ReducedCorrect` | ModuloProduct | " | `m_r < N` and `t_r <= N`, although the doubling compares with `>` |
| `ProductCorrect` | " | " | the announced result is `a b mod N` |
| `SquareAndMultiplyCorrect` | `Rsa256Core` | " | the loop invariant of the exponentiation, in Montgomery form |
| `PulsesCorrect`, `OperandsCorrect` | " | " | `PulsesAreCollected`, `OperandsHeld` |
| `ServiceImplemented` | " | " | core and multipliers implement `Decryption!Spec`: every answer is `a^d mod n` |
| `FileCorrect` | `RsaSystem` | `K`, `NBlocks` | the host's file is a prefix of its plaintext |
| `NoByteLost`, `TransfersHeld`, `OperandsStay` | " | " | `NoOverrun`, `HeldWhileStalled`, `OperandsHeld` |
| `CardAgreement` | `FatFile` over `SdLib` | cards, their kinds and contents | `CardAgrees` |
| `CacheCorrect` | " | " | `CacheHoldsItsSecter` |
| `StreamsCorrect` | " | cards, layouts, chains, directories and files that are `WellFormatted` and `FirstClustersFit` | `ImplementsByteStream`: the FAT library over the SD library implements `ByteStream!Spec` |
| `LineOutCorrect`, `MuteCorrect`, `UnmuteCorrect` | `VolumeBench` | levels | `LineOutMatchesVolume`, `MuteIsSilent`, `UnmuteRestores` |
| `PressNotForgotten`, `PlayingMeansActive` | `Player` | files, chunks, FIFO | `NextIsNotForgotten`, `PlaySwitchMeansActive` |
| `WholeSamplesCorrect`, `QuietCorrect` | `RecordPath` | sample width, frame, memory | `WholeSamples`, `QuietWhenNotRecording` |
| `LaterWordsCorrect`, `StableInsideWordCorrect` | " | " | `LaterWordsReceived`, `StableInsideWord` |
| `ConfiguredFirstCorrect` | " | " | `ConfiguredFirst` |
| `StopRewindsCorrect`, `NothingPastTheEndCorrect`, `PausedPositionCorrect` | `PlayPath` | frame, memory and its words, speeds | `StopRewinds`, `NothingPastTheEnd`, `PausedPositionKept` |
| `EverySampleHeardCorrect`, `OnTheLineCorrect`, `RepeatsSampleCorrect` | `PlayOut` | sample width, frame, samples, speeds | `EverySampleHeard`, `OnTheLineForPositive`, `RepeatsSample` |
| `EveryFileListedCorrect`, `ListsMatchCorrect` | `Karaoke` | files, directories, endings | `EveryFileListed`, `ListsMatch` |
| `PlaysTheDataCorrect`, `VocalInStepCorrect` | " | files, sizes of buffer and frame | `PlaysTheData`, `VocalInStep` |

### Assumptions

`WAssumption` (`W` a positive number), `KAssumption` (registers of two bytes or
more; the source has 32), `NBlocksAssumption` (a number). `VolumeControl`'s
`VolumeAssumption` asks for integer levels and no order between them.
`FrameAssumption` gives each half of a frame two clocks or more, and
`RecordPathAssumption` the low half three and the high half three more than a sample
has bits (the source has 187 and 188 clocks for 16 bits). `PlaybackAssumption` makes a speed,
zero included, a value of AudDSP's counter, and `TapeAssumption` types the memory's words.
`PlayOutAssumption` gives the high half two clocks more than a sample has bits and the
counter no more than 16 values: AudDSP's registers are four bits wider than a sample, which
is as much as a weight of four bits needs.
`PlayerAssumption` says which buttons there are and that there is a file, a
chunk and room for one. `CardAssumption` describes kinds of cards and block
numbers, `CallAssumption` the sizes and positions main asks for,
`FatImage`'s `VolumeAssumption` the types of a boot record's fields, of FAT entries and
of directory entries: their values are arbitrary, so a corrupt FAT is included.
`JunkIsNoCard` keeps the values that stand for a damaged block apart from the cards, and
`CallAssumption` the name for "no card".
`WidthAssumption` makes the two widths, of a first cluster and of an unsigned difference, positive.
`StreamsCorrect` alone asks more of the cards, as two hypotheses. `FirstClustersFit`: the files that are opened
begin in clusters the lower half can tell (it is false without: section 4). `WellFormatted` (`FatImage`) describes a
card of a type and sector size the library mounts (`Mountable`) as a formatting program leaves it. Its regions have a
size; the FAT has an entry for each cluster; the directory has room for an end, that of FAT32
in its first cluster (the library does not follow its chain, section 4); long names stand in order
before their entry; no two files that are opened have one name; and a file has as many
clusters as its size needs, with no link among them that is free or bad. Clusters may be
anywhere and in any order, chains may share a tail, and what is on cards of another type
is arbitrary. `MCFormatted` lets TLC evaluate both on the cards of the run.
`FileAssumption` gives the chunks of a file a name and a size, nothing more: every
header, the corrupt ones included. `NameAssumption` makes names sequences of
characters with a numeric code and endings not empty, `DirAssumption` says that a
directory has files of the card and no entry twice, `BufAssumption` that a buffer is
whole frames (512 and 4 bytes in the source). `MaxFaults` is arbitrary: any number of
calls may fail.
The odd modulus and the reduced ciphertext, which RSA needs, are no assumption
but the inputs of the core's `Accept`.

### The arguments

None of the properties is inductive; in each proof module `IInv` is (in
`Karaoke_proofs`, `ListInv` and `StreamInv`; in `Recorder_proofs`, `RecordIInv`, `PlayIInv` and `OutIInv`), it was
checked by TLC first, and there is one lemma per action that says what the action keeps.

*Multipliers.* The result needs the loop invariant, the loop invariant that no
sum wrapped, and that the bound on the accumulator and what the ports guarantee
(an odd modulus above a reduced `b`, held while running). Congruence modulo N is
stated with an explicit multiple (`x = y + k N`), which is what the SMT solver
can do arithmetic on, and turned into `%` only at the end.

*`Powers_proofs`* is what the multipliers and the core share. The table `Pow2` is built
from its recursive definition without an induction theorem (those need an
operator parameter the provers cannot instantiate): `NatMin` gives every non-empty
set of naturals a least element, `TableExists` and `TablesAgree` argue by a least
counterexample, and `Pow2Recursion` follows. `SameResidue` and its lemmas are the
arithmetic of residues, `HalvingStep`, `MontgomeryIteration`, `MontgomeryReduction`,
`DoublingIteration` and `AddingIteration` what one bit of a multiplication does to
two registers, whichever multiplier they belong to.

*`Rsa256Core`.* `PowMod` is a recursive function too; `PowModStep`, `PowModSum` treat
it the way `Pow2` is treated. The invariant follows the FSM: per multiplier what
it may be doing in each of the core's states (`PrepControl`, `TControl`, `MControl`:
a start pulse, running, a finish pulse, or quiet), and per state what the
registers mean (`PrepData`, `LoopData`, `SquareData`, `MultiplyData`, stated with the
multipliers' own invariants for their two registers). Why a pulse cannot be
missed: a multiplier is only running or finishing in the state that collects
it, and a second start needs both to be collected. The refinement is then by
cases: every clock of the core is a `Rest`, `Accept`, `Compute` or `Deliver` of the
service, and the answer is `PowMod(a, d, n)` because after `W` bits the partial
exponent is the exponent (`EveryBit`).

*`RsaSystem`* counts bytes. `Taken` is how many bytes the wrapper has had from the
UART and `Given` how many it has handed over; `At(b)` gives, for block `b` and each
state of the wrapper, both numbers in terms of `bytes_counter`, and which bytes of
the registers are already right. Since the host sends block `b` only after it
has got what belongs to the blocks before, `sent <= Taken + 1`: at most one byte is
under way in each direction. That is `NoOverrun`, and with the sequences `StreamByte` and
`PlainByte` also `FileIsPlaintext`. `BusOK` is the other half: a transfer of
data is under way only if STATUS allowed it, and nothing but the wrapper can
revoke that.

*`FatFile`.* A card that was put in is idle and leaves that state only through
ACMD41; `Awake` names the states behind it. So whatever the library believes
from ACMD41 on holds of the card in the slot, unless that card is idle
(`Agreed`), and an idle card answers neither the rest of the initialisation nor
a read. That covers every exchange of cards without a word about when it
happened. `CardAgrees` is the case `init = "done"`. For the buffer (`CacheOK`): a read
that succeeds was answered by an awake card, so by the mounted one (`Agreed`), with
the capacity the library assumes, and `SameBlock` says that the address then
means the sector asked for, whichever addressing; a read that fails leaves
index -1. The other conjuncts are types: `CallOK` has the locals of the call in
progress.

*`FatFile` and `ByteStream`.* `ImplementsByteStream` needs a second invariant, `RInv`, on top of
`IInv`. `CalmOK`: from the ACMD42 of an undisturbed initialisation on, the card is selected and
without error, and on a quiet bus it stays so through every read (`CalmBlock`); so of a
volume mounted in calm no read fails, and the buffer holds no junk. `MountOK`: the three
sectors at which the regions of a sound volume begin are those of the card. `StreamOK`: the
handle of a sound stream has the first cluster and the size of its file's entry, and its
`Cluster` is number `ClusterSeq` of the file's chain, no further than what has been read - unless
a call on it failed, after which `ClusterSeq` may be ahead of `Cluster`. A seek begins at the first
cluster again; a read instead makes the stream unsound, which is the step `ReadOn` of `ByteStream`
(`ReadOnStep`, `ReadOnRefines`). That no call fails after a mount in calm (`CalmOK` says so of every
handle) keeps that step away from calm mounts. `ReadCallOK` relates
`pos`, `nread` and the turn of the loop over sectors to the position in the file, and says that the bytes
copied so far are the file's (`NextBytes`). `BrowseOK`: none of the entries passed is the
file that is looked for, and a long name under way is that of the entry before.

The lemmas under it are of three kinds. *The card:* `LayoutIs` finds every block of `Image`
by its number, through the sequences it is put together from (`FlatIs` is about `FlattenSeq`),
`ClustersIs` unfolds the chain, `ByteIs` gives byte `p` of a file by cluster, sector and
offset, and `FatSecterIs`, `DataSecterIs` and `RootSecterIs` say that the library's arithmetic leads to
the block that has the entry, the bytes, or the directory entry. That the functions
defined by recursion exist is shown with a least counterexample (`NatMin`). *The reads:*
`NextSound`, `DataSound` and `RootSound` combine them with what a read may deliver. *The steps
of `ByteStream`:* `OpenStep`, `MissingStep`, `ReadStep`, `ReadOnStep`, `SeekStep`, `DisturbStep`, `MountStep`, `UnmountStep`, `BeginStep`
and `SameStep` say when a step of the library is that step of `ByteStream`. Then there is one lemma
per action, ending in `Refines`; `StepRefines` and `InitRefines` are the two halves of the
refinement.

*`VolumeBench`.* `Written` says how far main has got in a setting the remote
stayed out of - `handle_key`'s, which stores the level afterwards, or the start-up's, which has
stored it before (`Loading`) - and `BootKept` that only one of the two is under way. `Muted`: a mute outside a
window keeps main out of the next ones; inside the start-up there is no outside, so a mute there is
untimely. `Remembers`, that the saved level is the silenced one, needs no
`torn`, so `UnmuteRestores` holds in every interleaving.

*`Player`.* `PressKept` follows a press from the switch over the local of the loop
to the line that clears the switch, where only a turn that has given its song up still owes one. For
`PlaySwitchMeansActive`, `BootOrder` has the order of the start-up's transfers, by which the interface is
switched on before main sets the volume, and `CallKept` keeps the transfers of the volume apart from those.

*The configuration of the codec.* `BusLines` has the initializer's outputs by its state,
`FirstWord` and `LaterWord` what the codec is doing meanwhile: it misses the first START, sees
the others, and has taken exactly the bits before `bitcounter` of the word on the bus (`Taken`). One
lemma per kind of edge (`CodecStarts`, `CodecStops`, `CodecTakes`, `CodecAcks`, `CodecDeaf`) says what
the codec makes of it. `Done` (all words sent, bus released) is what `finished` stands for, and
`TopInv` that Top has waited for it; once it holds it stays.

*The recording.* Everything hangs on where Top's edge lies: `NextRise` is the position at which the
recorder's next edge comes, whichever way the clocks lie, and `TopBehind` tells whether Top has yet to see what the
recorder's last edge did. A sample that is being shifted is in step with the frame (`Shifting`):
`NextRise = Low + Bits - counter`, the bits shifted so far are this frame's, and Top is still in
S_RECD, because it leaves only in the low half. So a complete sample is counted on the very next edge (`Counting`) while the
SRAM still follows the output register (`Stored`). The exception in `Shifting` is the single bit of
a recording started in the high half; it is counted as word 0, which is why `WholeSamples`
begins at 1. `Latched` is the other clock domain: what the recorder believes of a
pause in the high half was true of Top when the frame rose.

*The playback.* `Lines` has what Top tells AudDSP by Top's state. AudDSP acts on it only when the frame
falls, so the two disagree for up to a frame; `Follows` says that they do so only while no second key
can have been pressed (`keyed = 2`), and `EndNoticed` that an address past the end is seen by Top before the frame
is over. `Moves` is what the thirteen branches of AudDSP amount to.

*What the codec hears.* In the high half of a frame the codec has exactly the bits that AudPlayer
has sent: `word` is the latched word without its lowest `SampleBits - counter` bits (`SendingOK`), one more
bit with every clock by `NextBit`. Outside it AudPlayer's counter is 0 (`PlayerOK`), so each word begins with its
highest bit. `HearingOK` ties that to AudDSP: from the frame's rise on, AudPlayer holds either what AudDSP puts
out, and then the codec has all of it by the end of the word, or nothing, because Top was pausing at the rise. In
that case AudDSP, if it has not seen the pause, still sees it at the fall (`Pausing`: no second key can have
undone it, `keyed = 2`) and does not move on. For the values, `Registers` keeps
`prev` and `this` widened samples (`Widened`), which narrowing gives back (`WidenedSample`), and the counter
inside its interval. For `OnTheLineCorrect`, two samples below half the range and weights up to 15 have
products below the range of the register (`WeightedExact`), so neither product nor sum wraps, each
quotient loses less than one, and the sum is again a sample of the positive half (`InterpolatedOnLine`).

*`Karaoke`, the lists.* `Before` is the comparison of names by their first difference;
it is a strict order that is total where no name is a prefix of another
(`BeforeTransitive`, `BeforeTotal`). So in an ascending array, the place `Insert`
finds splits it in two (`AtFacts`), and the array stays ascending and gains exactly the
new name (`InsertSorted`): while the directory is read, each list is sorted and
holds the files found so far (`ScanOK`). What is left in the arrays of an earlier
pass lies behind the count and does not matter. For `ListsMatch`, names of one kind
compare as their titles do (`TitlesCompare`; here the ending's first character must
come before those of titles, or A and AB would be ordered differently in different
lists), and two ascending sequences of the same titles are the same
(`SameOrder`, by the least place where they differ).

*`Karaoke`, the streaming.* With the song played up to p and read up to r, `InPlace`
says where it stands: p is on a frame, the frames from p to r lie in the buffer at p
modulo its size (`Holds`), and they reach to the buffer's end unless the song ends
before. So a refill comes exactly when the buffer is used up, begins at its
start, and the unsigned `end - r` of the read size never wraps; a copy takes whole
frames, and what was played is the data chunk up to p (`SongOK`). A failed read leaves
`sound`. For the vocal, `Beside` has the one thing the code takes for granted: the
vocal's buffer has at least what the song's has, because both begin at the same
offset and are refilled at the same places. The header parser is part of it: where
the chunks begin is a recursive function of the file, and `StartExists` shows that
it is defined for every list of chunks.

### Only model-checked

* All liveness: `HostFinishes`, `PlaybackEnds`, `NextIsHonoured`, `MusicGoesOn`,
  `MountCompletes`, `SongEnds` and the fairness part of `ImplementsDecryption`: reasoning
  about fairness needs ENABLED, which the provers at hand do not support.
* The violations of section 4, which are counterexamples.

## 6. Not modelled, and why

* Generated and vendored code: the Qsys interconnect, PLLs, the FFT core,
  pin-outs, and the Altera BSP and HAL. The last is most of the C code in the
  repository (more than two thirds of its lines): device drivers for a UART, timer,
  flash and LCD with nothing in them that is specific to this program. That
  is why the map covers about a tenth of all C lines, but most of the lines of
  `main.c`, `sd_protocol.c`, `sd_lib.c`, `WaveLib.c` and the read paths of `terasic_fat`.
* Copies: `software_bak/main.c` is an earlier state of `main.c`;
  `rsa_qsys/synthesis/submodules` an older snapshot of the Lab 2 modules (other
  reset polarity, other polling); the `*_backup`, `*_original` and `garbage`
  directories of Lab 3 are earlier attempts. None of them is built.
* Displays and their tests (LEDs, seven-segment, LCD, `debug.c`): nothing depends
  on them.
* Code nothing calls: `SDLIB_WriteBlock512` and the writing half of
  `sd_protocol.c`, `fatFindUnusedCluster`, `fatDelClusterList`, `Fat_FileExist`,
  `Fat_FileCount`, `Fat_SpeedTest`, `waveplay_change_mode`.
* The bits of an I2C transfer in `I2C.c` and the contents of the codec's other registers: a
  transfer is a step, with the outcomes a cut into it has.
* The bits on the SD bus, CRC7 and CRC16: what the host rejects counts as lost.
* Levels of the FAT library above one directory: only the root directory is used.
* `Debounce`, the FIFO and infrared IP, `scoring.sv`, Lab 1, Lab 0: see below. The
  hazard at `Top.sv:269` (back to recording out of a paused playback leaves AudDSP
  paused) is in `PlayPath` as a behaviour, but no document says what should happen,
  so no property speaks of it.

## 7. Plan

Done, in this order: multipliers and their proofs; core and refinement; wrapper
and system; recording; playback and serial output; codec initialisation; volume;
main loop; I2C collisions; SD card and FAT library with their refinement of
`ByteStream`; play list and streaming; proofs about the core, the RSA system, the
FAT library over the card and its refinement of `ByteStream`, the volume, the main loop, the play lists, the
streaming, the codec's configuration, the recording, the playback and what the codec hears.

Next:

1. `Debounce` (a press makes one pulse), and its pulses as the keys of
   `PlayPath`; FIFO and infrared IP; `scoring.sv`; Lab 1.

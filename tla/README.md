# foo_dsp_bfir in TLA+

`foo_dsp_bfir` is a DSP component for the foobar2000 player. It filters audio
with an equalizer and up to three impulse-response files, by partitioned FFT
convolution (an engine derived from BruteFIR), and it can be configured over
TCP through a small command line interface. This directory holds TLA+ models
of its parts, what is checked about them with TLC, and what is proved about
them with TLAPS.

Paths below are relative to `src/`.

## 1. The system

### Components, their state and their operations

| component | code | state | operations |
|---|---|---|---|
| CLI server reactor | `cli_server/server.*`, `connection_manager.*`, asynchronous half of `connection.*` | `acceptor_`, `new_connection_`, `connections_`, per connection a socket and an outstanding read | `run`, `stop`, `handle_accept`, `handle_stop`, `handle_read`, `start`/`stop`/`stop_all` |
| Server life cycle | `foo_dsp_bfir/foo_dsp_bfir.cpp:40-70, 500-540`, `prefs_gen.cpp` | globals `cli_server`, `cli_server_thread`, `cfg_cli_enable`, `cfg_cli_port` | `on_init`, `on_quit`, `g_start_server`, `g_stop_server`, `g_apply_preferences`, the thread worker |
| Command framing | `cli_server/command_parser.*`, `command.*`, `connection::handle_read` | `state_`, `command_`, `buffer_` | `consume`, `parse`, `reset`, `clear` |
| Commands | `connection::handle_command` | the `cfg_*` variables | EQM*n*, EQEN, EQLV, F*n*EN, F*n*LV, F*n*FN, F*n*MD, DIR, CLOSE |
| Preferences pages | `foo_dsp_bfir/prefs_{gen,eq,file}.cpp` | dialog controls, the `cfg_*` variables | load, apply, reset, load/save JSON |
| DSP object | `class dsp_bfir` in `foo_dsp_bfir.cpp` | `m_filter`, `m_equalizer`, `m_channels`, `m_srate`, `m_inbuf`, `m_buffer_count` | constructor, destructor, `on_chunk`, `flush`, `get_latency` |
| Impulse chain | `brutefir/preprocessor.cpp`, `coeff.cpp` | files in the temporary directory | `convolve_impulses`, `load_*_coeff`, `preprocess_coeff`, `calculate_attenuation` |
| Sound buffers, equalizer | `brutefir/buffer.cpp`, `equalizer.cpp` | sound files; caches of resampled files and of rendered equalizers | `load`, `save`, `check`, `resample_snd_file`, `generate` |
| Convolution engine | `brutefir/brutefir.cpp` | `input_timecbuf`, `cbuf` ring, `procblocks`, `curbuf`, `blockcounter`, `coeffs` | `run`, `reset`, two `set_coeff`, constructor |
| FFT kernels | `brutefir/fftw_convolver.cpp` | spectra ("cbufs"), overlap buffers | time to cbuf and back, mixing, the convolve kernels, crossfade, `td_*` |
| Sample conversion, dither | `brutefir/raw2real.cpp`, `real2raw.cpp`, `dither.cpp` | interleaved buffers, `overflow`, random table, error feedback | conversions, `preloop_*`, `real2int_*` |
| Delay line | `brutefir/delay.cpp` | rings of fragments, two short buffers | `allocate_buffer`, `change_delay`, `update`, `subsample_*` |
| Utilities | `brutefir/{util,hash,bfir_path}.*` | the temporary directory | names, hashes, `clean_path` |

### Interactions

Three threads run. The player's *UI thread* calls `on_init`, `on_quit` and the
preferences pages. The *server's thread* constructs the server and runs its
`io_service`; every handler, and so every command, runs there. A *playback
thread* calls a DSP object; several may be alive, for playing and for converting
files. They share the `cfg_*` variables and the two globals of the server
without a lock, and the temporary directory of cached files without one too.
The UI thread talks to the server's thread by `io_service::post`
(`server::stop`) and by `join()`; clients talk to it over TCP. A DSP object owns
one engine; the engine keeps its memory between calls and is used both by the
DSP object and, off line, by the impulse chain. The engine calls, for every
block of every channel, a conversion from the raw samples, the kernels, and a
conversion back, dithered or not. The delay line is part of the sources but no
class of the plug-in calls it.

### What is hard here

* The order of queued completions: an accept or a read may have completed when
  a stop or a close is handled.
* The window between `new thread` and the assignment of `cli_server`.
* TCP's segmentation against a parser whose state survives a read.
* The engine's five pieces of ring state, of which a failing `run()` moves
  some, for some channels, and which an unsigned counter indexes modulo a
  number that need not divide 2^32.
* Chunks, blocks and changes of format in the DSP object, whose pointers are
  not reset with what they point to, and whose buffer is read anew under
  another number of channels.
* Settings that three threads read and write, some of them as several
  variables that belong together.
* Caches on disk named by hashes of part of what they depend on, filled by
  several objects at once, left half written or empty by a crash or a full
  disk, and put elsewhere when their directory cannot be created.
* The delay line's rings, whose roles change when the delay crosses the length
  of a fragment.
* A spectrum's entries are reordered for the kernels, with two unpaired entries
  in places of their own; each kernel repeats that order by hand.
* Rounding and clipping at the limits of eleven formats, and one table of
  random numbers that all channels walk through.

`PROJECT.json` lists these hazards at their lines with the properties that
cover them.

### What makes each component correct

* *Reactor*: no open connection is out of the manager's reach; a stop closes
  all; `run()` returns after a stop; a server that is not stopped accepts.
* *Life cycle*: what the user applied last is in force; quitting leaves no
  thread; `stop()` is only called on the server that runs.
* *Framing*: the commands executed are those sent, whatever the segmentation;
  each is answered once.
* *Engine*: an output is the convolution of what was accepted with the
  coefficients; a rejected block leaves no trace.
* *Kernels*: what they compute is the convolution by its definition.
* *Conversion*: a sample comes out as the nearest value of the output's format;
  what does not fit is counted; dither adds a bounded, continuous noise.
* *DSP object*: audio comes out once and in order; audio passes through when
  there is no usable filter; no freed memory is used.
* *Settings*: a command's effect is that of one step; no update is lost, unless
  two threads write the same setting at once; what belongs together is seen
  together.
* *Impulse chain and caches*: a hit has the content that a miss would have
  produced; what is loaded is whole; the chain's file is the convolution of its
  impulses.
* *Delay line*: a sample comes out a fixed number of samples later, and other
  channels and memory are left alone.

## 2. Modules

| module | models | built on |
|---|---|---|
| `ConnService` | abstract: what the server promises about connections | |
| `CliServer` | the reactor | refines `ConnService` |
| `ServerControl` | the life cycle, around the reactor | extends `CliServer` |
| `CliFraming`, `MCCliFraming` | client, stream, parser, `handle_read` | |
| `Settings`, `MCSettings` | the settings that commands, pages and the DSP object share | |
| `DspChunk`, `MCDspChunk` | the DSP object | |
| `Preconvolution` | pure: what `convolve_impulses` computes from a chain | |
| `ImpulseChain`, `MCImpulseChain` | the set-up of the filter over the cached files | extends `Preconvolution` |
| `Convolver` | the engine, by blocks | |
| `Spectrum`, `MCSpectrum` | the kernels and the networks built of them, in exact arithmetic | |
| `Dither` | the table of random numbers | |
| `SampleFormats`, `MCSampleFormats` | a block's way through both conversions | extends `Dither` |
| `DelayService` | abstract: what a delay line promises | |
| `DelayLine`, `MCDelayLine` | the delay line | refines `DelayService` |
| `ServerProofs` | theorems about `CliServer`, `ServerControl` and `CliFraming` | extends `ServerControl` and `CliFraming` |
| `PlaybackProofs` | theorems about `DspChunk` and `Convolver` | extends both |
| `TransformProofs` | the lemmas on sums, roots of unity, transforms and kernels | extends `Spectrum` |
| `SpectrumProofs` | theorems about `Spectrum` | extends `TransformProofs` |
| `ImpulseChainProofs`, `DitherProofs`, `DelayLineProofs`, `SettingsProofs` | theorems | the modules they are named for (`DitherProofs`: `SampleFormats`) |

Operators whose comment calls them a *mutant* are plausible wrong versions of
the operator that follows them. No action uses them; `PROJECT.json` names, for
each property, the one that breaks it. The type invariant of a module is the
first conjunct of one of its safety properties, or, in the modules whose proofs
rest on it most (`CliServer`, `ServerControl`, `Convolver`), an invariant of its
own.

### CliServer

One action per completion handler and one per thing the operating system or a
client may do. `io_service` runs on one thread, so a handler is one step.
Every asynchronous operation is `idle`, `pending`, or *completed and queued*
with its outcome; queued completions are handled in any order, because
`io_service` orders none of different operations. `acc` is the accept, `next`
is `new_connection_`, `rd[c]` the read of connection `c`, `sock[c]` its
socket, `manager` is `connections_`, `stopq` the posted `handle_stop`.
Details kept because they matter: closing the acceptor does not recall an
accept that has completed; starting a read on a closed socket fails at once
with `bad_descriptor`, which `handle_read` does not treat as an abort; the
CLOSE command stops the connection and *then* starts a read; an accept that
fails is not started again. The bytes read are abstracted to "completes CLOSE"
or "anything else".

`ConnService` forgets the completions: connections open and close once, a
shutdown closes all in one step and may leave one *straggler* to be opened
afterwards, and the server is down when none is left. The refinement mapping
(`Service` in `CliServer`) takes `live` to `manager`, `past` to the closed
sockets, and the straggler to an accept that is queued when the acceptor is
closed.

### ServerControl

`ui` is the UI thread's place in `on_init`, `apply`, `on_quit` and the
functions they call; `worker` is the server thread's place in
`g_cli_server_thread_worker`. The pointer `cliServer` holds the number of a
server; `gen` counts the servers made. `g_stop_server` is split where another
thread can act: reading the pointer and posting, and joining. Calling through
a null pointer makes the process `undefined`; an exception in the constructor
makes it `terminated`. Servers are never deleted in the code, so a stale
pointer names a stopped server and a post to it is lost.

### CliFraming

`parse` is taken byte by byte with `ParseMore`, `ParseComplete` and
`ParseInvalid` as the three values of its `tribool`; the client goes on
sending in between. A character is one of a few model bytes, of which the
delimiter, the terminator and a byte above 127 are told apart, as the code
tells them apart. What follows a complete or invalid command in the same read
is dropped, as the code drops it.

### Convolver

A sample block is known by its number, so an output is known by *which window
each coefficient block was multiplied with*. `timecbuf`, `cbuf`,
`procblocks`, `curbuf` and `blockcounter` are the code's; a window is the pair
of blocks under one transform. `Run(faulty)` takes a block per channel, of
which those in `faulty` hold a value that is not finite; the channel loop
stops at the first channel whose output is not finite, having written the
buffers of the channels before it and of that one. `Slot(i)` is
`(blockcounter - i) % n_blocks` in unsigned arithmetic with 2^32 as the
constant `Wrap`. `SetCoeff` loads coefficients, `SetCoeffFails` is the way out
of `set_coeff` on which a channel's coefficients could not be prepared: all are
freed and the filter is no longer initialized.

### DspChunk

`on_chunk` is split into the delivery of a chunk with the set-up of the filter
if the format is new, and one action per round of the block loop; `filter` and
`equalizer` are the two pointers with what they point to, so that a dangling or
uninitialised pointer is a state. Audio is a sequence of samples, a frame as many
of them as there are channels; a sample is its place in the stream and its
format. `buffer` and `behind` are `m_inbuf`: the samples of its first
`m_buffer_count` frames and those after them, which is what was there of earlier
blocks. When the format changes the code keeps the *count of frames* and the
*bytes*, so the buffer is read anew (`ReadAnew`): with more channels the count
takes in samples behind the unfinished block (`stale`; those never written are
`Unwritten`), with fewer it leaves the end of the unfinished block out. `widened`
and `clean` remember that this happened. How settings and impulse files decide
the set-up is the free choice `Setups`. A freed filter may still look usable,
and is then used.

### Settings

`cfg` holds the `cfg_*` variables under names like `<<"level", n>>`. An
operation (a command on the server's thread, or `apply()` and `LoadFile()` of
the pages on the UI thread) is begun in one step, which reads what the code
reads first and lists in `todo` the writes the code does, in its order; every
write is then a step. Reading is the same: `toRead` lists what a page or
`on_chunk` has still to read. A `cfg_string` is rewritten in place, so between
its two steps a reader finds it `GARBLED`; levels and check boxes are written at
once. `view` is what the pages show and what the player has read. The history
variables are the yardstick: `ideal` is `cfg` had every operation been one step
at its end, `clash` the settings that two overlapping operations both wrote,
`news` the operations under way during the player's last set-up.

Left out: replies and queries, DIR, commands that are refused, `HasChanged()`.
A file is known by its name, so its metadata is its name and its attenuation a
constant; audio files that the DSP object cannot use are left to `DspChunk`'s
`Setups`.

### Preconvolution and ImpulseChain

`Preconvolution` is the arithmetic of `convolve_impulses` on short sequences of
integers: a dirac impulse is sent through the engine, what comes out becomes
the coefficients for the next impulse, and the engine keeps its memory
in between. As in the code only one block of each product is handed on, and the
scale of an impulse is applied to what comes out for it.

`ImpulseChain` is the set-up at the head of `on_chunk`, for several DSP objects
over one cache of files. `slot` walks over the equalizer and the file
slots (`SkipSlot`, `TakeSlot`, `MakeSlot`), building `chain`, which the code
calls `impulse_info`; then the chain is scanned, convolved if it has two or
more impulses, measured and loaded. A file is made in three steps, `exists`,
opening (which empties it, before or after the header is written) and writing to
the end, so that another object, a crash or a full disk comes in between; the
code ignores the results of saving, so the set-up goes on with the name. A file
in `temp` remembers what it was made of (`made`), of which chain (`parts`),
whether it was written to its end (`whole`) and whether it has at least its
header (`header`). The code asks two different questions of a file: whether it
is there (`Exists`), which decides whether it is made again, and, through
libsndfile, what is in it (`Readable`, `Fits`), which a file of 0 bytes does not
answer. The result of the query of the parameters is not tested, and a file that
cannot be opened then has those of the one before, or what is on the stack
(`onStack`); `died` says for which of the two, such a file or two that disagree,
`throw;` ended the player.

A name is a directory and a tuple of what the code's hash depends on: the
second half of the bytes, the scales and the contents do not count. The
directory is `place`: `"temp"`, or `"working"` while the temporary directory
cannot be created and `append_temp_path` returns the bare name
(`LoseDirectory`, `FindDirectory`). The user replaces files and changes
settings; `Crash`, `Quit` and `QuitUnclean` (the directory could not be emptied)
restart the player, and `Quit` removes the files of the temporary directory and
leaves those in the working directory (`Astray`). The settings that decide on a
slot are read in one step, its scale when its file is there; how readers and
writers of the settings interleave is `Settings`' subject.

### Spectrum

The kernels of `fftw_convolver` over a finite field instead of the reals. The
sines and cosines of a transform exist in a field whose order is one more than
a multiple of its length, and what the kernels compute is a polynomial in them
and in the samples, so a wrong index, sign, order or scale shows, while rounding
does not exist. `cbuf` holds the buffers, `todo` the calls still to be made, in
the order in which the code's callers make them; every call is one action,
whose effect on a buffer is that of the kernel, loop for loop. The networks
are the ways these functions can be put together: one filter; a filter of two
partitions; coefficients computed at run time; two in series; a dirac; mixed
inputs and outputs; a crossfade; and the subsample delay of `delay.cpp`, which
is built from the `td_*` functions. FFTW's transforms are given by their
definition. Where the crossfade for doubles reads behind its buffer, the value
is chosen freely.

### Dither and SampleFormats

`Dither` is the table `dither_randtab`: each channel's pointer, the wrap to its
beginning, and entry 0, into which a wrapping channel copies its last number so
that its differences go on. `SampleFormats` runs blocks through
`raw2real`, the scale of the formats and `real2raw`, one channel a step, as
`brutefir::run` does. To keep an `int` of four bytes small, a byte has `Byte`
values instead of 256; a real is counted in units of `1 / One`, chosen so that
what the properties compare is exact; a float has three bytes for its digits
and rounds what is longer. The scale of four-byte formats overflows to a
negative number (`FullScale`), as in the code. A difference of 255 reads one
entry past the end of `dither_randmap`: the value there is chosen freely and
`strayed` remembers it.

### DelayService and DelayLine

`DelayService` promises that a sample comes out `curdelay` samples later, with
silence after the delay was lengthened and possibly old samples after it was
shortened. `DelayLine` keeps the code's `delaybuffer_t` (rings of whole
fragments and a rest, or two short buffers, by whether the delay exceeds a
fragment), and `update` with the order of its copies; a sample is its number, so
that the place from which it comes is visible. Leaving the allocated memory
(`overrun`) and a loop that does not end (`hung`) are states.
`delaybuffer_t`'s allocation is that of `delay_allocate_buffer`; the class also
declares a member of that name that is defined nowhere, and no other class of
the plug-in uses it.

## 3. Runs

Bounds are constants of the modules and are named in the comments beside them.

| run | bounds | shows |
|---|---|---|
| `cli_server` | 4 connections, accepts may fail | Bookkeeping of the manager (`ManagedIffOpen`, `ReadArmed`), at most one straggler, refinement of `ConnService`, a stop drains, a client that leaves is forgotten. Four connections allow two live ones, a straggler and the next object to exist at once; no property relates more. |
| `server_control` | 3 connections, 2 ports, 2 applies | The applied preferences are in force, quitting is quiet, the server keeps accepting, apply returns once the server has drained. Two applies give a server, its successor and every stale pointer. |
| `server_control_stop` | 2 connections, 1 port | **violated**: `StopIsSafe` |
| `cli_framing` | 4 commands of 4 kinds, buffer of 4 bytes, one outstanding | In-order, exactly-once execution under all segmentations; nothing is left over; every command is executed. Commands are longer than the buffer and shorter, so they span reads. |
| `settings` | 1 slot, 2 bands, 1 command, 1 page with 2 clicks, 1 set-up | `AsIfOneByOne`: operations that do not overlap on a setting act as single steps, and EQM keeps the other bands. `PublishedWhole`: a file put into an empty slot is used with its level or not at all. One command against one apply against one set-up is every pair of threads that can interleave; two clicks are browse or edit, then apply. |
| `dsp_chunk` | a mono and two stereo formats, blocks of 3 frames, chunks of 1, 2, 5 frames, 9 samples | Order, no sample lost or repeated without a cause, old samples only in the first block, sound pointers while impulses stay configured, `on_chunk` returns. Chunks are below, across and above a block; formats change to more channels, to fewer, and in the rate only; nine samples suffice for two stereo frames that are read as mono and the mono block they get into, or for a block of mono that was run and an unfinished one that is read as stereo. |
| `impulse_chain` | 2 DSP objects, the equalizer and 2 files, 3 contents, 3 settings, 2 streams, blocks of 2; 2 set-ups, 1 event, started with or without the temporary directory | `NothingFromBefore`: no filter goes back further than the last emptying of the directory, but through files in the working directory. `AloneAllWhole`: half files need a crash, a full disk or two set-ups at once. `RightIfShort`: which chains are convolved correctly. `DiesOnlyIfDisturbed`: what it takes to reach `throw;`, for files that disagree and for a file that cannot be opened. Two set-ups are one that fills the cache and one that hits it, of the same object or of two, overlapping or not; one event is any single replaced file, change, loss or return of the directory, failure or crash between them. The objects are symmetric. |
| `impulse_chain_single` | as above | **violated**: `ConvolvesIntoOne` |
| `convolver` | 2 channels, 1 to 4 coefficient blocks, wrap at 4, 7 runs, 1 reset | `OutputIsConvolution`, `BadInputLeavesNoTrace`. Seven runs wrap every ring and the counter; two channels let one fail after the other has been written. |
| `spectrum` | field of 17 elements, filters of 4 and 8, 3 and 11 coefficients, 3 blocks, floats and doubles | `OutputIsConvolution` for eight networks, `SubsampleIsSeamless`. A length of 8 has unpaired and paired entries in every group of the reordered spectrum, 4 the least; 11 coefficients need a second partition; three blocks let a sample pass both. The kernels are linear in the blocks, so single impulses at the edges and one block of many values tell wrong orders apart. |
| `sample_formats` | 2 channels, blocks of 2, table of 7 numbers; bytes of 4 values; 17 pairs of formats, 4 blocks | Rounding, clipping, byte order and interleaving (`SamplesPass`), overflow counts, bounded noise with dither, channels that use different parts of the table (`WindowsFit`) and continuous noise. Four blocks wrap the table on both channels. |
| `delay_line` | fragments of 2, initial delays to 6, delays to 5, 3- and 4-byte samples, 1 to 3 channels, 6 fragments, 2 changes | `OthersUntouched`, `StaysInBounds`, refinement of `DelayService`. Delays of none, below, equal to and beyond one and two fragments, and every change between two of them; six fragments go round the longest ring. |

Deadlock is not checked where the modelled system may stop: a server that has
returned, a client with nothing more to send, an object that is destroyed, a
bound that is reached.

### Fairness

* `CliServer`: weak fairness of each handler and of `RunStarts`: the server's
  thread does nothing but run the `io_service`, which forgets no queued
  handler. Weak fairness of `ReadEof`: the operating system reports the end of
  a stream. No fairness of the clients: they may stay silent for ever. No
  fairness of `PostStop` or of accepts.
* `ServerControl`: the same, while the process is up; and the UI thread
  finishes the call it is in. No fairness of the user's clicks.
* `CliFraming`: TCP delivers, and the server parses what it has read. The
  client owes nothing.
* `DspChunk`: the player's thread goes on with `on_chunk` once it is in it.

The other modules state safety only: what they model are single calls, whose
loops are bounded by their arguments (`DelayLine` has the one that is not).

## 4. Where the code disagrees with its words

Two disagreements with a comment are runs that must be violated:

* **`stop()` through a wrong pointer** (`server_control_stop`). `cli_server` is
  assigned by the server's thread, after the constructor. An apply or quit
  before that goes through a null pointer, or through the pointer to an earlier
  server, after which `join()` waits for ever.
* **A chain is not convolved into one** (`impulse_chain_single`).
  `preprocessor.cpp:25` says "Convolves a set of impulse responses into a single
  one". `set_coeff` is told that each product is one block long, so the rest of
  it is dropped before the next impulse; the engine's memory of one impulse runs
  into the next; the last scale is never applied. `RightIfShort` is the
  condition under which the result is right but for that scale.

The models contain the following as well, each as an exception stated in a
property or as a state that the properties describe.

*Server.* `server.cpp:68, 78-80` says that `run()` exits after a stop, but an
accept that has completed and is not handled when `handle_stop` runs is handled
afterwards, and starts a connection that nothing will stop; `AtMostOneLate` and
`StopDrains` say what does hold. A byte above 127 is negative as `char`; the
command is dropped without a reply (`connection.cpp:689`).

*Engine.* `procblocks` counts a rejected block, `blockcounter` does not. With
`procblocks` ahead, slot `(0 - 1) % n_blocks` is used, which is the wrong one
unless `n_blocks` divides 2^32 (`brutefir.cpp:293`); `RingInStep` in
`OutputIsConvolution` is the exact condition under which the engine is right.
`reset()` clears the counters but not the time-domain buffers
(`RightWindow`; only the constructor calls it today).

*Kernels.* `convolver_crossfade_inplace` blends doubles with memory behind the
buffer (`fftw_convolver.cpp:308-315`). A static temporary buffer has the
size of the first instance that used it (`:543`). A coefficient that is not a
number makes a null block, which `run()` dereferences (`coeff.cpp:338`). A
subsample delay out of range leaves the rest of the last block stale
(`delay.cpp:158`).

*Formats.* The full scale of four-byte integers is `1 << 31`, which is negative:
the polarity is inverted if one side is such a format (`brutefir.cpp:400`). A
float rounds the largest four-byte integer up, which then comes out as the
smallest and is not counted. `dither_randmap` has 511 entries and a difference
of 255 reads behind it (`dither.cpp:77`). If the spacing equals the block's
length, channels that wrap use the same numbers (`dither.cpp:131`).
`overflow->largest` compares the sample before dither and stores it after.

*Delay line.* An initial delay above a positive maximum is not clamped
(`delay.cpp:73`) and runs over the buffers. The shift of 3-byte samples takes
the wrong samples with more than two channels and does not end with one
(`delay.cpp:467`). After the delay was shortened old samples are heard.

*DSP object and settings.* `foo_dsp_bfir.cpp:354-355` says that audio passes
through on an initialization error; with a filter whose coefficients were
refused it is dropped. An unfinished block that meets a change of the number of
channels is read anew: with more channels samples of a block already run, or
memory never written, are put out, with fewer its end is lost
(`foo_dsp_bfir.cpp:291-293, 320`). `flush()` does not reset the filter.
`LoadFile()` gives
the computed level to the slider of slot 1 whatever the slot
(`prefs_file.cpp:173`).

*Caches.* The name of a preconvolved file is a hash of half of the bytes of its
sources' names, without scales or contents (`preprocessor.cpp:89`). Between the
test whether a file exists and the end of its writing another object finds an
empty or half file; a crash or a full disk leaves one (`:199`), and one of 0
bytes is there but cannot be opened (`buffer.cpp:124-138`). If the temporary
directory cannot be created the files are made in the working directory
(`bfir_path.cpp:136-143`), which nothing empties. Neither the
result of saving (`buffer.cpp:300`) nor that of `get_snd_file_params` is looked
at, and a mismatch ends in a `throw;` outside any handler
(`preprocessor.cpp:72, 77`). The ratio of resampling is inverted and its output is
cut at the input's length (`buffer.cpp:298-299`). `clean_path`'s result is
ignored, and it is called only when the player quits.

## 5. Proofs

What TLAPS proves holds for every value of the constants that satisfies the
named assumptions, not only for the bounds of the runs.

| theorem | states |
|---|---|
| `ServerProofs`: `TypeCorrect`, `ManagedIffOpenHolds`, `ReadArmedHolds`, `AtMostOneLateHolds` | the reactor's invariants, any set of connections |
| `ServerProofs`: `Implementation` | `CliServer` implements `ConnService` |
| `ServerProofs`: `ControlTypeCorrect`, `AppliedPrefsInForceHolds`, `QuitIsQuietHolds`, `KeepsAcceptingHolds` | the life cycle's invariants, any ports, connections, applies |
| `ServerProofs`: `NeverAnsweredTwiceHolds` | replies never run ahead of the commands: any commands, any cutting of the stream, any number of unanswered commands |
| `ServerProofs`: `ExecutedInOrderHolds`, `NothingLeftOverHolds` | what is executed is what was sent, if the client waits for its replies (`Window = 1`, the protocol of the README of the plug-in) |
| `PlaybackProofs`: `ConvolverTypeCorrect`, `OutputIsConvolutionHolds`, `BadInputLeavesNoTraceHolds` | the engine, any number of channels and blocks and any wrap, 2^32 included |
| `SpectrumProofs`: `SpectrumTypes`, `SpectrumConvolves` | the engine's arithmetic in each of its networks, any field with the roots of unity, lengths, coefficients, scales and blocks |
| `SpectrumProofs`: `SubsampleSeamless` | the subsample delay, any length of block, input and changes of the delay |
| `TransformProofs`: `CycParts`, `Inversion` | the convolution theorem and the inverse transform in half-complex order, any length |
| `SettingsProofs`: `AsIfOneByOneHolds`, `PublishedWholeHolds` | the shared settings, any number of slots, bands, commands, clicks and set-ups, any range, files and requested numbers |
| `PlaybackProofs`: `NoFrameTwice`, `NoFrameLost`, `OldFramesHold`, `SoundHolds` | the DSP object, any formats, block length and sizes of chunks: samples are repeated or lost only at a change of the number of channels or for the causes named in `NothingLost` |
| `ImpulseChainProofs`: `NothingFromBeforeHolds`, `AloneAllWholeHolds`, `NeverEndsUndisturbed` | the caches and the set-up, any number of objects, slots, files, settings, set-ups and events |
| `ImpulseChainProofs`: `RightIfShortHolds` | what the convolved file holds, any number of impulses of any length, empty ones too, any samples, scales and block length |
| `DitherProofs`: `NumbersSafe`, `NoiseSafe` | the random numbers, any number of channels, block length, spacing and table |
| `DitherProofs`: `EveryClipIsCountedHolds`, `SamplesPassHolds`, `DitherStaysNearHolds` | the conversions, any pairs of formats, size of a byte, channels, samples and blocks |
| `DelayLineProofs`: `LineStaysInBounds` | no update leaves the buffers, any fragment size, delays, sample sizes and spacings, except in a line allocated with an initial delay above a positive maximum |
| `DelayLineProofs`: `OtherChannelsUntouched` | other channels stay where they are, except by the shift in place of 3-byte samples in a line without fragments |
| `DelayLineProofs`: `LineImplementsService` | `DelayLine` implements `DelayService`, which promises exact samples to lines that are not of that 3-byte kind with a spacing above two |

*Reactor.* None of the invariants is inductive alone. `IInv` adds `AcceptChain`
(the socket of `new_connection_` is open exactly while a completed accept is
queued; a pending accept means an open acceptor; a straggler is alone) and
`ReadChain` (a read that failed by the server's own doing belongs to a closed
socket). `Implementation` then needs only that each step, from a state of
`IInv`, is a step of `ConnService` or leaves its variables alone.

*Life cycle.* `CInv` adds to the reactor's `IInv` what each thread knows of the
other: `ReactorAtRest` (no server runs before it is constructed or after it is
joined) and `UiKnowsWorker` (at each place of the UI thread, which states of
the worker are possible and whether a stop was posted).

*Framing.* That no command is answered twice needs no assumption on the client:
`EndsToCome` says that there is an increasing map from the terminators still on
their way to commands later than those answered, so that a reply, which
consumes a terminator and perhaps drops others, uses one up (`DropAssigned`,
`SendAssigned`). For the other two, `InStep` says that a client that waits has at
most one command under way and that the parser stands at some byte k of it
(`Awaits`): the bytes buffered or on the wire are the rest of the command, and
state and command are what its first k bytes make of them (`Parsed`). The
encoding is compared byte by byte (`EncodedAt`), so how the reads cut it does
not matter (`ReadKeepsRest`).

*Settings.* `IInv` follows each setting through the operation that writes it
and each empty slot through the operation that fills it. `KeyInv` (with
`Settles`): while one thread alone writes a setting, it holds the old value, the
new one or `GARBLED`, and the writes still to do leave the new one. For the
slot, `LevelFirst` says that the level is written before what makes the file be
used, which is the enabling for a command and the name for a page; `ReadsOnward`
that the player reads in the opposite direction, the name, whether it is enabled
and then the level. `SlotInv` puts them together for a slot that was empty when
the set-up began: without an operation on it since, nothing of it was seen; with
one, that operation is under way or done (`UnderWayOrDone`), and what was read
so far is of one piece (`OnePiece`). A page's writes, and the player's reads, are
sequences of sequences; `FlattenPlaces` says where in them an element of a
flattened sequence comes from, by well-founded induction.

*Engine.* `IInv` relates the counters to the history: `CounterInv`
(`blockcounter` is the number of accepted blocks modulo `Wrap`), `HalfInv` (the
first half of the current buffer is the last accepted block), `RingInv` (each
ring slot that `run()` may use holds the window it should), `ProcInv` and
`FiniteInv` (only the slot that is written next may hold a bad value). The
arithmetic is in five lemmas about remainders: uniqueness, form, adding a
multiple, two indices closer than the modulus are apart, and `(x % w) % b = x %
b` when `b` divides `w`. The last is where the condition "2^32 is a multiple of
`n_blocks`" enters.

*Arithmetic.* `Eq` is equality in the field, and `Sum` a sum in it; sums of sums
are exchanged, split and turned round a circle by induction over their length
(`SumSwap`, `SumRotate`). Powers of the generator give roots of unity (`RootIs`,
`RootsRound`), and the sine and cosine of a sum of angles are what they should
be (`TrigAdds`). The cosines of all frequencies add up to the length of the
transform at a multiple of it, and otherwise to nothing (`KernelIs`, from the
geometric series `Waves`). From these follow that the half-complex inverse gives
back a vector, times its length (`Inversion`), and that the spectrum of a
circular convolution is the product of the spectra (`CycParts`). `InCbuf` says
that a buffer holds the spectrum of a vector in the order of
`convolver_mixnscale`; a lemma on each kernel says that what it makes is such a
buffer again, of the mixed, the scaled or the convolved vector. The coefficients
are in the second half of their buffer, and the first half of the circular
convolution, the one that is kept, is then the plain one (`Overlaps`).

The inductive invariant is then about places in a program. `TypeInv` says
which calls can be left; `ConvolvingInv` (with `Progress`) what the buffers hold
at each of them, network by network: the coefficients made so far
(`SetupStage`), the last two blocks of each input (`Windows`), what
`convolve_eval` keeps of the block before (`EvalAt`), and the stage of the
current block. `SubsampleInv` counts the turns of `subsample_update`: after m of
them the samples before `4 * m` are the delayed ones, those after it as given,
and `rest` holds the last four given (`Turning`), except that after a call that
did nothing the rest is older.

*DSP object.* Neither order nor completeness is inductive. `OrderInv` says of what
was put out, the buffer and the rest of the chunk that each is in order, that
they follow one another, that nothing in them is newer than what was delivered
and that stale samples need a buffer that was read anew with more channels;
`CountInv` that each sample delivered is in one of them. A round of the loop
moves the head of the chunk, so lemmas say what order, precedence, format and
presence do under concatenation and for a part of a sequence; the lengths are
whole numbers of frames (`Whole`), or a block could be passed without being
reached. `ReadAnewFacts` says what a change of the number of channels makes of
the buffer. `PointerInv` holds the facts that make the actions exclude one
another, among them that nothing is buffered before there is a filter, on which
passing through without loss rests.

*Caches and set-up.* Four invariants, each inductive with the ones before.
`MadeInv` follows everything that a set-up carries: each file's `made`, the
names of the chain and of the file being made, and the sound about to be
written, go back to files and settings that were seen. A set-up that reads,
overlaps, fails or crashes at any step keeps it, because no step makes a file of
anything but known sounds; when the directory is emptied, what the files left in
the working directory are made of counts as seen. `FitInv` says that a file's
name tells its number of channels and its rate (`FilesNamed`), and that as long
as no file was replaced during a set-up each name in a chain goes with the
stream (`ChainFits`): a file of the user that has its channels and rate, or a
name made from them (`Matches`), whether or not the file is there and can be
opened. A mismatch between files that can all be opened thus needs a file
replaced. `WholeInv` follows which file is being written by whom while there was
no crash, no error of the disk and no meeting: all others are whole, and the
files of a chain are there, so they can be opened.
They rest on what the model's recursive functions return: `Recursion` proves,
by well-founded induction over the naturals, that a function that satisfies a
recursive equation exists, and `Unfolds` that the LET function is one.

`RightInv` says what the files hold: the whole file of a chain has what the
filter makes of the chain, and everything on the way consists of numbers.
`PreconvolvedRight` is the argument about the filter, an induction over the
impulses (`AllTurnsOK`). While the impulses so far reach over one block at most,
the coefficients are their convolution, padded (`Alive`), and the memory that
the filter keeps is silent: a buffer is two blocks or more, as the last impulse
is longer than one, so a short impulse has long left the memory when its buffer
is over (`MemoryIs`). If an impulse is empty the convolution is, and the
coefficients are silent too, unless a longer impulse before it was still in the
memory; but then the impulses reach further than one block all the same
(`Dead`). `RunConvolves` compares the filter's sum with the convolution's, term
by term, after the zeros of either are dropped (`SumShorter`).

*Delay line.* `IInv` divides a delay into whole fragments and a rest (`Shape`),
says where in the ring each sample of the history is (`Stored`, and `Data` for
the samples still to come out after a change), and separates a line whose
buffers suffice (`Fits`) from one that was allocated with an initial delay above
a positive maximum (`Oversized`), which is the only one that overruns. The step
simulation of `DelayService` follows from `Data`.

*Random numbers.* Two channels must not meet although their pointers wrap at
different times. `NumbersInv` says that either no channel has had a block, or
that the pointers, as they will be at the end of the round (`After`), are a
block apart and past the first block of the table (`RoundInv`), and that a
block that was used ends at its channel's pointer (`StartInv`). `NextApart`
shows that a round keeps the distance, `Multiples` and `Origins` that the
starting places have it; `LastInv` gives the continuity of the noise.

*Conversions.* What a channel's loop makes is a sequence of turns (`Turns`),
and each block is an induction over them (`BlockRight`); `Recursion` gives the
functions again. The argument about a single sample is in `QuantisedFacts`: the
limits of an integer format of up to three bytes are exact in a float, and
rounding does not take a sample across a number that is exact (`StepFacts`,
`RealFacts`), so what the code compares with the limits, after the rounding, is
on the side where the sample is. For a four-byte format and floats this fails at
the upper limit, which is what `Exact` excludes. `CountInv` follows, with the
types of everything on the way.

`PassInv` says that the channels that have had their turn in a block have right
samples in the output (`Right`). It needs that the digits of a number give the
number back (`DigitsOf`, `EncodeValue`), that no two bytes have the same place
(`PlaceFacts`, `FilledFacts`), and that input and output scale give what the
property wants, sign included (`SampleWanted`). With dither it also needs that
the errors kept for the feedback are one and a half steps at most (`Small`),
which holds because an unclipped sample is rounded down by one step at most and
dithered by half a step down to one and a half up (`RandMapFacts`,
`DitheredNear`). A float close to full scale may be rounded by half a step
more; but then it is a whole number of steps, and so is the error, which is
thus one step instead of one and a half (`RealRounds`).

Assumptions: `AcceptErrorsAssumption`, `ControlAssumption`,
`ConvolverAssumption`, `DspAssumption`, `SlotsAssumption`, `DitherAssumption`,
`DelayAssumption`, `FramingAssumption`, `NamesAssumption`, `SoundsAssumption`,
`SettingsAssumption`, `FormatAssumption`, `SamplesAssumption`,
`SpectrumAssumption`, `FieldAssumption`.
Each is a type, and besides: in the engine no filter has more blocks than the
counter has values; the dither has what the constructor checks before it throws;
the random numbers fit into a byte, which has an even number of values, and
`One` is a multiple of what the scales divide by, so that no digits are lost
there; the field has no divisors of zero and a generator of all its elements but
zero, and enough elements for the roots of unity of each transform (`P - 1` is a
multiple of every transform's length: there are such primes for any lengths);
coefficients, scales and samples are numbers, and a length is a multiple of
four, as the kernels' loops over groups of four need (the constructor takes
powers of two only, which is more than the theorems ask for); a float sample is
below the numbers that a float holds in steps of one (`Real` rounds those; in
the code, 2^23 times full scale);
a command has no terminator in it, nor a delimiter in its operation code, and is
known by its code and data; the equalizer's response, the samples of a file and
the scales of the slots are integers; the user's files are not among the cached
ones, in the temporary directory or the working directory; a file's rate and
number of channels are positive; a half-written string is
neither a name nor a list of magnitudes.

Only model-checked: what is temporal under fairness (`StopDrains`,
`LeaverForgotten`, `ApplyReturns`, `EveryCommandExecuted`, `ChunkReturns`),
which is out of the prover's reach. Every invariant, action property and
refinement that a passing run checks is stated by a theorem.

## 6. Plan

Written: the server (`ConnService`, `CliServer`, `ServerControl`, `CliFraming`),
the settings (`Settings`), the DSP object (`DspChunk`), its set-up
(`Preconvolution`, `ImpulseChain`), the engine from its blocks down to its
samples (`Convolver`, `Spectrum`, `SampleFormats`, `Dither`), the delay line
(`DelayService`, `DelayLine`), and eight modules of proofs. In this order, next:

1. A composition of `DspChunk` with `Settings` and the engine: what is heard
   after a seek, and after a setting was changed.
2. Band interpolation of the equalizer and `calculate_attenuation`, as pure
   operators against reference definitions.

## 7. Not modelled

* Files of the user that are removed, or that `libsndfile` cannot open: in
  `ImpulseChain` they are replaced by other sound files only.
* Rounding in the engine's arithmetic, and in the conversions that of a float
  whose steps are smaller than one; FFTW's transforms, plan tables and
  wisdom files; `convolver_verify_cbuf`, which only logs.
* `calculate_attenuation`, which runs white noise through an impulse and measures
  the peak (of its first block: like `convolve_impulses` it says that the
  coefficients are one block long), with the noise of `buffer.cpp`; and the
  interpolation between the equalizer's bands: they are the constants
  `Attenuation` and `Equalized`. The generator of the dither's numbers is
  `Random`.
* The readers of text and raw coefficients, which nothing calls; the failures of
  the engine's constructor; `print_overflows`; `get_latency`.
* Replies and queries of the CLI and `DIR`, which change no state; Win32
  dialogs, their layout and `HasChanged()`; JSON formatting.
* Third-party code (`json_spirit`, `fftw`, `libsndfile`, `libsamplerate`, the
  foobar2000 SDK); `server_msg.cpp`, which the plug-in does not use.

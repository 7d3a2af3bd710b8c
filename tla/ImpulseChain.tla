------------------------------- MODULE ImpulseChain -------------------------------
(***************************************************************************)
(* The set-up of the filter at the beginning of dsp_bfir::on_chunk(): the  *)
(* equalizer is rendered, impulse files that do not fit are resampled, two *)
(* or more impulses are convolved into one, and the filter is loaded with  *)
(* what has become of them.  All three write files into a temporary        *)
(* directory, named after a hash of what they are made of, and take a file *)
(* that is there already instead of making it.  The directory is emptied   *)
(* when the player quits.  When it cannot be created, the files are in the *)
(* working directory, which nobody empties.                                *)
(*                                                                         *)
(* Several DSP objects set their filters up at the same time, on threads   *)
(* of their own; an action is as long as no file of the directory is       *)
(* opened or closed.  The user replaces files, which can always be opened  *)
(* and are never removed, and changes settings.                            *)
(***************************************************************************)
EXTENDS Preconvolution, FiniteSets

CONSTANTS Instances,     \* DSP objects
          Slots,         \* <<"eq", "file1", "file2", "file3">>, or fewer
          FileNames,     \* of the user's files: <<directory, name>>
          Contents,      \* what they may hold: [channels, rate, data]
          FirstFiles,    \* what they hold at first
          Settings,      \* what may be configured: [mag, slot -> [enabled, name, resample, scale]]
          Streams,       \* [channels, rate] of a chunk
          Equalized(_),  \* the impulse the equalizer renders for a magnitude
          NONE,
          MaxSetUps, MaxEvents \* bounds: set-ups; what else happens

ASSUME SlotsAssumption == Slots \in Seq(STRING)

\* The user's files are not among those made here.
ASSUME NamesAssumption == \A n \in FileNames : n[1] \notin {"temp", "working"}

\* libsndfile opens no file, and the player delivers no chunk, without a
\* channel or a rate.
ASSUME SoundsAssumption ==
  /\ FirstFiles \in [FileNames -> Contents]
  /\ \A s \in Contents \cup Streams : s.channels \in Nat \ {0} /\ s.rate \in Nat \ {0}
  /\ \A s \in Contents : s.data \in Seq(Int)
  /\ \A s \in Settings :
       Equalized(s.mag) \in Seq(Int) /\ \A k \in DOMAIN Slots : s[Slots[k]].scale \in Int

VARIABLES files,      \* the user's files
          settings,   \* cfg_eq_.., cfg_file1_..
          temp,       \* the files made here, by name
          pc, stream, \* m_channels and m_srate
          slot,       \* the slot that is next
          chain,      \* impulse_info: [name, scale] of each
          target,     \* the file being made; the file to be loaded, its scale and
                      \* its number of filter_blocks
          filter,     \* what the filter was loaded with, NONE if nothing
          setUps, events, \* counters
          place,      \* "temp", or "working" while that cannot be created
          faulty,     \* history: a crash or an error of the disk
          disturbed,  \* history: a file was replaced during a set-up
          together,   \* history: two set-ups were under way
          died,       \* history: what the player was ended for by `throw;'
          seen        \* history: what was found or configured since the
                      \* directory was emptied, or is in a file left then

counters == <<setUps, events, place, faulty, disturbed, together, died, seen>>
own == <<pc, stream, slot, chain, target, filter>>
vars == <<files, settings, temp, own, counters>>

-----------------------------------------------------------------------------
(* Files.  `made' is what a file was made of, `parts' the chain it was     *)
(* convolved from, `whole' says that it was written to its end, and        *)
(* `header' that libsndfile can open it.                                   *)

\* boost::filesystem::exists
Exists(name) == name \in FileNames \cup DOMAIN temp

Sound(name) ==
  IF name \in DOMAIN temp THEN temp[name]
  ELSE [channels |-> files[name].channels, rate |-> files[name].rate, data |-> files[name].data,
        made |-> {<<"file", name, files[name].data>>}, parts |-> <<>>, whole |-> TRUE,
        header |-> TRUE]

\* buffer::get_snd_file_params, load_from_snd_file: a file may be there that
\* cannot be opened.
Readable(name) == Exists(name) /\ Sound(name).header

\* buffer::check_snd_file
Fits(name, st) ==
  Readable(name) /\ Sound(name).channels = st.channels /\ Sound(name).rate = st.rate

\* bfir_path::append_temp_path: a name has two parts, the directory and the
\* name in it.
Temp(key) == <<place, key>>

EqName(mag, st) == Temp(<<"eq", mag, st>>)

\* Mutant: not named after the rate.
IrNameAnyRate(name, st) == Temp(<<"ir", name, st.channels>>)

IrName(name, st) == Temp(<<"ir", name, st>>)

\* The hash is given the number of characters for the number of bytes, of
\* which a character has two: it takes the first half of the names.
FileName(names, frames, st) ==
  LET all[j \in 0 .. Len(names)] == IF j = 0 THEN <<>> ELSE all[j - 1] \o names[j]
  IN  Temp(<<"file", SubSeq(all[Len(names)], 1, Len(names)), frames, st>>)

\* What a file that has been opened for writing holds: its header.
Opened(s) == [s EXCEPT !.data = <<>>, !.whole = FALSE]

\* Before the header is written, and when there was no room for it: nothing.
Headless(s) == [s EXCEPT !.data = <<>>, !.whole = FALSE, !.header = FALSE]

\* When the disk is full it keeps what was written, if only the header was.
CutOff(s) == [s EXCEPT !.data = SubSeq(@, 1, Len(@) \div 2), !.whole = FALSE]

Put(name, s) == [n \in DOMAIN temp \cup {name} |-> IF n = name THEN s ELSE temp[n]]

\* src_simple: the ratio is that of the source's rate to the new rate, and no
\* more frames come out than went in.
Resampled(s, st) ==
  LET n == Len(s.data)
      out == (n * s.rate) \div st.rate
  IN  [s EXCEPT !.channels = st.channels, !.rate = st.rate, !.parts = <<>>,
                !.data = [k \in 1 .. (IF out < n THEN out ELSE n) |->
                            s.data[1 + ((k - 1) * st.rate) \div s.rate]]]

Rendered(mag, st) ==
  [channels |-> st.channels, rate |-> st.rate, data |-> Equalized(mag),
   made |-> {<<"eq", mag>>}, parts |-> <<>>, whole |-> TRUE, header |-> TRUE]

Convolved(c, st, frames) ==
  LET parts == [j \in DOMAIN c |->
                  [data |-> Loaded(Sound(c[j].name).data, frames), scale |-> c[j].scale]]
  IN  [channels |-> st.channels, rate |-> st.rate, data |-> Preconvolved(parts, frames),
       made |-> UNION {Sound(c[j].name).made \cup {<<"scale", c[j].scale>>} : j \in DOMAIN c},
       parts |-> parts,
       whole |-> \A j \in DOMAIN c : Sound(c[j].name).whole, header |-> TRUE]

\* All that may be found at a moment.
Facts(f, s) ==
  {<<"file", n, f[n].data>> : n \in FileNames} \cup {<<"eq", s.mag>>}
    \cup {<<"scale", s[x].scale>> : x \in {Slots[k] : k \in DOMAIN Slots}}

-----------------------------------------------------------------------------

Init ==
  /\ files = FirstFiles /\ settings \in Settings /\ temp = <<>>
  /\ pc = [i \in Instances |-> "idle"]
  /\ stream = [i \in Instances |-> NONE]
  /\ slot = [i \in Instances |-> 0]
  /\ chain = [i \in Instances |-> <<>>]
  /\ target = [i \in Instances |-> NONE]
  /\ filter = [i \in Instances |-> NONE]
  /\ setUps = 0 /\ events = 0
  /\ place \in {"temp", "working"}
  /\ faulty = FALSE /\ disturbed = FALSE /\ together = FALSE /\ died = "no"
  /\ seen = Facts(files, settings)

\* Something unforeseen, of which there is a bounded number.
Event == events < MaxEvents /\ events' = events + 1

Busy == {i \in Instances : pc[i] # "idle"}

\* The end of the set-up, and of its variables.
Done(i) ==
  /\ pc' = [pc EXCEPT ![i] = "idle"]
  /\ slot' = [slot EXCEPT ![i] = 0]
  /\ chain' = [chain EXCEPT ![i] = <<>>]
  /\ target' = [target EXCEPT ![i] = NONE]

\* The first chunk of a new DSP object, or one with another number of channels
\* or another rate than the last.
Begin(i, st) ==
  /\ pc[i] = "idle"
  /\ setUps < MaxSetUps /\ setUps' = setUps + 1
  /\ pc' = [pc EXCEPT ![i] = "slots"]
  /\ stream' = [stream EXCEPT ![i] = st]
  /\ slot' = [slot EXCEPT ![i] = 1]
  /\ chain' = [chain EXCEPT ![i] = <<>>]
  /\ target' = [target EXCEPT ![i] = NONE]
  /\ filter' = [filter EXCEPT ![i] = NONE]
  /\ together' = (together \/ Busy # {})
  /\ UNCHANGED <<files, settings, temp, events, place, faulty,
                 disturbed, died, seen>>

\* What the slot calls for: the name of the impulse, and of the file it is to
\* be resampled from if it does not fit.
Wanted(i) ==
  LET s == Slots[slot[i]]  set == settings[s] IN
  IF ~set.enabled THEN [name |-> NONE, from |-> NONE]
  ELSE IF s = "eq" THEN [name |-> EqName(settings.mag, stream[i]), from |-> NONE]
  ELSE IF Fits(set.name, stream[i]) THEN [name |-> set.name, from |-> NONE]
  ELSE IF set.resample THEN [name |-> IrName(set.name, stream[i]), from |-> set.name]
  ELSE [name |-> NONE, from |-> NONE]

AtSlot(i) == pc[i] = "slots" /\ slot[i] <= Len(Slots)

Entry(name, scale) == [name |-> name, scale |-> scale]

SkipSlot(i) ==
  /\ AtSlot(i) /\ Wanted(i).name = NONE
  /\ slot' = [slot EXCEPT ![i] = @ + 1]
  /\ UNCHANGED <<files, settings, temp, pc, stream, chain, target, filter, counters>>

\* The impulse is there, made today or on another day.
TakeSlot(i) ==
  /\ AtSlot(i) /\ Wanted(i).name # NONE /\ Exists(Wanted(i).name)
  /\ chain' = [chain EXCEPT ![i] =
                 Append(@, Entry(Wanted(i).name, settings[Slots[slot[i]]].scale))]
  /\ slot' = [slot EXCEPT ![i] = @ + 1]
  /\ UNCHANGED <<files, settings, temp, pc, stream, target, filter, counters>>

\* It is made; the magnitudes were read before.
MakeSlot(i) ==
  /\ AtSlot(i) /\ Wanted(i).name # NONE /\ ~Exists(Wanted(i).name)
  /\ pc' = [pc EXCEPT ![i] = "making"]
  /\ target' = [target EXCEPT ![i] =
                  [kind |-> IF Wanted(i).from = NONE THEN "eq" ELSE "ir",
                   name |-> Wanted(i).name, from |-> Wanted(i).from, mag |-> settings.mag,
                   sound |-> NONE]]
  /\ UNCHANGED <<files, settings, temp, stream, slot, chain, filter, counters>>

-----------------------------------------------------------------------------
(* convolve_impulses                                                       *)

AtEnd(i) == pc[i] = "slots" /\ slot[i] > Len(Slots)

NoImpulse(i) ==
  /\ AtEnd(i) /\ chain[i] = <<>>
  /\ Done(i)
  /\ UNCHANGED <<files, settings, temp, stream, filter, counters>>

ToLoad(i, name, scale) ==
  /\ pc' = [pc EXCEPT ![i] = "measure"]
  /\ target' = [target EXCEPT ![i] = [name |-> name, scale |-> scale, blocks |-> 0]]

OneImpulse(i) ==
  /\ AtEnd(i) /\ Len(chain[i]) = 1
  /\ ToLoad(i, chain[i][1].name, chain[i][1].scale)
  /\ UNCHANGED <<files, settings, temp, stream, slot, chain, filter, counters>>

\* The parameters found for the j-th impulse.  The result of the query is not
\* tested: what cannot be opened has those of the one before, and the first
\* then has what is on the stack.
Params(i, onStack) ==
  LET p[j \in 0 .. Len(chain[i])] ==
        IF j = 0 THEN onStack
        ELSE IF ~Readable(chain[i][j].name) THEN p[j - 1]
        ELSE LET s == Sound(chain[i][j].name)
             IN  [st |-> [channels |-> s.channels, rate |-> s.rate], frames |-> Len(s.data)]
  IN  p

Agree(p, n) == \A j \in 1 .. n : p[j].st = p[1].st

Frames(p, n) ==
  LET f[j \in 0 .. n] == IF j = 0 THEN 0 ELSE Longer(f[j - 1], p[j].frames) IN f[n]

AllNames(i) == [j \in DOMAIN chain[i] |-> chain[i][j].name]

\* The file is there, or is to be made.
Scan(i, onStack) ==
  LET p == Params(i, onStack)
      n == Len(chain[i])
      name == FileName(AllNames(i), Frames(p, n), p[n].st)
  IN  /\ AtEnd(i) /\ n > 1 /\ Agree(p, n)
      /\ IF Exists(name) THEN ToLoad(i, name, 1)
         ELSE /\ pc' = [pc EXCEPT ![i] = "making"]
              /\ target' = [target EXCEPT ![i] =
                              [kind |-> "chain", name |-> name, st |-> p[n].st,
                               frames |-> Frames(p, n), sound |-> NONE]]
      /\ UNCHANGED <<files, settings, temp, stream, slot, chain, filter, counters>>

\* All DSP objects are gone with the player, and it is started anew.
Restart ==
  /\ pc' = [i \in Instances |-> "idle"]
  /\ stream' = [i \in Instances |-> NONE]
  /\ slot' = [i \in Instances |-> 0]
  /\ chain' = [i \in Instances |-> <<>>]
  /\ target' = [i \in Instances |-> NONE]
  /\ filter' = [i \in Instances |-> NONE]

\* `throw;' with nothing to throw again ends the player, for a file that
\* cannot be opened or for two that do not agree.
Mismatch(i, onStack) ==
  /\ AtEnd(i) /\ Len(chain[i]) > 1 /\ ~Agree(Params(i, onStack), Len(chain[i]))
  /\ Restart
  /\ died' = IF \A j \in DOMAIN chain[i] : Readable(chain[i][j].name)
             THEN "mismatch" ELSE "unreadable"
  /\ UNCHANGED <<files, settings, temp, setUps, events, place, faulty,
                 disturbed, together, seen>>

-----------------------------------------------------------------------------
(* Making a file.                                                          *)

\* The sources can be loaded.
Loadable(i) ==
  LET t == target[i] IN
  IF t.kind = "chain"
  THEN \A j \in DOMAIN chain[i] :
         LET n == chain[i][j].name IN Readable(n) /\ Sound(n).channels = t.st.channels
  ELSE t.kind = "ir" => Readable(t.from) /\ Sound(t.from).channels >= stream[i].channels

Product(i) ==
  LET t == target[i] IN
  IF t.kind = "chain" THEN Convolved(chain[i], t.st, t.frames)
  ELSE IF t.kind = "eq" THEN Rendered(t.mag, stream[i])
  ELSE Resampled(Sound(t.from), stream[i])

\* Where the set-up goes on when the file `name' is there, or is believed to
\* be: its name is used whether or not it was saved.  The scale is read now.
GoOn(i, name) ==
  IF target[i].kind = "chain"
  THEN ToLoad(i, name, 1) /\ UNCHANGED <<slot, chain>>
  ELSE /\ pc' = [pc EXCEPT ![i] = "slots"]
       /\ chain' = [chain EXCEPT ![i] =
                      IF name = NONE THEN @ ELSE Append(@, Entry(name, settings[Slots[slot[i]]].scale))]
       /\ slot' = [slot EXCEPT ![i] = @ + 1]
       /\ UNCHANGED target

\* Mutant: the file is opened before the sources are.
MakeFailsOpened(i) ==
  /\ pc[i] = "making" /\ ~Loadable(i)
  /\ temp' = Put(target[i].name, Opened(Rendered(0, stream[i])))
  /\ GoOn(i, NONE)
  /\ UNCHANGED <<files, settings, stream, filter, counters>>

\* A source is missing or has too few channels: the name is cleared.
MakeFails(i) ==
  /\ pc[i] = "making" /\ ~Loadable(i)
  /\ GoOn(i, NONE)
  /\ UNCHANGED <<files, settings, temp, stream, filter, counters>>

\* The product is worked out and the file opened, which empties it before the
\* header is written.
Open(i) ==
  /\ pc[i] = "making" /\ Loadable(i)
  /\ pc' = [pc EXCEPT ![i] = "saving"]
  /\ target' = [target EXCEPT ![i].sound = Product(i)]
  /\ \E s \in {Headless(Product(i)), Opened(Product(i))} : temp' = Put(target[i].name, s)
  /\ UNCHANGED <<files, settings, stream, slot, chain, filter, counters>>

\* It cannot be created, or not even its header be written: nothing is saved,
\* and nobody told.
OpenFails(i) ==
  /\ pc[i] = "making" /\ Loadable(i)
  /\ Event /\ faulty' = TRUE
  /\ temp' = temp \/ temp' = Put(target[i].name, Headless(Product(i)))
  /\ GoOn(i, target[i].name)
  /\ UNCHANGED <<files, settings, stream, filter, setUps,
                 place, disturbed, together, died, seen>>

Save(i) ==
  /\ pc[i] = "saving"
  /\ temp' = Put(target[i].name, target[i].sound)
  /\ GoOn(i, target[i].name)
  /\ UNCHANGED <<files, settings, stream, filter, counters>>

\* The disk is full: not everything is saved, and nobody told.
SaveFails(i) ==
  /\ pc[i] = "saving"
  /\ Event /\ faulty' = TRUE
  /\ \E s \in {Headless(target[i].sound), CutOff(target[i].sound)} :
       temp' = Put(target[i].name, s)
  /\ GoOn(i, target[i].name)
  /\ UNCHANGED <<files, settings, stream, filter, setUps,
                 place, disturbed, together, died, seen>>

-----------------------------------------------------------------------------
(* Loading the filter.                                                     *)

\* No file name, or the file cannot be opened: no filter.
NoFilter(i) ==
  /\ pc[i] = "measure" /\ (target[i].name = NONE \/ ~Readable(target[i].name))
  /\ Done(i)
  /\ UNCHANGED <<files, settings, temp, stream, filter, counters>>

Measure(i) ==
  /\ pc[i] = "measure" /\ target[i].name # NONE /\ Readable(target[i].name)
  /\ pc' = [pc EXCEPT ![i] = "load"]
  /\ target' = [target EXCEPT ![i].blocks =
                  NextMultiple(Len(Sound(target[i].name).data), FilterLength) \div FilterLength]
  /\ UNCHANGED <<files, settings, temp, stream, slot, chain, filter, counters>>

\* brutefir::set_coeff: a file that does not fit leaves the filter without
\* coefficients.
SetCoeff(i) ==
  LET s == Sound(target[i].name) IN
  /\ pc[i] = "load"
  /\ Done(i)
  /\ filter' = [filter EXCEPT ![i] =
       IF ~Fits(target[i].name, stream[i]) THEN NONE
       ELSE [channels |-> s.channels,
             data |-> Padded([n \in DOMAIN s.data |-> target[i].scale * s.data[n]],
                             target[i].blocks * FilterLength),
             made |-> s.made, whole |-> s.whole]]
  /\ UNCHANGED <<files, settings, temp, stream, counters>>

-----------------------------------------------------------------------------
(* The world around.                                                       *)

Replace(name, s) ==
  /\ Event
  /\ files[name] # s
  /\ files' = [files EXCEPT ![name] = s]
  /\ disturbed' = (disturbed \/ Busy # {})
  /\ seen' = seen \cup Facts(files', settings)
  /\ UNCHANGED <<settings, temp, own, setUps, place, faulty, together, died>>

Change(s) ==
  /\ Event
  /\ settings # s /\ settings' = s
  /\ seen' = seen \cup Facts(files, settings')
  /\ UNCHANGED <<files, temp, own, setUps, place, faulty, disturbed, together, died>>

\* The temporary directory cannot be created, until it can be again.
LoseDirectory ==
  /\ Event
  /\ place = "temp" /\ place' = "working"
  /\ UNCHANGED <<files, settings, temp, own, setUps, faulty, disturbed, together, died, seen>>

FindDirectory ==
  /\ Event
  /\ place = "working" /\ place' = "temp"
  /\ UNCHANGED <<files, settings, temp, own, setUps, faulty, disturbed, together, died, seen>>

Crash ==
  /\ Event /\ faulty' = TRUE
  /\ Busy # {}
  /\ Restart
  /\ UNCHANGED <<files, settings, temp, setUps, place, disturbed,
                 together, died, seen>>

\* Mutant: the files are left.
LeftByNoClean == temp

\* What clean_path leaves: it only removes the temporary directory.
Astray == {n \in DOMAIN temp : n[1] = "working"}
LeftByClean == [n \in Astray |-> temp[n]]

\* on_quit, with the set-ups ended.
Quit ==
  /\ Busy = {}
  /\ Restart /\ temp' = LeftByClean
  /\ seen' = Facts(files, settings) \cup UNION {temp[n].made : n \in Astray}
  /\ UNCHANGED <<files, settings, setUps, events, place, faulty, disturbed,
                 together, died>>

\* clean_path fails, and nobody looks at its result.
QuitUnclean ==
  /\ Busy = {} /\ temp # <<>>
  /\ Event /\ faulty' = TRUE
  /\ Restart
  /\ UNCHANGED <<files, settings, temp, setUps, place, disturbed,
                 together, died, seen>>

OnStack == {[st |-> st, frames |-> 0] : st \in Streams}

Step(i) ==
  \/ \E st \in Streams : Begin(i, st)
  \/ SkipSlot(i) \/ TakeSlot(i) \/ MakeSlot(i)
  \/ NoImpulse(i) \/ OneImpulse(i)
  \/ \E onStack \in OnStack : Scan(i, onStack) \/ Mismatch(i, onStack)
  \/ MakeFails(i) \/ Open(i) \/ OpenFails(i) \/ Save(i) \/ SaveFails(i)
  \/ NoFilter(i) \/ Measure(i) \/ SetCoeff(i)

Next ==
  \/ \E i \in Instances : Step(i)
  \/ \E n \in FileNames, s \in Contents : Replace(n, s)
  \/ \E s \in Settings : Change(s)
  \/ LoseDirectory \/ FindDirectory
  \/ Crash \/ Quit \/ QuitUnclean

Spec == Init /\ [][Next]_vars

-----------------------------------------------------------------------------
(* Properties.                                                             *)

TypeOK ==
  /\ files \in [FileNames -> Contents] /\ settings \in Settings
  /\ pc \in [Instances -> {"idle", "slots", "making", "saving", "measure", "load"}]
  /\ \A i \in Instances :
       /\ stream[i] \in Streams \cup {NONE}
       /\ slot[i] \in 0 .. Len(Slots) + 1 /\ Len(chain[i]) <= Len(Slots)
       /\ filter[i] # NONE => Len(filter[i].data) % FilterLength = 0
  /\ \A n \in DOMAIN temp : n[1] \in {"temp", "working"} /\ temp[n].channels \in Nat \ {0}

\* The filter and the files it may be made of go back to files and settings
\* that were there at some time since the directory was last emptied: a cached
\* file may be out of date, since its name tells neither the scales nor the
\* contents nor the second half of the names.  They go back further only
\* through the files left in the working directory
\* (preprocessor.cpp:89, buffer.cpp:242-256, bfir_path.cpp:136-182,
\* foo_dsp_bfir.cpp:69).
NothingFromBefore ==
  /\ \A n \in DOMAIN temp : temp[n].made \subseteq seen
  /\ \A i \in Instances : filter[i] # NONE => filter[i].made \subseteq seen

\* As long as the player never crashed, the disk was never full and no two
\* set-ups met, no file is left unfinished but the one being written, and no
\* filter is loaded with part of a file (preprocessor.cpp:101, 199,
\* buffer.cpp:256, 300, equalizer.cpp:127).
AloneAllWhole ==
  /\ TypeOK
  /\ ~faulty /\ ~together =>
       /\ \A n \in DOMAIN temp :
            temp[n].whole \/ \E i \in Instances : pc[i] = "saving" /\ target[i].name = n
       /\ \A i \in Instances : filter[i] # NONE => filter[i].whole

\* The file of a chain holds its convolution, as far as the longest impulse
\* reaches and without the last one's scale, if the impulses but the last fit
\* into one block of the filter together and the last is longer than that;
\* else the coefficients are cut and the filter's memory of one impulse runs
\* into the next (preprocessor.cpp:120-197, coeff.cpp:303-338).
RightIfShort ==
  \A n \in DOMAIN temp :
    LET s == temp[n] IN
    s.parts # <<>> /\ s.whole /\ FitsOneBlock(s.parts) =>
      s.data = Padded(Single(s.parts, Len(s.parts) - 1), Len(s.data))

\* Whatever was made for an earlier stream fits the present one: if all files
\* of the chain can be opened, the player is ended by a mismatch only if the
\* user replaced a file during a set-up.  It is ended for a file that cannot be
\* opened only after a crash or an error of the disk, or if another set-up was
\* just about to write it (preprocessor.cpp:63-82, buffer.cpp:124-138,
\* foo_dsp_bfir.cpp:181-192).
DiesOnlyIfDisturbed ==
  /\ died = "mismatch" => disturbed
  /\ died = "unreadable" => faulty \/ together

\* "Convolves a set of impulse responses into a single one"
\* (preprocessor.cpp:25): the file of a chain holds the convolution of its
\* impulses, at their scales, as far as it is long.
ConvolvesIntoOne ==
  \A n \in DOMAIN temp :
    LET s == temp[n] IN
    s.parts # <<>> /\ s.whole => s.data = Padded(Single(s.parts, Len(s.parts)), Len(s.data))

================================================================================

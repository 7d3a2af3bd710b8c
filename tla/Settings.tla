------------------------------- MODULE Settings -------------------------------
(***************************************************************************)
(* The settings that three threads share without a lock: the server's      *)
(* thread sets them for remote commands (connection::handle_command), the  *)
(* UI thread loads and applies the Equalizer and Impulse File pages, and   *)
(* the playback thread reads them when it sets a filter up.                *)
(*                                                                         *)
(* A setting is a pair <<name, n>>, with n the slot of an impulse file or  *)
(* 0 for the equalizer.  Each thread reads or writes one setting at a      *)
(* time, in the order of the code, and the others interleave.  A number is *)
(* written at once.  A string is not: whoever reads it meanwhile may find  *)
(* it GARBLED.  Levels are in the steps of the sliders, and the metadata   *)
(* of a file is known by the file's name.                                  *)
(***************************************************************************)
EXTENDS Integers, Sequences, FiniteSets, SequencesExt

CONSTANTS NSlots,      \* impulse files: 3 in the code
          NBands,      \* bands of the equalizer: 31 in the code
          Top,         \* EQLevelRangeMax and FileLevelRangeMax; the minima are -Top
          FileNames,   \* files whose attenuation can be calculated
          Attenuation, \* Attenuation[f], in steps: the level at which f does not clip
          Requests,    \* numbers a client, a user or a JSON file may ask for
          NONE, GARBLED,
          MaxCommands, \* bound: remote commands
          MaxOpen,     \* bound: pages the user opens
          MaxClicks,   \* bound: what the user does with an open page
          MaxSetUps    \* bound: filters set up

ASSUME SettingsAssumption ==
  /\ NSlots \in Nat /\ NBands \in Nat \ {0} /\ Top \in Nat
  /\ Requests \subseteq Int /\ Attenuation \in [FileNames -> Int]
  /\ {NONE, GARBLED} \cap FileNames = {} /\ NONE # GARBLED
  /\ GARBLED \notin [0 .. NBands - 1 -> Int]

Slots == 1 .. NSlots
Bands == 0 .. NBands - 1
Range0 == -Top .. Top
Mag == <<"mag", 0>>
EqKeys == {<<"enable", 0>>, <<"level", 0>>, Mag}
FileKeys == {"enable", "resample", "level", "filename", "metadata"} \X Slots
Keys == EqKeys \cup FileKeys
PageKeys(page) == IF page = "eq" THEN EqKeys ELSE FileKeys

VARIABLES cfg,    \* the shared settings
          todo,   \* todo[t]: the writes thread t, "cli" or "ui", has still to do
          toRead, \* toRead[t]: the settings t, "ui" or "player", has still to read
          view,   \* what the pages show, and what the player has read
          open,   \* the pages that are open
          commands, clicks, setUps,
          op,     \* history: the operation t is in
          ideal,  \* history: the settings, had each operation been one step at its end
          clash,  \* history: settings that overlapping operations have written
          base,   \* history: ideal when the player's last set-up began
          news    \* history: operations under way during that set-up

shared == <<cfg, todo, toRead, view>>
history == <<op, ideal, clash, base, news>>
counters == <<commands, clicks, setUps>>
vars == <<shared, open, counters, history>>

Default(k) ==
  IF k = Mag THEN [b \in Bands |-> 0]
  ELSE IF k[1] \in {"filename", "metadata"} THEN NONE ELSE 0

Idle == [kind |-> "idle"]

Init ==
  /\ cfg = [k \in Keys |-> Default(k)] /\ ideal = cfg /\ base = cfg
  /\ todo = [t \in {"cli", "ui"} |-> <<>>] /\ toRead = [t \in {"ui", "player"} |-> <<>>]
  /\ view = [t \in {"ui", "player"} |-> cfg]
  /\ open = {} /\ commands = 0 /\ clicks = 0 /\ setUps = 0
  /\ op = [t \in {"cli", "ui"} |-> Idle] /\ clash = {} /\ news = <<>>

-----------------------------------------------------------------------------
(* Operations: what each is, the settings it touches, what it does to them *)
(* as a whole, and the writes it does it with.                             *)

Clamp(v) == IF v < -Top THEN -Top ELSE IF v > Top THEN Top ELSE v

Number(k, v) == [kind |-> "number", key |-> k, to |-> v]
Band(b, v) == [kind |-> "band", band |-> b, to |-> v]
File(n, f) == [kind |-> "file", slot |-> n, name |-> f]
ApplyPage(page) == [kind |-> "apply", page |-> page, shown |-> view["ui"]]
Json(l, m, ok) == [kind |-> "json", level |-> l, mags |-> m, whole |-> ok]

SlotKeys(n) == {<<"filename", n>>, <<"metadata", n>>, <<"level", n>>, <<"enable", n>>}

Touches(o) ==
  IF o.kind = "number" THEN {o.key}
  ELSE IF o.kind = "band" THEN {Mag}
  ELSE IF o.kind = "file" THEN SlotKeys(o.slot)
  ELSE IF o.kind = "apply" THEN PageKeys(o.page)
  ELSE IF o.kind = "json" THEN {<<"level", 0>>, Mag} ELSE {}

FileSetting(f, name) ==
  IF name = "level" THEN IF f = NONE THEN 0 ELSE Attenuation[f]
  ELSE IF name = "enable" THEN IF f = NONE THEN 0 ELSE 1
  ELSE f

Outcome(o, s) ==
  [k \in Keys |->
     IF k \notin Touches(o) THEN s[k]
     ELSE IF o.kind = "number" THEN o.to
     ELSE IF o.kind = "band" THEN [s[k] EXCEPT ![o.band] = o.to]
     ELSE IF o.kind = "file" THEN FileSetting(o.name, k[1])
     ELSE IF o.kind = "apply" THEN o.shown[k]
     ELSE IF k # Mag THEN o.level ELSE IF o.whole THEN o.mags ELSE s[k]]

Write(k, v) == <<[key |-> k, val |-> v]>>

\* cfg_string::set_string()
WriteString(k, v) == Write(k, GARBLED) \o Write(k, v)

WriteSetting(s, k) ==
  IF k = Mag \/ k[1] \in {"filename", "metadata"} THEN WriteString(k, s[k]) ELSE Write(k, s[k])

\* EQM: the magnitudes are read, split, changed in one place, put together
\* and written; a garbled string comes out garbled.  Mutant: without the
\* other bands.
WriteBandAlone(b, v) ==
  WriteString(Mag, IF cfg[Mag] = GARBLED THEN GARBLED ELSE [Default(Mag) EXCEPT ![b] = v])

WriteBand(b, v) ==
  WriteString(Mag, IF cfg[Mag] = GARBLED THEN GARBLED ELSE [cfg[Mag] EXCEPT ![b] = v])

\* FnFN, with the special name or with a file.  Mutant: in another order.
WriteFileEnabledFirst(n, f) ==
  Write(<<"enable", n>>, FileSetting(f, "enable")) \o WriteString(<<"filename", n>>, f)
    \o WriteString(<<"metadata", n>>, f) \o Write(<<"level", n>>, FileSetting(f, "level"))

WriteFile(n, f) ==
  WriteString(<<"filename", n>>, f) \o WriteString(<<"metadata", n>>, f)
    \o Write(<<"level", n>>, FileSetting(f, "level"))
    \o Write(<<"enable", n>>, FileSetting(f, "enable"))

PageOrder(page) ==
  IF page = "eq" THEN <<<<"enable", 0>>, <<"level", 0>>, Mag>>
  ELSE FlattenSeq([i \in 1 .. 5 |->
         [n \in Slots |-> <<<<"enable", "resample", "level", "filename", "metadata">>[i], n>>]])

WritePage(page) ==
  FlattenSeq([i \in DOMAIN PageOrder(page) |-> WriteSetting(view["ui"], PageOrder(page)[i])])

WriteJson(l, m, ok) == Write(<<"level", 0>>, l) \o (IF ok THEN WriteString(Mag, m) ELSE <<>>)

-----------------------------------------------------------------------------
(* Steps of the threads.                                                   *)

Other(t) == IF t = "cli" THEN "ui" ELSE "cli"

Begin(t, o, writes) ==
  /\ todo[t] = <<>>
  /\ todo' = [todo EXCEPT ![t] = writes]
  /\ op' = [op EXCEPT ![t] = o]
  /\ clash' = IF todo[Other(t)] = <<>> THEN clash
              ELSE clash \cup (Touches(o) \cap Touches(op[Other(t)]))
  /\ news' = IF toRead["player"] = <<>> THEN news ELSE Append(news, o)
  /\ UNCHANGED <<cfg, ideal, base, setUps>>

WriteNext(t) ==
  /\ todo[t] # <<>>
  /\ cfg' = [cfg EXCEPT ![Head(todo[t]).key] = Head(todo[t]).val]
  /\ todo' = [todo EXCEPT ![t] = Tail(@)]
  /\ IF Len(todo[t]) > 1 THEN UNCHANGED <<op, ideal>>
     ELSE ideal' = Outcome(op[t], ideal) /\ op' = [op EXCEPT ![t] = Idle]
  /\ UNCHANGED <<toRead, view, open, counters, clash, base, news>>

\* A command that is malformed, or names no usable file, and a query write
\* nothing.
Command(o, writes) ==
  /\ commands < MaxCommands /\ commands' = commands + 1
  /\ Begin("cli", o, writes)
  /\ UNCHANGED <<toRead, view, open, clicks>>

CommandEnable == \E n \in 0 .. NSlots, v \in {0, 1} :
  Command(Number(<<"enable", n>>, v), Write(<<"enable", n>>, v))

CommandLevel == \E n \in 0 .. NSlots, v \in Requests :
  Command(Number(<<"level", n>>, Clamp(v)), Write(<<"level", n>>, Clamp(v)))

CommandBand == \E b \in Bands, v \in Requests :
  Command(Band(b, Clamp(v)), WriteBand(b, Clamp(v)))

CommandFile == \E n \in Slots, f \in FileNames \cup {NONE} :
  Command(File(n, f), WriteFile(n, f))

\* A setting as a page shows it: a slider stays in its range, and shows
\* anything for a garbled number; metadata is shown only with a name.
Shown(k) ==
  IF k = Mag THEN IF cfg[k] = GARBLED THEN [Bands -> Range0] ELSE {[b \in Bands |-> Clamp(cfg[k][b])]}
  ELSE IF k[1] = "level" THEN {Clamp(cfg[k])}
  ELSE IF k[1] = "metadata" /\ view["ui"][<<"filename", k[2]>>] = NONE THEN {NONE}
  ELSE {cfg[k]}

ReadNext(t) ==
  /\ toRead[t] # <<>> /\ (t = "ui" => todo[t] = <<>>)
  /\ LET k == Head(toRead[t])
     IN  \E v \in (IF t = "ui" THEN Shown(k) ELSE {cfg[k]}) : view' = [view EXCEPT ![t][k] = v]
  /\ toRead' = [toRead EXCEPT ![t] = Tail(@)]
  /\ UNCHANGED <<cfg, todo, open, counters, history>>

\* The UI thread is back in its message loop.
Ready == todo["ui"] = <<>> /\ toRead["ui"] = <<>>
Click == Ready /\ clicks < MaxClicks /\ clicks' = clicks + 1

\* OnInitDialog()
Open(page) ==
  /\ Ready /\ page \notin open /\ Cardinality(open) < MaxOpen
  /\ open' = open \cup {page}
  /\ toRead' = [toRead EXCEPT !["ui"] = PageOrder(page)]
  /\ UNCHANGED <<cfg, todo, view, counters, history>>

Show(settings) ==
  /\ view' = [view EXCEPT !["ui"] = settings]
  /\ UNCHANGED <<cfg, todo, open, commands, setUps, history>>

\* A check box or a slider is moved.
Edit == \E k \in Keys :
  /\ Click /\ \E page \in open : k \in PageKeys(page)
  /\ \/ k[1] \in {"enable", "resample"} /\ Show([view["ui"] EXCEPT ![k] = 1 - @])
     \/ k[1] = "level" /\ \E v \in Requests : Show([view["ui"] EXCEPT ![k] = Clamp(v)])
     \/ k = Mag /\ \E b \in Bands, v \in Requests : Show([view["ui"] EXCEPT ![k][b] = Clamp(v)])
  /\ UNCHANGED toRead

\* prefs_file::LoadFile() for slot n moves the slider of slot 1.
Browse == \E n \in Slots, f \in FileNames :
  /\ Click /\ "file" \in open
  /\ Show([view["ui"] EXCEPT ![<<"filename", n>>] = f, ![<<"metadata", n>>] = f,
                              ![<<"enable", n>>] = 1, ![<<"level", 1>>] = Clamp(Attenuation[f])])
  /\ UNCHANGED toRead

\* reset(): the magnitudes are loaded from the settings.
ResetPage(page) ==
  /\ Click /\ page \in open
  /\ Show([k \in Keys |->
             IF k \in PageKeys(page) \ {Mag} THEN Default(k) ELSE view["ui"][k]])
  /\ toRead' = [toRead EXCEPT !["ui"] = IF page = "eq" THEN <<Mag>> ELSE <<>>]

Apply(page) ==
  /\ Click /\ page \in open
  /\ Begin("ui", ApplyPage(page), WritePage(page))
  /\ UNCHANGED <<toRead, view, open, commands>>

\* prefs_eq::LoadFile(): ReadJson(), which may fail after the level, and
\* LoadSettings().
LoadJson == \E v \in Requests, ok \in BOOLEAN :
  LET m == [b \in Bands |-> v] IN
    /\ Click /\ "eq" \in open
    /\ Begin("ui", Json(v, m, ok), WriteJson(v, m, ok))
    /\ toRead' = [toRead EXCEPT !["ui"] = IF ok THEN PageOrder("eq") ELSE <<>>]
    /\ UNCHANGED <<view, open, commands>>

\* on_chunk() with a new format.  That a level is read only for a file that
\* is enabled, and so on, makes no difference to what is used.
SetUpOrder ==
  <<<<"enable", 0>>, Mag, <<"level", 0>>>>
    \o FlattenSeq([n \in Slots |->
         [i \in 1 .. 4 |-> <<<<"filename", "enable", "resample", "level">>[i], n>>]])

UnderWay(t) == IF todo[t] = <<>> THEN <<>> ELSE <<op[t]>>

SetUp ==
  /\ toRead["player"] = <<>>
  /\ setUps < MaxSetUps /\ setUps' = setUps + 1
  /\ toRead' = [toRead EXCEPT !["player"] = SetUpOrder]
  /\ base' = ideal
  /\ news' = UnderWay("cli") \o UnderWay("ui")
  /\ UNCHANGED <<cfg, todo, view, open, commands, clicks, op, ideal, clash>>

Next ==
  \/ CommandEnable \/ CommandLevel \/ CommandBand \/ CommandFile
  \/ \E t \in {"cli", "ui"} : WriteNext(t)
  \/ \E t \in {"ui", "player"} : ReadNext(t)
  \/ \E page \in {"eq", "file"} : Open(page) \/ ResetPage(page) \/ Apply(page)
  \/ Edit \/ Browse \/ LoadJson
  \/ SetUp

Spec == Init /\ [][Next]_vars

-----------------------------------------------------------------------------
(* Properties.                                                             *)

Valid(k, v) ==
  IF k = Mag THEN v = GARBLED \/ v \in [Bands -> Int]
  ELSE IF k[1] \in {"filename", "metadata"} THEN v \in FileNames \cup {NONE, GARBLED}
  ELSE v \in Int

\* Every setting holds a value of its kind, and the sliders of the pages
\* stay in their range, whatever was loaded.
TypeOK ==
  /\ \A k \in Keys : Valid(k, cfg[k]) /\ Valid(k, view["player"][k]) /\ Valid(k, view["ui"][k])
  /\ \A n \in 0 .. NSlots : view["ui"][<<"level", n>>] \in Range0
  /\ view["ui"][Mag] \in [Bands -> Range0]
  /\ open \subseteq {"eq", "file"} /\ clash \subseteq Keys

Writing(k) == \E t \in {"cli", "ui"} : todo[t] # <<>> /\ k \in Touches(op[t])

\* Operations that overlap without having a setting in common do not
\* disturb each other, and those that do not overlap take effect one after
\* the other: a setting that was never written by two at once is what it
\* would be had each been one step (connection.cpp:66-489,
\* prefs_eq.cpp:482-521, 563-583, prefs_file.cpp:249-286).
AsIfOneByOne ==
  /\ TypeOK
  /\ \A k \in Keys \ clash : ~Writing(k) => cfg[k] = ideal[k]

\* The name and level with which the player uses slot n.
Uses(n) == view["player"][<<"filename", n>>] \in FileNames /\ view["player"][<<"enable", n>>] # 0
Used(n) == <<view["player"][<<"filename", n>>], view["player"][<<"level", n>>]>>

\* The operations of that set-up that concern slot n.
NewsOf(n) == {i \in DOMAIN news : Touches(news[i]) \cap SlotKeys(n) # {}}

\* A file is put into an empty slot as a whole, although its name, level
\* and enable are written and read one by one: a set-up that falls into the
\* middle leaves the slot out or uses the file with the level that was set
\* with it (connection.cpp:340-343, prefs_file.cpp:251-273,
\* foo_dsp_bfir.cpp:177-198).
PublishedWhole ==
  toRead["player"] = <<>> =>
    \A n \in Slots, i \in DOMAIN news :
      /\ base[<<"enable", n>>] = 0 /\ base[<<"filename", n>>] = NONE
      /\ SlotKeys(n) \cap clash = {} /\ NewsOf(n) = {i} /\ Uses(n)
      => LET s == Outcome(news[i], base)
         IN  Used(n) = <<s[<<"filename", n>>], s[<<"level", n>>]>>

=============================================================================

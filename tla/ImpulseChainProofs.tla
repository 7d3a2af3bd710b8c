--------------------------- MODULE ImpulseChainProofs ---------------------------
(***************************************************************************)
(* The files the set-ups make, for any number of DSP objects,              *)
(* slots, files, settings and streams: what they are made of, that they    *)
(* fit what they are named after, that they are whole, and what the        *)
(* convolved chain holds.                                                  *)
(***************************************************************************)
EXTENDS ImpulseChain, WellFoundedInduction, TLAPS

\* A sequence, and a function, of whatever it holds.
IsSequence(s) == s \in Seq({s[j] : j \in DOMAIN s})
IsFunction(f, S) == f = [x \in S |-> f[x]]

\* A sound that is made of what is known.
MadeKnown(s) == "made" \in DOMAIN s /\ s.made \subseteq seen

\* The scales of the chain were configured at some time.
ChainKnown(i) ==
  /\ IsSequence(chain[i])
  /\ \A j \in DOMAIN chain[i] : <<"scale", chain[i][j].scale>> \in seen

\* So was what the file that is being made goes back to.
TargetKnown(i) ==
  /\ pc[i] = "slots" => slot[i] \in Nat \ {0}
  /\ pc[i] \in {"making", "saving"} =>
       /\ slot[i] \in Nat
       /\ {"kind", "sound"} \subseteq DOMAIN target[i]
       /\ target[i].kind \in {"chain", "eq", "ir"}
       /\ target[i].kind # "chain" => slot[i] # 0 /\ slot[i] <= Len(Slots)
  /\ pc[i] = "making" /\ target[i].kind = "eq" => <<"eq", target[i].mag>> \in seen
  /\ pc[i] = "saving" => MadeKnown(target[i].sound)

FilterKnown(i) == filter[i] # NONE => filter[i].made \subseteq seen

Known(i) == ChainKnown(i) /\ TargetKnown(i) /\ FilterKnown(i)

FilesKnown ==
  /\ Facts(files, settings) \subseteq seen
  /\ \A n \in DOMAIN temp : MadeKnown(temp[n])

Functions ==
  /\ IsFunction(pc, Instances) /\ IsFunction(slot, Instances) /\ IsFunction(chain, Instances)
  /\ IsFunction(target, Instances) /\ IsFunction(filter, Instances)

\* The inductive invariant.
MadeInv == Functions /\ FilesKnown /\ \A i \in Instances : Known(i)

-----------------------------------------------------------------------------
(* Sequences, functions and sounds.                                        *)

LEMMA EmptySequence == IsSequence(<<>>)
BY DEF IsSequence

LEMMA AppendKeeps ==
  ASSUME NEW s, IsSequence(s), NEW e
  PROVE  /\ IsSequence(Append(s, e))
         /\ \A j \in DOMAIN Append(s, e) :
              Append(s, e)[j] = e \/ \E k \in DOMAIN s : Append(s, e)[j] = s[k]
<1> DEFINE T == {s[j] : j \in DOMAIN s} \cup {e}
           t == Append(s, e)
<1>1. s \in Seq(T) /\ e \in T
  BY DEF IsSequence
<1>2. t \in Seq(T) /\ Len(t) = Len(s) + 1 /\ Len(s) \in Nat
  BY <1>1
<1>3. \A j \in DOMAIN t : t[j] = IF j <= Len(s) THEN s[j] ELSE e
  BY <1>1, <1>2
<1>4. DOMAIN t = 1 .. Len(t) /\ DOMAIN s = 1 .. Len(s)
  BY <1>1, <1>2
<1>5. ASSUME NEW j \in DOMAIN t
      PROVE  t[j] = e \/ \E k \in DOMAIN s : t[j] = s[k]
  BY <1>2, <1>3, <1>4
<1>6. IsSequence(t)
  <2> DEFINE U == {t[j] : j \in DOMAIN t}
  <2>1. \A j \in 1 .. Len(t) : t[j] \in U
    BY <1>4
  <2>2. t \in Seq(U)
    BY <1>2, <2>1
  <2> QED BY <2>2 DEF IsSequence
<1> QED BY <1>5, <1>6

LEMMA FunctionExcept ==
  ASSUME NEW S, NEW f, IsFunction(f, S), NEW i \in S, NEW v
  PROVE  /\ IsFunction([f EXCEPT ![i] = v], S)
         /\ [f EXCEPT ![i] = v][i] = v
         /\ \A k \in S : k # i => [f EXCEPT ![i] = v][k] = f[k]
BY DEF IsFunction

\* What can be loaded is made of what is known.
LEMMA SoundKnown ==
  ASSUME FilesKnown, NEW n, Exists(n)
  PROVE  MadeKnown(Sound(n))
<1>1. CASE n \in DOMAIN temp
  BY <1>1 DEF FilesKnown, Sound
<1>2. CASE n \notin DOMAIN temp
  <2>1. n \in FileNames
    BY <1>2 DEF Exists
  <2>2. <<"file", n, files[n].data>> \in seen
    BY <2>1 DEF FilesKnown, Facts
  <2>3. Sound(n).made = {<<"file", n, files[n].data>>} /\ "made" \in DOMAIN Sound(n)
    BY <1>2 DEF Sound
  <2> QED BY <2>2, <2>3 DEF MadeKnown
<1> QED BY <1>1, <1>2

\* A file that is written adds nothing unknown.
LEMMA PutKeeps ==
  ASSUME FilesKnown, NEW name, NEW s, MadeKnown(s), temp' = Put(name, s),
         UNCHANGED <<files, settings, seen>>
  PROVE  FilesKnown'
<1>1. \A n \in DOMAIN temp' : temp'[n] = s \/ (n \in DOMAIN temp /\ temp'[n] = temp[n])
  BY DEF Put
<1> QED BY <1>1 DEF FilesKnown, MadeKnown

\* What the set-up has not touched stays known.
LEMMA KnownStays ==
  ASSUME NEW k \in Instances, Known(k), seen \subseteq seen',
         pc'[k] = pc[k], slot'[k] = slot[k], chain'[k] = chain[k],
         target'[k] = target[k], filter'[k] = filter[k]
  PROVE  Known(k)'
<1>1. ChainKnown(k)'
  BY DEF Known, ChainKnown
<1>2. TargetKnown(k)'
  BY DEF Known, TargetKnown, MadeKnown
<1>3. FilterKnown(k)'
  BY DEF Known, FilterKnown
<1> QED BY <1>1, <1>2, <1>3 DEF Known

-----------------------------------------------------------------------------
(* The set-up of one DSP object.                                           *)

LEMMA Domains ==
  ASSUME MadeInv
  PROVE  /\ DOMAIN pc = Instances /\ DOMAIN slot = Instances /\ DOMAIN chain = Instances
         /\ DOMAIN target = Instances /\ DOMAIN filter = Instances
BY DEF MadeInv, Functions, IsFunction

\* It suffices to look at the object whose turn it is.
LEMMA OneKnown ==
  ASSUME MadeInv, FilesKnown', NEW i \in Instances, seen \subseteq seen',
         NEW p, NEW s, NEW c, NEW t, NEW f,
         pc' = [pc EXCEPT ![i] = p], slot' = [slot EXCEPT ![i] = s],
         chain' = [chain EXCEPT ![i] = c], target' = [target EXCEPT ![i] = t],
         filter' = [filter EXCEPT ![i] = f],
         Known(i)'
  PROVE  MadeInv'
<1>1. Functions
  BY DEF MadeInv
<1>2. Functions'
  BY <1>1, FunctionExcept DEF Functions
<1>3. ASSUME NEW k \in Instances, k # i
      PROVE  Known(k)'
  <2>1. pc'[k] = pc[k] /\ slot'[k] = slot[k] /\ chain'[k] = chain[k]
    BY <1>1, <1>3, FunctionExcept DEF Functions
  <2>2. target'[k] = target[k] /\ filter'[k] = filter[k]
    BY <1>1, <1>3, FunctionExcept DEF Functions
  <2> QED BY <2>1, <2>2, KnownStays DEF MadeInv
<1> QED BY <1>2, <1>3 DEF MadeInv

\* A variable that is left alone.
LEMMA FunctionSame ==
  ASSUME NEW S, NEW f, IsFunction(f, S), NEW i \in S
  PROVE  f = [f EXCEPT ![i] = f[i]]
BY DEF IsFunction

LEMMA SameFacts ==
  ASSUME FilesKnown, UNCHANGED <<files, settings, temp, seen>>
  PROVE  FilesKnown'
BY DEF FilesKnown, Facts, MadeKnown

LEMMA BeginKeeps ==
  ASSUME MadeInv, NEW i \in Instances, NEW st \in Streams, Begin(i, st)
  PROVE  MadeInv'
<1>1. FilesKnown'
  BY SameFacts DEF Begin, MadeInv
<1>2. pc'[i] = "slots" /\ slot'[i] = 1 /\ chain'[i] = <<>> /\ filter'[i] = NONE
  BY Domains DEF Begin
<1>3. Known(i)'
  BY <1>2, EmptySequence DEF Known, ChainKnown, TargetKnown, FilterKnown
<1> QED BY <1>1, <1>3, OneKnown DEF Begin

\* The end of a set-up leaves nothing but the filter.
LEMMA DoneKeeps ==
  ASSUME MadeInv, NEW i \in Instances, Done(i), UNCHANGED <<files, settings, temp, seen>>,
         NEW f, filter' = [filter EXCEPT ![i] = f], f # NONE => f.made \subseteq seen
  PROVE  MadeInv'
<1>1. FilesKnown'
  BY SameFacts DEF MadeInv
<1>2. pc'[i] = "idle" /\ chain'[i] = <<>> /\ filter'[i] = f
  BY Domains DEF Done
<1>3. Known(i)'
  BY <1>2, EmptySequence DEF Known, ChainKnown, TargetKnown, FilterKnown
<1> QED BY <1>1, <1>3, OneKnown DEF Done

\* A slot's scale is among what is configured.
LEMMA ScaleKnown ==
  ASSUME FilesKnown, NEW i \in Instances, slot[i] \in Nat \ {0}, slot[i] <= Len(Slots)
  PROVE  <<"scale", settings[Slots[slot[i]]].scale>> \in seen
<1>1. slot[i] \in DOMAIN Slots
  BY SlotsAssumption
<1> QED BY <1>1 DEF FilesKnown, Facts

LEMMA SkipKeeps ==
  ASSUME MadeInv, NEW i \in Instances, SkipSlot(i)
  PROVE  MadeInv'
<1>1. FilesKnown'
  BY SameFacts DEF SkipSlot, MadeInv, counters
<1>2. /\ pc[i] = "slots" /\ pc'[i] = "slots" /\ slot'[i] = slot[i] + 1
      /\ chain'[i] = chain[i] /\ filter'[i] = filter[i] /\ seen' = seen
  BY Domains DEF SkipSlot, AtSlot, counters
<1>3. Known(i)
  BY DEF MadeInv
<1>4. Known(i)'
  BY <1>2, <1>3 DEF Known, ChainKnown, TargetKnown, FilterKnown
<1>5. /\ pc' = [pc EXCEPT ![i] = pc[i]] /\ chain' = [chain EXCEPT ![i] = chain[i]]
      /\ target' = [target EXCEPT ![i] = target[i]] /\ filter' = [filter EXCEPT ![i] = filter[i]]
  BY FunctionSame DEF SkipSlot, MadeInv, Functions
<1>6. slot' = [slot EXCEPT ![i] = slot[i] + 1]
  BY DEF SkipSlot
<1> QED BY <1>1, <1>2, <1>4, <1>5, <1>6, OneKnown

\* An entry with a known scale may be put at the end of the chain.
LEMMA EntryKnown ==
  ASSUME NEW i \in Instances, ChainKnown(i), NEW name, NEW scale, <<"scale", scale>> \in seen,
         chain'[i] = Append(chain[i], Entry(name, scale)), seen' = seen
  PROVE  ChainKnown(i)'
<1> DEFINE e == Entry(name, scale)
<1>1. e.scale = scale
  BY DEF Entry
<1>2. /\ IsSequence(Append(chain[i], e))
      /\ \A j \in DOMAIN Append(chain[i], e) :
           Append(chain[i], e)[j] = e \/ \E k \in DOMAIN chain[i] : Append(chain[i], e)[j] = chain[i][k]
  BY AppendKeeps DEF ChainKnown
<1> HIDE DEF e
<1>3. \A j \in DOMAIN Append(chain[i], e) : <<"scale", Append(chain[i], e)[j].scale>> \in seen
  BY <1>1, <1>2 DEF ChainKnown
<1>4. chain'[i] = Append(chain[i], e)
  BY DEF e
<1> QED BY <1>2, <1>3, <1>4 DEF ChainKnown

LEMMA TakeKeeps ==
  ASSUME MadeInv, NEW i \in Instances, TakeSlot(i)
  PROVE  MadeInv'
<1> DEFINE scale == settings[Slots[slot[i]]].scale
           c == Append(chain[i], Entry(Wanted(i).name, scale))
<1>1. FilesKnown /\ FilesKnown'
  BY SameFacts DEF TakeSlot, MadeInv, counters
<1>2. pc[i] = "slots" /\ slot[i] <= Len(Slots) /\ seen' = seen
  BY DEF TakeSlot, AtSlot, counters
<1>3. Known(i)
  BY DEF MadeInv
<1>4. slot[i] \in Nat \ {0}
  BY <1>2, <1>3 DEF Known, TargetKnown
<1>5. <<"scale", scale>> \in seen
  BY <1>1, <1>2, <1>4, ScaleKnown
<1>6. chain' = [chain EXCEPT ![i] = c] /\ slot' = [slot EXCEPT ![i] = slot[i] + 1]
  BY DEF TakeSlot
<1>7. /\ pc' = [pc EXCEPT ![i] = pc[i]]
      /\ target' = [target EXCEPT ![i] = target[i]] /\ filter' = [filter EXCEPT ![i] = filter[i]]
  BY FunctionSame DEF TakeSlot, MadeInv, Functions
<1>8. chain'[i] = c /\ slot'[i] = slot[i] + 1
  BY <1>6, Domains
<1>9. ChainKnown(i)'
  BY <1>2, <1>3, <1>5, <1>8, EntryKnown DEF Known
<1>10. pc'[i] = pc[i] /\ filter'[i] = filter[i]
  BY DEF TakeSlot
<1>11. TargetKnown(i)' /\ FilterKnown(i)'
  BY <1>2, <1>3, <1>4, <1>8, <1>10 DEF Known, TargetKnown, FilterKnown
<1>12. Known(i)'
  BY <1>9, <1>11 DEF Known
<1> QED BY <1>1, <1>2, <1>6, <1>7, <1>12, OneKnown

LEMMA MakeKeeps ==
  ASSUME MadeInv, NEW i \in Instances, MakeSlot(i)
  PROVE  MadeInv'
<1> DEFINE t == [kind |-> IF Wanted(i).from = NONE THEN "eq" ELSE "ir",
                 name |-> Wanted(i).name, from |-> Wanted(i).from, mag |-> settings.mag,
                 sound |-> NONE]
<1>1. FilesKnown /\ FilesKnown'
  BY SameFacts DEF MakeSlot, MadeInv, counters
<1>2. pc[i] = "slots" /\ slot[i] <= Len(Slots) /\ seen' = seen
  BY DEF MakeSlot, AtSlot, counters
<1>3. Known(i)
  BY DEF MadeInv
<1>4. slot[i] \in Nat \ {0}
  BY <1>2, <1>3 DEF Known, TargetKnown
<1>6. <<"eq", settings.mag>> \in seen
  BY <1>1 DEF FilesKnown, Facts
<1>7. pc' = [pc EXCEPT ![i] = "making"] /\ target' = [target EXCEPT ![i] = t]
  BY DEF MakeSlot
<1>8. /\ slot' = [slot EXCEPT ![i] = slot[i]] /\ chain' = [chain EXCEPT ![i] = chain[i]]
      /\ filter' = [filter EXCEPT ![i] = filter[i]]
  BY FunctionSame DEF MakeSlot, MadeInv, Functions
<1>9. pc'[i] = "making" /\ target'[i] = t
  BY <1>7, Domains
<1>10. chain'[i] = chain[i] /\ filter'[i] = filter[i] /\ slot'[i] = slot[i]
  BY DEF MakeSlot
<1>11. /\ {"kind", "sound"} \subseteq DOMAIN t /\ t.mag = settings.mag
       /\ t.kind \in {"chain", "eq", "ir"}
  OBVIOUS
<1> HIDE DEF t
<1>12. TargetKnown(i)'
  BY <1>2, <1>4, <1>6, <1>9, <1>10, <1>11 DEF TargetKnown
<1>13. Known(i)'
  BY <1>2, <1>3, <1>10, <1>12 DEF Known, ChainKnown, FilterKnown
<1> QED BY <1>1, <1>2, <1>7, <1>8, <1>13, OneKnown

\* On the way to the load nothing is remembered but names.
LEMMA LoadKeeps ==
  ASSUME MadeInv, FilesKnown', NEW i \in Instances, NEW t, NEW p, p \notin {"slots", "making", "saving"},
         pc' = [pc EXCEPT ![i] = p], target' = [target EXCEPT ![i] = t],
         UNCHANGED <<slot, chain, filter, seen>>
  PROVE  MadeInv'
<1>1. /\ slot' = [slot EXCEPT ![i] = slot[i]] /\ chain' = [chain EXCEPT ![i] = chain[i]]
      /\ filter' = [filter EXCEPT ![i] = filter[i]]
  BY FunctionSame DEF MadeInv, Functions
<1>2. pc'[i] = p /\ chain'[i] = chain[i] /\ filter'[i] = filter[i]
  BY Domains
<1>3. Known(i)
  BY DEF MadeInv
<1>4. ChainKnown(i)' /\ FilterKnown(i)'
  BY <1>2, <1>3 DEF Known, ChainKnown, FilterKnown
<1>5. TargetKnown(i)'
  BY <1>2 DEF TargetKnown
<1>6. Known(i)'
  BY <1>4, <1>5 DEF Known
<1> QED BY <1>1, <1>6, OneKnown

\* The set-up goes on when the file is there, or is given up.
LEMMA GoOnKeeps ==
  ASSUME MadeInv, FilesKnown', NEW i \in Instances, pc[i] \in {"making", "saving"},
         NEW name, GoOn(i, name), UNCHANGED <<filter, seen>>
  PROVE  MadeInv'
<1>1. CASE target[i].kind = "chain"
  BY <1>1, LoadKeeps DEF GoOn, ToLoad
<1>2. CASE target[i].kind # "chain"
  <2> DEFINE c == IF name = NONE THEN chain[i]
                  ELSE Append(chain[i], Entry(name, settings[Slots[slot[i]]].scale))
  <2>1. /\ pc' = [pc EXCEPT ![i] = "slots"] /\ slot' = [slot EXCEPT ![i] = slot[i] + 1]
        /\ chain' = [chain EXCEPT ![i] = c] /\ target' = target
    BY <1>2 DEF GoOn
  <2>2. /\ target' = [target EXCEPT ![i] = target[i]] /\ filter' = [filter EXCEPT ![i] = filter[i]]
    BY <2>1, FunctionSame DEF MadeInv, Functions
  <2>3. /\ pc'[i] = "slots" /\ slot'[i] = slot[i] + 1 /\ chain'[i] = c
        /\ filter'[i] = filter[i]
    BY <2>1, Domains
  <2>4. Known(i)
    BY DEF MadeInv
  <2>5. slot[i] \in Nat /\ <<"scale", settings[Slots[slot[i]]].scale>> \in seen
    BY <1>2, <2>4, ScaleKnown DEF Known, TargetKnown, MadeInv
  <2>6. ChainKnown(i)'
    <3>1. CASE name = NONE
      BY <2>3, <2>4, <3>1 DEF Known, ChainKnown
    <3>2. CASE name # NONE
      BY <2>3, <2>4, <2>5, <3>2, EntryKnown DEF Known
    <3> QED BY <3>1, <3>2
  <2>7. TargetKnown(i)'
    BY <2>3, <2>5 DEF TargetKnown
  <2>8. FilterKnown(i)'
    BY <2>3, <2>4 DEF Known, FilterKnown
  <2>9. Known(i)'
    BY <2>6, <2>7, <2>8 DEF Known
  <2> HIDE DEF c
  <2> QED BY <2>1, <2>2, <2>9, OneKnown
<1> QED BY <1>1, <1>2

\* What is made is made of what is known.
LEMMA ProductKnown ==
  ASSUME MadeInv, NEW i \in Instances, pc[i] = "making", Loadable(i)
  PROVE  MadeKnown(Product(i))
<1>1. FilesKnown /\ Known(i)
  BY DEF MadeInv
<1>2. CASE target[i].kind = "chain"
  <2> DEFINE M(j) == Sound(chain[i][j].name).made \cup {<<"scale", chain[i][j].scale>>}
  <2>1. Product(i).made = UNION {M(j) : j \in DOMAIN chain[i]} /\ "made" \in DOMAIN Product(i)
    BY <1>2 DEF Product, Convolved
  <2>2. ASSUME NEW j \in DOMAIN chain[i]
        PROVE  M(j) \subseteq seen
    <3>1. Exists(chain[i][j].name)
      BY <1>2 DEF Loadable, Readable
    <3>2. Sound(chain[i][j].name).made \subseteq seen
      BY <1>1, <3>1, SoundKnown DEF MadeKnown
    <3>3. <<"scale", chain[i][j].scale>> \in seen
      BY <1>1 DEF Known, ChainKnown
    <3> QED BY <3>2, <3>3
  <2> QED BY <2>1, <2>2 DEF MadeKnown
<1>3. CASE target[i].kind = "eq"
  <2>1. Product(i).made = {<<"eq", target[i].mag>>} /\ "made" \in DOMAIN Product(i)
    BY <1>3 DEF Product, Rendered
  <2>2. <<"eq", target[i].mag>> \in seen
    BY <1>1, <1>3 DEF Known, TargetKnown
  <2> QED BY <2>1, <2>2 DEF MadeKnown
<1>4. CASE target[i].kind = "ir"
  <2>1. MadeKnown(Sound(target[i].from))
    BY <1>1, <1>4, SoundKnown DEF Loadable, Readable
  <2>2. Product(i) = Resampled(Sound(target[i].from), stream[i])
    BY <1>4 DEF Product
  <2>3. ASSUME NEW r, MadeKnown(r), NEW st
        PROVE  MadeKnown(Resampled(r, st))
    BY <2>3 DEF Resampled, MadeKnown
  <2> QED BY <2>1, <2>2, <2>3
<1> QED BY <1>1, <1>2, <1>3, <1>4 DEF Known, TargetKnown

LEMMA ShortenedKnown ==
  ASSUME NEW s, MadeKnown(s)
  PROVE  MadeKnown(Opened(s)) /\ MadeKnown(Headless(s)) /\ MadeKnown(CutOff(s))
BY DEF MadeKnown, Opened, Headless, CutOff

LEMMA OpenKeeps ==
  ASSUME MadeInv, NEW i \in Instances, Open(i)
  PROVE  MadeInv'
<1> DEFINE t == [target[i] EXCEPT !.sound = Product(i)]
<1>1. pc[i] = "making" /\ Known(i) /\ FilesKnown /\ MadeKnown(Product(i))
  BY ProductKnown DEF Open, MadeInv
<1>2. /\ UNCHANGED <<files, settings, seen>>
      /\ \E s \in {Headless(Product(i)), Opened(Product(i))} : temp' = Put(target[i].name, s)
  BY DEF Open, counters
<1>3. FilesKnown'
  BY <1>1, <1>2, ShortenedKnown, PutKeeps
<1>4. pc' = [pc EXCEPT ![i] = "saving"] /\ target' = [target EXCEPT ![i] = t]
  BY DEF Open
<1>5. /\ slot' = [slot EXCEPT ![i] = slot[i]] /\ chain' = [chain EXCEPT ![i] = chain[i]]
      /\ filter' = [filter EXCEPT ![i] = filter[i]]
  BY FunctionSame DEF Open, MadeInv, Functions
<1>6. pc'[i] = "saving" /\ target'[i] = t
  BY <1>4, Domains
<1>7. slot'[i] = slot[i] /\ chain'[i] = chain[i] /\ filter'[i] = filter[i]
  BY DEF Open
<1>8. /\ slot[i] \in Nat /\ {"kind", "sound"} \subseteq DOMAIN target[i]
      /\ target[i].kind \in {"chain", "eq", "ir"}
      /\ target[i].kind # "chain" => slot[i] # 0 /\ slot[i] <= Len(Slots)
  BY <1>1 DEF Known, TargetKnown
<1>9. DOMAIN t = DOMAIN target[i] /\ t.sound = Product(i)
  BY <1>8
<1>10. t.kind = target[i].kind
  BY <1>8
<1> HIDE DEF t
<1>11. TargetKnown(i)'
  BY <1>1, <1>2, <1>6, <1>7, <1>8, <1>9, <1>10 DEF TargetKnown, MadeKnown
<1>12. Known(i)'
  BY <1>1, <1>2, <1>7, <1>11 DEF Known, ChainKnown, FilterKnown
<1> QED BY <1>2, <1>3, <1>4, <1>5, <1>12, OneKnown

LEMMA SaveKeeps ==
  ASSUME MadeInv, NEW i \in Instances, Save(i) \/ SaveFails(i)
  PROVE  MadeInv'
<1>1. pc[i] = "saving" /\ Known(i) /\ FilesKnown
  BY DEF Save, SaveFails, MadeInv
<1>2. \A s \in {target[i].sound, Headless(target[i].sound), CutOff(target[i].sound)} : MadeKnown(s)
  BY <1>1, ShortenedKnown DEF Known, TargetKnown
<1>3. /\ UNCHANGED <<files, settings, filter, seen>> /\ GoOn(i, target[i].name)
      /\ \E s \in {target[i].sound, Headless(target[i].sound), CutOff(target[i].sound)} :
           temp' = Put(target[i].name, s)
  BY DEF Save, SaveFails, counters
<1>4. FilesKnown'
  BY <1>1, <1>2, <1>3, PutKeeps
<1> QED BY <1>1, <1>3, <1>4, GoOnKeeps

LEMMA GiveUpKeeps ==
  ASSUME MadeInv, NEW i \in Instances, MakeFails(i) \/ OpenFails(i)
  PROVE  MadeInv'
<1>1. pc[i] = "making" /\ FilesKnown
  BY DEF MakeFails, OpenFails, MadeInv
<1>2. /\ UNCHANGED <<files, settings, filter, seen>>
      /\ \E name \in {NONE, target[i].name} : GoOn(i, name)
  BY DEF MakeFails, OpenFails, counters
<1>3. FilesKnown'
  <2>1. CASE temp' = temp
    BY <1>1, <1>2, <2>1, SameFacts
  <2>2. CASE OpenFails(i) /\ temp' = Put(target[i].name, Headless(Product(i)))
    <3>1. MadeKnown(Headless(Product(i)))
      BY <2>2, ProductKnown, ShortenedKnown DEF OpenFails
    <3> QED BY <1>1, <1>2, <2>2, <3>1, PutKeeps
  <2> QED BY <2>1, <2>2 DEF MakeFails, OpenFails
<1> QED BY <1>1, <1>2, <1>3, GoOnKeeps

LEMMA ScanKeeps ==
  ASSUME MadeInv, NEW i \in Instances, NEW onStack, Scan(i, onStack)
  PROVE  MadeInv'
<1> DEFINE p == Params(i, onStack)
           n == Len(chain[i])
           name == FileName(AllNames(i), Frames(p, n), p[n].st)
           t == [kind |-> "chain", name |-> name, st |-> p[n].st,
                 frames |-> Frames(p, n), sound |-> NONE]
<1>1. FilesKnown /\ FilesKnown' /\ UNCHANGED <<slot, chain, filter, seen>>
  BY SameFacts DEF Scan, MadeInv, counters
<1>2. CASE Exists(name)
  BY <1>1, <1>2, LoadKeeps DEF Scan, ToLoad
<1>3. CASE ~Exists(name)
  <2>1. pc' = [pc EXCEPT ![i] = "making"] /\ target' = [target EXCEPT ![i] = t]
    BY <1>3 DEF Scan
  <2>2. /\ slot' = [slot EXCEPT ![i] = slot[i]] /\ chain' = [chain EXCEPT ![i] = chain[i]]
        /\ filter' = [filter EXCEPT ![i] = filter[i]]
    BY <1>1, FunctionSame DEF MadeInv, Functions
  <2>3. pc'[i] = "making" /\ target'[i] = t
    BY <2>1, Domains
  <2>4. pc[i] = "slots" /\ Known(i)
    BY DEF Scan, AtEnd, MadeInv
  <2>5. {"kind", "sound"} \subseteq DOMAIN t /\ t.kind = "chain"
    OBVIOUS
  <2> HIDE DEF t
  <2>6. TargetKnown(i)'
    BY <1>1, <2>3, <2>4, <2>5 DEF Known, TargetKnown
  <2>7. Known(i)'
    BY <1>1, <2>4, <2>6 DEF Known, ChainKnown, FilterKnown
  <2> QED BY <1>1, <2>1, <2>2, <2>7, OneKnown
<1> QED BY <1>2, <1>3

LEMMA OneImpulseKeeps ==
  ASSUME MadeInv, NEW i \in Instances, OneImpulse(i) \/ Measure(i)
  PROVE  MadeInv'
<1>1. FilesKnown' /\ UNCHANGED <<slot, chain, filter, seen>>
  BY SameFacts DEF OneImpulse, Measure, MadeInv, counters
<1>2. CASE OneImpulse(i)
  BY <1>1, <1>2, LoadKeeps DEF OneImpulse, ToLoad
<1>3. CASE Measure(i)
  BY <1>1, <1>3, LoadKeeps DEF Measure
<1> QED BY <1>2, <1>3

LEMMA EndKeeps ==
  ASSUME MadeInv, NEW i \in Instances, NoImpulse(i) \/ NoFilter(i)
  PROVE  MadeInv'
<1>1. Done(i) /\ UNCHANGED <<files, settings, temp, filter, seen>>
  BY DEF NoImpulse, NoFilter, counters
<1>2. filter' = [filter EXCEPT ![i] = filter[i]]
  BY <1>1, FunctionSame DEF MadeInv, Functions
<1>3. filter[i] # NONE => filter[i].made \subseteq seen
  BY DEF MadeInv, Known, FilterKnown
<1> QED BY <1>1, <1>2, <1>3, DoneKeeps

LEMMA SetCoeffKeeps ==
  ASSUME MadeInv, NEW i \in Instances, SetCoeff(i)
  PROVE  MadeInv'
<1> DEFINE s == Sound(target[i].name)
           g == [channels |-> s.channels,
                 data |-> Padded([n \in DOMAIN s.data |-> target[i].scale * s.data[n]],
                                 target[i].blocks * FilterLength),
                 made |-> s.made, whole |-> s.whole]
           f == IF ~Fits(target[i].name, stream[i]) THEN NONE ELSE g
<1>1. Done(i) /\ UNCHANGED <<files, settings, temp, seen>> /\ filter' = [filter EXCEPT ![i] = f]
  BY DEF SetCoeff, counters
<1>2. ASSUME f # NONE
      PROVE  f.made \subseteq seen
  <2>1. Exists(target[i].name) /\ f = g
    BY <1>2 DEF Fits, Readable
  <2>2. s.made \subseteq seen
    BY <2>1, SoundKnown DEF MadeInv, MadeKnown
  <2> QED BY <2>1, <2>2
<1> HIDE DEF f
<1> QED BY <1>1, <1>2, DoneKeeps

-----------------------------------------------------------------------------
(* The world around.                                                       *)

\* No set-up outlives the player.
LEMMA RestartKeeps ==
  ASSUME Restart, FilesKnown'
  PROVE  MadeInv'
<1>1. Functions'
  BY DEF Restart, Functions, IsFunction
<1>2. ASSUME NEW k \in Instances
      PROVE  Known(k)'
  <2>1. pc'[k] = "idle" /\ chain'[k] = <<>> /\ filter'[k] = NONE
    BY DEF Restart
  <2> QED BY <2>1, EmptySequence DEF Known, ChainKnown, TargetKnown, FilterKnown
<1> QED BY <1>1, <1>2 DEF MadeInv

LEMMA PlayerEnds ==
  ASSUME MadeInv,
         Crash \/ Quit \/ QuitUnclean \/ \E i \in Instances, onStack \in OnStack : Mismatch(i, onStack)
  PROVE  MadeInv'
<1>1. Restart
  BY DEF Crash, Quit, QuitUnclean, Mismatch
<1>2. CASE UNCHANGED <<files, settings, temp, seen>>
  BY <1>1, <1>2, SameFacts, RestartKeeps DEF MadeInv
<1>3. CASE Quit
  <2>1. \A n \in DOMAIN temp' : n \in Astray /\ temp'[n] = temp[n] /\ n \in DOMAIN temp
    BY <1>3 DEF Quit, LeftByClean, Astray
  <2>2. Facts(files, settings)' \subseteq seen'
    BY <1>3 DEF Quit, Facts
  <2>3. \A n \in DOMAIN temp' : temp'[n].made \subseteq seen'
    BY <1>3, <2>1 DEF Quit
  <2>4. FilesKnown'
    BY <2>1, <2>2, <2>3 DEF MadeInv, FilesKnown, MadeKnown
  <2> QED BY <1>1, <2>4, RestartKeeps
<1> QED BY <1>2, <1>3 DEF Crash, QuitUnclean, Mismatch

LEMMA WorldKeeps ==
  ASSUME MadeInv,
         \/ \E n \in FileNames, s \in Contents : Replace(n, s)
         \/ \E s \in Settings : Change(s)
  PROVE  MadeInv'
<1>1. /\ seen' = seen \cup Facts(files, settings)'
      /\ UNCHANGED <<temp, pc, slot, chain, target, filter>>
  BY DEF Replace, Change, own, Facts
<1>2. FilesKnown'
  BY <1>1 DEF MadeInv, FilesKnown, MadeKnown
<1>3. \A k \in Instances : Known(k)'
  BY <1>1, KnownStays DEF MadeInv
<1>4. Functions'
  BY <1>1 DEF MadeInv, Functions, IsFunction
<1> QED BY <1>2, <1>3, <1>4 DEF MadeInv

-----------------------------------------------------------------------------
(* The first theorem: what everything is made of.                          *)

LEMMA InitMade == Init => MadeInv
<1> SUFFICES ASSUME Init PROVE MadeInv
  OBVIOUS
<1>1. Functions
  BY DEF Init, Functions, IsFunction
<1>2. FilesKnown
  BY DEF Init, FilesKnown
<1>3. ASSUME NEW i \in Instances
      PROVE  Known(i)
  <2>1. pc[i] = "idle" /\ chain[i] = <<>> /\ filter[i] = NONE
    BY DEF Init
  <2> QED BY <2>1, EmptySequence DEF Known, ChainKnown, TargetKnown, FilterKnown
<1> QED BY <1>1, <1>2, <1>3 DEF MadeInv

LEMMA StepMade == MadeInv /\ [Next]_vars => MadeInv'
<1> SUFFICES ASSUME MadeInv, [Next]_vars PROVE MadeInv'
  OBVIOUS
<1>1. ASSUME NEW i \in Instances, Step(i)
      PROVE  MadeInv'
  <2>1. CASE \E st \in Streams : Begin(i, st)
    BY <2>1, BeginKeeps
  <2>2. CASE SkipSlot(i) \/ TakeSlot(i) \/ MakeSlot(i)
    BY <2>2, SkipKeeps, TakeKeeps, MakeKeeps
  <2>3. CASE NoImpulse(i) \/ NoFilter(i) \/ OneImpulse(i) \/ Measure(i) \/ SetCoeff(i)
    BY <2>3, EndKeeps, OneImpulseKeeps, SetCoeffKeeps
  <2>4. CASE \E onStack \in OnStack : Scan(i, onStack) \/ Mismatch(i, onStack)
    BY <2>4, ScanKeeps, PlayerEnds
  <2>5. CASE MakeFails(i) \/ Open(i) \/ OpenFails(i) \/ Save(i) \/ SaveFails(i)
    BY <2>5, GiveUpKeeps, OpenKeeps, SaveKeeps
  <2> QED BY <1>1, <2>1, <2>2, <2>3, <2>4, <2>5 DEF Step
<1>2. CASE \/ \E n \in FileNames, s \in Contents : Replace(n, s)
           \/ \E s \in Settings : Change(s)
  BY <1>2, WorldKeeps
<1>3. CASE Crash \/ Quit \/ QuitUnclean
  BY <1>3, PlayerEnds
<1>4. CASE LoseDirectory \/ FindDirectory \/ UNCHANGED vars
  <2>1. UNCHANGED <<files, settings, temp, seen, pc, slot, chain, target, filter>>
    BY <1>4 DEF LoseDirectory, FindDirectory, vars, own, counters
  <2>2. FilesKnown'
    BY <2>1, SameFacts DEF MadeInv
  <2>3. \A k \in Instances : Known(k)'
    BY <2>1, KnownStays DEF MadeInv
  <2>4. Functions'
    BY <2>1 DEF MadeInv, Functions, IsFunction
  <2> QED BY <2>2, <2>3, <2>4 DEF MadeInv
<1> QED BY <1>1, <1>2, <1>3, <1>4 DEF Next

\* However many DSP objects set up however many chains over one directory,
\* with crashes, full disks, unfinished set-ups and set-ups that meet, no
\* file made here and no filter is made of what was last there or configured
\* before the directory was emptied, except through the files that were then
\* in the working directory, because the temporary one could not be created
\* (preprocessor.cpp:89, buffer.cpp:242-256, bfir_path.cpp:136-182,
\* foo_dsp_bfir.cpp:69).
THEOREM NothingFromBeforeHolds == Spec => []NothingFromBefore
<1>1. MadeInv => NothingFromBefore
  BY DEF MadeInv, FilesKnown, MadeKnown, Known, FilterKnown, NothingFromBefore
<1> QED BY <1>1, InitMade, StepMade, PTL DEF Spec

-----------------------------------------------------------------------------
(* Induction and recursion over natural numbers.                           *)

\* A set that holds zero and with each number the next holds all of them,
\* since there is no least number that it does not hold.
LEMMA Induction ==
  ASSUME NEW S, 0 \in S, \A n \in Nat : n \in S => n + 1 \in S
  PROVE  Nat \subseteq S
<1> DEFINE T == Nat \ S
           R == OpToRel(<, Nat)
<1>1. SUFFICES ASSUME T # {} PROVE FALSE
  OBVIOUS
<1>2. \A m, n \in Nat : m < n => <<m, n>> \in R
  BY DEF OpToRel
<1>3. PICK x \in T : \A y \in T : ~(<<y, x>> \in R)
  <2>1. T \subseteq Nat /\ IsWellFoundedOn(R, Nat)
    BY NatLessThanWellFounded
  <2> HIDE DEF T, R
  <2> QED BY <1>1, <2>1, WFMin
<1> HIDE DEF R
<1>4. x \in Nat \ {0} /\ x - 1 \in Nat /\ x - 1 < x /\ (x - 1) + 1 = x
  BY <1>3
<1>5. x - 1 \in S
  BY <1>2, <1>3, <1>4
<1> QED BY <1>3, <1>4, <1>5

\* f begins with a, and goes on as g says.
Unfolds(f, n, T, a, g) ==
  f \in [0 .. n -> T] /\ f[0] = a /\ \A j \in 1 .. n : f[j] = g[<<j, f[j - 1]>>]

\* A recursive function is what its equation says: there is one for which
\* the equation holds.
LEMMA Recursion ==
  ASSUME NEW n \in Nat, NEW T, NEW a \in T, NEW g \in [(1 .. n) \X T -> T]
  PROVE  \E f : Unfolds(f, n, T, a, g)
<1> DEFINE Up(m, f) == \A j \in 0 .. m : f[j] = IF j = 0 THEN a ELSE g[<<j, f[j - 1]>>]
           S == {m \in Nat : m <= n => \E f \in [0 .. m -> T] : Up(m, f)}
<1>1. 0 \in S
  <2>1. [j \in 0 .. 0 |-> a] \in [0 .. 0 -> T] /\ Up(0, [j \in 0 .. 0 |-> a])
    OBVIOUS
  <2> QED BY <2>1
<1>2. ASSUME NEW m \in Nat, m \in S PROVE m + 1 \in S
  <2>1. SUFFICES ASSUME m + 1 <= n PROVE \E f \in [0 .. m + 1 -> T] : Up(m + 1, f)
    OBVIOUS
  <2>2. PICK f \in [0 .. m -> T] : Up(m, f)
    BY <1>2, <2>1
  <2>3. \A j \in 0 .. m : f[j] = IF j = 0 THEN a ELSE g[<<j, f[j - 1]>>]
    BY <2>2
  <2> DEFINE v == g[<<m + 1, f[m]>>]
             h == [j \in 0 .. m + 1 |-> IF j <= m THEN f[j] ELSE v]
  <2>4. v \in T
    BY <2>1, <2>2
  <2>5. v = g[<<m + 1, f[m]>>]
    OBVIOUS
  <2> HIDE DEF v
  <2>6. h \in [0 .. m + 1 -> T] /\ h[m + 1] = v /\ \A j \in 0 .. m : h[j] = f[j]
    BY <2>2, <2>4
  <2> HIDE DEF h
  <2>7. ASSUME NEW j \in 0 .. m + 1 PROVE h[j] = IF j = 0 THEN a ELSE g[<<j, h[j - 1]>>]
    <3>1. CASE j \in 1 .. m
      <4>1. j - 1 \in 0 .. m /\ j \in 0 .. m
        BY <3>1
      <4>2. h[j] = f[j] /\ h[j - 1] = f[j - 1]
        BY <2>6, <4>1
      <4> QED BY <2>3, <3>1, <4>1, <4>2
    <3>2. CASE j = m + 1
      <4>1. j - 1 = m /\ j # 0
        BY <3>2
      <4>2. h[m] = f[m]
        BY <2>6
      <4>3. h[j] = v /\ h[j - 1] = f[m]
        BY ONLY <2>6, <3>2, <4>1, <4>2
      <4> QED BY ONLY <2>5, <3>2, <4>1, <4>3
    <3>3. CASE j = 0
      <4>1. 0 \in 0 .. m
        OBVIOUS
      <4>2. f[0] = a
        BY <2>3, <4>1
      <4> QED BY <2>6, <3>3, <4>1, <4>2
    <3> QED BY <3>1, <3>2, <3>3
  <2> QED BY <2>6, <2>7
<1>3. Nat \subseteq S
  <2> HIDE DEF S
  <2> QED BY <1>1, <1>2, Induction
<1>4. PICK f \in [0 .. n -> T] : Up(n, f)
  BY <1>3
<1>5. f[0] = a
  <2>1. 0 \in 0 .. n
    OBVIOUS
  <2> QED BY <1>4, <2>1
<1>6. \A j \in 1 .. n : f[j] = g[<<j, f[j - 1]>>]
  BY <1>4
<1> QED BY <1>5, <1>6 DEF Unfolds

-----------------------------------------------------------------------------
(* Sequences and the chain's convolution.                                  *)

\* A function on 1 .. n is a sequence of length n.
LEMMA FunctionIsSequence ==
  ASSUME NEW n \in Nat, NEW f, f = [k \in 1 .. n |-> f[k]]
  PROVE  IsSequence(f) /\ Len(f) = n
<1> DEFINE T == {f[j] : j \in DOMAIN f}
<1>1. DOMAIN f = 1 .. n
  OBVIOUS
<1>2. f \in [1 .. n -> T]
  BY <1>1
<1>3. f \in Seq(T) /\ Len(f) = n
  BY <1>2
<1> QED BY <1>3 DEF IsSequence

LEMMA Prefix ==
  ASSUME NEW s, IsSequence(s), NEW n \in 0 .. Len(s)
  PROVE  IsSequence(SubSeq(s, 1, n)) /\ Len(SubSeq(s, 1, n)) = n
<1> DEFINE T == {s[j] : j \in DOMAIN s}
           t == SubSeq(s, 1, n)
<1>1. s \in Seq(T) /\ Len(s) \in Nat
  BY DEF IsSequence
<1>2. Len(t) = n /\ t = [k \in 1 .. n |-> t[k]]
  <2> HIDE DEF T
  <2>1. t \in Seq(T) /\ Len(t) = n
    BY <1>1
  <2> HIDE DEF t
  <2>2. DOMAIN t = 1 .. n /\ t \in [1 .. n -> T]
    BY <2>1
  <2> QED BY <2>1, <2>2
<1>3. n \in Nat
  BY <1>1
<1> HIDE DEF t
<1>4. IsSequence(t) /\ Len(t) = n
  BY <1>2, <1>3, FunctionIsSequence
<1> QED BY <1>4 DEF t

LEMMA RunLength ==
  ASSUME NEW c, NEW b, NEW x, Len(x) \in Nat
  PROVE  IsSequence(Run(c, b, x)) /\ Len(Run(c, b, x)) = Len(x)
<1> DEFINE f == Run(c, b, x)
<1>1. f = [n \in 1 .. Len(x) |-> f[n]]
  BY DEF Run
<1> QED BY <1>1, FunctionIsSequence

LEMMA PaddedLength ==
  ASSUME NEW s, NEW n \in Nat
  PROVE  IsSequence(Padded(s, n)) /\ Len(Padded(s, n)) = n
<1> DEFINE f == Padded(s, n)
<1>1. f = [k \in 1 .. n |-> f[k]]
  BY DEF Padded
<1> QED BY <1>1, FunctionIsSequence

\* The convolved chain is as long as it is to be.  The recursive function in
\* it is what its equation says, since there is one that satisfies it.
LEMMA PreconvolvedIsSequence ==
  ASSUME NEW c, Len(c) \in Nat, NEW frames \in Nat,
         NextMultiple(frames, FilterLength) \in Nat, frames <= NextMultiple(frames, FilterLength)
  PROVE  IsSequence(Preconvolved(c, frames)) /\ Len(Preconvolved(c, frames)) = frames
<1> DEFINE length == NextMultiple(frames, FilterLength)
           n == Len(c)
           a == [coeffs |-> Padded(<<1>>, FilterLength), before |-> <<>>, out |-> Padded(<<>>, length)]
           G(j, t) == LET input == Padded(c[j].data, length)
                          out == Run(t.coeffs, t.before, input)
                      IN  [coeffs |-> Coefficients(out, ScaleOf(c, j)),
                           before |-> t.before \o input,
                           out |-> out]
           S == {m \in Nat : \E f : f = [j \in 0 .. m |-> IF j = 0 THEN a ELSE G(j, f[j - 1])]}
<1> HIDE DEF n, length
<1>1. 0 \in S
  <2> DEFINE f == [j \in 0 .. 0 |-> a]
  <2> HIDE DEF a, G
  <2>1. f = [j \in 0 .. 0 |-> IF j = 0 THEN a ELSE G(j, f[j - 1])]
    OBVIOUS
  <2> QED BY <2>1
<1>2. ASSUME NEW m \in Nat, m \in S PROVE m + 1 \in S
  <2>1. PICK f : f = [j \in 0 .. m |-> IF j = 0 THEN a ELSE G(j, f[j - 1])]
    BY <1>2
  <2> HIDE DEF a, G
  <2> DEFINE v == G(m + 1, f[m])
             h == [j \in 0 .. m + 1 |-> IF j <= m THEN f[j] ELSE v]
  <2>2. \A j \in 0 .. m : f[j] = IF j = 0 THEN a ELSE G(j, f[j - 1])
    BY <2>1, Zenon
  <2>3. v = G(m + 1, f[m])
    OBVIOUS
  <2> HIDE DEF v
  <2>6. DOMAIN h = 0 .. m + 1 /\ h[m + 1] = v /\ \A j \in 0 .. m : h[j] = f[j]
    OBVIOUS
  <2>8. h = [j \in 0 .. m + 1 |-> h[j]]
    OBVIOUS
  <2> HIDE DEF h
  <2>7. ASSUME NEW j \in 0 .. m + 1 PROVE h[j] = IF j = 0 THEN a ELSE G(j, h[j - 1])
    <3>1. CASE j \in 1 .. m
      <4>1. j - 1 \in 0 .. m /\ j \in 0 .. m
        BY <3>1
      <4>2. h[j] = f[j] /\ h[j - 1] = f[j - 1]
        BY <2>6, <4>1
      <4> QED BY <2>2, <3>1, <4>1, <4>2
    <3>2. CASE j = m + 1
      <4>1. j - 1 = m /\ j # 0 /\ m \in 0 .. m
        BY <3>2
      <4>2. h[j - 1] = f[m]
        BY <2>6, <4>1
      <4> QED BY <2>3, <2>6, <3>2, <4>1, <4>2
    <3>3. CASE j = 0
      <4>1. 0 \in 0 .. m
        OBVIOUS
      <4>2. f[0] = a
        BY <2>2, <4>1
      <4> QED BY <2>6, <3>3, <4>1, <4>2
    <3> QED BY <3>1, <3>2, <3>3
  <2>9. h = [j \in 0 .. m + 1 |-> IF j = 0 THEN a ELSE G(j, h[j - 1])]
    BY <2>7, <2>8
  <2> QED BY <2>9
<1>3. Nat \subseteq S
  <2> HIDE DEF S
  <2> QED BY <1>1, <1>2, Induction
<1>4. n \in S
  BY <1>3 DEF n
<1> DEFINE turn == CHOOSE f : f = [j \in 0 .. n |-> IF j = 0 THEN a ELSE G(j, f[j - 1])]
<1>5. turn = [j \in 0 .. n |-> IF j = 0 THEN a ELSE G(j, turn[j - 1])]
  <2> HIDE DEF a, G
  <2> QED BY <1>4
<1>6. Preconvolved(c, frames) = SubSeq(turn[n].out, 1, frames)
  BY DEF Preconvolved, Turns, n, length
<1> HIDE DEF turn
<1>7. n \in Nat /\ length \in Nat /\ frames \in 0 .. length
  BY DEF n, length
<1>8. IsSequence(turn[n].out) /\ Len(turn[n].out) = length
  <2>1. turn[n] = IF n = 0 THEN a ELSE G(n, turn[n - 1])
    <3> HIDE DEF a, G
    <3>1. n \in 0 .. n
      BY <1>7
    <3> QED BY <1>5, <3>1
  <2>2. CASE n = 0
    <3>1. turn[n].out = Padded(<<>>, length)
      BY <2>1, <2>2
    <3> QED BY <1>7, <3>1, PaddedLength
  <2>3. CASE n # 0
    <3> DEFINE input == Padded(c[n].data, length)
               out == Run(turn[n - 1].coeffs, turn[n - 1].before, input)
    <3>1. turn[n].out = out
      BY <2>1, <2>3
    <3>2. Len(input) = length
      BY <1>7, PaddedLength
    <3> HIDE DEF input
    <3>3. IsSequence(out) /\ Len(out) = length
      BY <1>7, <3>2, RunLength
    <3> QED BY <3>1, <3>3
  <2> QED BY <2>2, <2>3
<1> HIDE DEF n, length, a, G
<1>9. frames \in 0 .. Len(turn[n].out)
  BY <1>7, <1>8
<1> QED BY <1>6, <1>8, <1>9, Prefix

LEMMA Division ==
  ASSUME NEW a \in Nat, NEW b \in Nat \ {0}
  PROVE  /\ a \div b \in Nat /\ a % b \in 0 .. b - 1
         /\ a = b * (a \div b) + (a % b)
OBVIOUS

\* The next multiple is a multiple, and no less than what it is taken of.
LEMMA Multiple ==
  ASSUME NEW value \in Nat, NEW factor \in Nat \ {0}
  PROVE  \E k \in Nat \ {0} : /\ NextMultiple(value, factor) = k * factor
                              /\ value <= k * factor /\ k * factor \in Nat
<1> DEFINE a == (value + factor) - 1
           q == a \div factor
           k == Longer(1, q)
<1>1. a \in Nat /\ value + factor - 1 = a
  OBVIOUS
<1>2. q \in Nat /\ a % factor \in 0 .. factor - 1 /\ a = factor * q + (a % factor)
  <2> HIDE DEF a
  <2> QED BY <1>1, Division
<1>3. NextMultiple(value, factor) = k * factor
  BY <1>1 DEF NextMultiple
<1> HIDE DEF q
<1>4. value <= factor * q
  BY <1>2
<1>5. k \in Nat \ {0} /\ (q # 0 => k = q)
  BY <1>2 DEF Longer
<1>6. k * factor \in Nat
  BY <1>5
<1>7. value <= k * factor
  <2>1. CASE q = 0
    <3>1. factor * q = 0
      BY <2>1
    <3> QED BY <1>4, <1>6, <3>1
  <2>2. CASE q # 0
    <3>1. k * factor = factor * q
      BY <1>2, <1>5, <2>2
    <3> QED BY <1>4, <3>1
  <2> QED BY <2>1, <2>2
<1> HIDE DEF k
<1> QED BY <1>3, <1>5, <1>6, <1>7

-----------------------------------------------------------------------------
(* The second part: what the files are named after.                        *)

\* The stream that a file of the directory is named after.
StreamOf(n) == IF n[2][1] = "file" THEN n[2][4] ELSE n[2][3]

Plausible(st) == st.channels \in Nat \ {0} /\ st.rate \in Nat \ {0}

\* A whole file can be opened.
SoundOK(s) ==
  /\ {"channels", "rate", "data", "made", "parts", "whole", "header"} \subseteq DOMAIN s
  /\ Plausible(s) /\ IsSequence(s.data)
  /\ s.whole => s.header

\* A name of a file that is made here, in one place or the other.
MadeHere(n) == n[1] \in {"temp", "working"}

\* The sound has what its file's name says.
Named(n, s) ==
  /\ MadeHere(n) /\ SoundOK(s)
  /\ s.channels = StreamOf(n).channels /\ s.rate = StreamOf(n).rate

FilesNamed ==
  /\ place \in {"temp", "working"} /\ files \in [FileNames -> Contents] /\ settings \in Settings
  /\ \A n \in DOMAIN temp : Named(n, temp[n])

\* The file that is being made.
Making(i) ==
  /\ {"kind", "name", "sound"} \subseteq DOMAIN target[i]
  /\ MadeHere(target[i].name)
  /\ target[i].kind = "chain" =>
       /\ {"st", "frames"} \subseteq DOMAIN target[i]
       /\ StreamOf(target[i].name) = target[i].st /\ Plausible(target[i].st)
       /\ target[i].frames \in Nat
  /\ target[i].kind # "chain" =>
       StreamOf(target[i].name) = stream[i] /\ slot[i] <= Len(Slots) /\ Len(chain[i]) < slot[i]
  /\ target[i].kind = "eq" => Equalized(target[i].mag) \in Seq(Int)
  /\ pc[i] = "saving" => Named(target[i].name, target[i].sound)

SetUpOK(i) ==
  /\ pc[i] \in {"idle", "slots", "making", "saving", "measure", "load"}
  /\ stream[i] \in Streams \cup {NONE} /\ (pc[i] # "idle" => stream[i] \in Streams)
  /\ slot[i] \in 0 .. Len(Slots) + 1 /\ Len(chain[i]) \in 0 .. Len(Slots)
  /\ pc[i] = "idle" => chain[i] = <<>>
  /\ pc[i] = "slots" => slot[i] >= 1 /\ Len(chain[i]) < slot[i]
  /\ pc[i] \in {"making", "saving"} => Making(i)
  /\ pc[i] = "measure" => "blocks" \in DOMAIN target[i]
  /\ pc[i] = "load" => target[i].blocks \in Nat
  /\ filter[i] # NONE => Len(filter[i].data) % FilterLength = 0

\* A file that has the stream's channels and rate, or is named after them,
\* whether or not it is there and can be opened.
Matches(n, st) ==
  \/ n \in FileNames /\ files[n].channels = st.channels /\ files[n].rate = st.rate
  \/ MadeHere(n) /\ StreamOf(n).channels = st.channels /\ StreamOf(n).rate = st.rate

\* What has been taken into the chain goes with the stream.
ChainFits(i) == \A j \in DOMAIN chain[i] : Matches(chain[i][j].name, stream[i])

Quiet == ~disturbed

Fitting(i) == SetUpOK(i) /\ (Quiet => ChainFits(i))

\* The second part of the inductive invariant.
FitInv ==
  /\ IsFunction(stream, Instances) /\ FilesNamed
  /\ \A i \in Instances : Fitting(i)
  /\ died = "mismatch" => ~Quiet

-----------------------------------------------------------------------------

LEMMA StreamsPlausible == \A st \in Streams : Plausible(st)
BY SoundsAssumption DEF Plausible

LEMMA SequenceIsSequence == ASSUME NEW T, NEW s \in Seq(T) PROVE IsSequence(s)
<1>1. s = [k \in 1 .. Len(s) |-> s[k]] /\ Len(s) \in Nat
  OBVIOUS
<1> QED BY <1>1, FunctionIsSequence

\* What can be loaded is a sound.
LEMMA SoundIsSound ==
  ASSUME FilesNamed, NEW n, Exists(n)
  PROVE  SoundOK(Sound(n))
<1>1. CASE n \in DOMAIN temp
  BY <1>1 DEF FilesNamed, Sound, Named
<1>2. CASE n \notin DOMAIN temp
  <2>1. n \in FileNames /\ files[n] \in Contents
    BY <1>2 DEF Exists, FilesNamed
  <2> DEFINE s == Sound(n)
  <2>2. /\ {"channels", "rate", "data", "made", "parts", "whole", "header"} \subseteq DOMAIN s
      /\ s.header
        /\ s.channels = files[n].channels /\ s.rate = files[n].rate /\ s.data = files[n].data
    BY <1>2 DEF Sound
  <2>3. Plausible(files[n]) /\ files[n].data \in Seq(Int)
    BY <2>1, SoundsAssumption DEF Plausible
  <2>4. IsSequence(files[n].data)
    BY <2>3, SequenceIsSequence
  <2> HIDE DEF s
  <2>5. SoundOK(s)
    BY <2>2, <2>3, <2>4 DEF SoundOK, Plausible
  <2> QED BY <2>5 DEF s
<1> QED BY <1>1, <1>2

\* No file of the user's is made here.
LEMMA NotMadeHere == \A n \in FileNames : ~MadeHere(n)
BY NamesAssumption DEF MadeHere

\* A file that can be opened, and has what goes with a stream or is named
\* after it, fits the stream.
LEMMA MatchesFits ==
  ASSUME FilesNamed, NEW n, NEW st, Readable(n), Matches(n, st)
  PROVE  Fits(n, st)
<1>1. CASE n \in DOMAIN temp
  <2>1. Sound(n) = temp[n] /\ Named(n, temp[n])
    BY <1>1 DEF Sound, FilesNamed
  <2>2. StreamOf(n).channels = st.channels /\ StreamOf(n).rate = st.rate
    BY <2>1, NotMadeHere DEF Matches, Named
  <2> QED BY <2>1, <2>2 DEF Fits, Named
<1>2. CASE n \notin DOMAIN temp
  <2>1. n \in FileNames /\ ~MadeHere(n)
    BY <1>2, NotMadeHere DEF Readable, Exists
  <2>2. Sound(n).channels = files[n].channels /\ Sound(n).rate = files[n].rate
    BY <1>2 DEF Sound
  <2> QED BY <2>1, <2>2 DEF Fits, Matches
<1> QED BY <1>1, <1>2

\* What goes with a stream does so until the user replaces it.
LEMMA MatchesStays ==
  ASSUME UNCHANGED files
  PROVE  \A n, st : Matches(n, st) => Matches(n, st)'
BY DEF Matches

\* A file that is made, or made again, has what it is named after.
LEMMA PutFits ==
  ASSUME FilesNamed, NEW name, NEW s, Named(name, s), temp' = Put(name, s),
         UNCHANGED <<files, settings, place>>
  PROVE  FilesNamed' /\ \A n, st : Matches(n, st) => Matches(n, st)'
<1>1. /\ DOMAIN temp' = DOMAIN temp \cup {name} /\ temp'[name] = s
      /\ \A n \in DOMAIN temp : n # name => temp'[n] = temp[n]
  BY DEF Put
<1>2. FilesNamed'
  BY <1>1 DEF FilesNamed
<1> QED BY <1>2, MatchesStays

LEMMA SameFits ==
  ASSUME FilesNamed, UNCHANGED <<files, settings, temp, place>>
  PROVE  FilesNamed' /\ \A n, st : Matches(n, st) => Matches(n, st)'
<1>1. FilesNamed'
  BY DEF FilesNamed
<1> QED BY <1>1, MatchesStays

LEMMA FitDomains ==
  ASSUME MadeInv, FitInv
  PROVE  /\ DOMAIN pc = Instances /\ DOMAIN slot = Instances /\ DOMAIN chain = Instances
         /\ DOMAIN target = Instances /\ DOMAIN filter = Instances /\ DOMAIN stream = Instances
BY Domains DEF FitInv, IsFunction

\* What the others are at stays as it is.
Apart(i) ==
  \A k \in Instances \ {i} :
    /\ pc'[k] = pc[k] /\ slot'[k] = slot[k] /\ chain'[k] = chain[k]
    /\ target'[k] = target[k] /\ filter'[k] = filter[k] /\ stream'[k] = stream[k]

LEMMA FittingStays ==
  ASSUME NEW k \in Instances, Fitting(k), Quiet' => Quiet,
         \A n, st : Matches(n, st) => Matches(n, st)',
         pc'[k] = pc[k], slot'[k] = slot[k], chain'[k] = chain[k],
         target'[k] = target[k], filter'[k] = filter[k], stream'[k] = stream[k]
  PROVE  Fitting(k)'
<1>1. Making(k) => Making(k)'
  BY DEF Making
<1>2. SetUpOK(k)'
  BY <1>1 DEF Fitting, SetUpOK
<1>3. ChainFits(k) => ChainFits(k)'
  BY DEF ChainFits
<1> QED BY <1>2, <1>3 DEF Fitting

LEMMA OneFits ==
  ASSUME FitInv, NEW i \in Instances, Apart(i), IsFunction(stream, Instances)', FilesNamed',
         Quiet' => Quiet, died' = died,
         \A n, st : Matches(n, st) => Matches(n, st)',
         Fitting(i)'
  PROVE  FitInv'
<1>1. ASSUME NEW k \in Instances, k # i
      PROVE  Fitting(k)'
  BY <1>1, FittingStays DEF FitInv, Apart
<1> QED BY <1>1 DEF FitInv

-----------------------------------------------------------------------------
(* The slots.                                                              *)

\* The numbers a set-up counts with.
LEMMA SlotsNat == Len(Slots) \in Nat
BY SlotsAssumption

LEMMA BeginFits ==
  ASSUME MadeInv, FitInv, NEW i \in Instances, NEW st \in Streams, Begin(i, st)
  PROVE  FitInv'
<1>1. Apart(i)
  BY FitDomains DEF Begin, Apart
<1>2. FilesNamed' /\ \A n, s : Matches(n, s) => Matches(n, s)'
  BY SameFits DEF Begin, FitInv
<1>3. IsFunction(stream, Instances)'
  BY DEF Begin, FitInv, IsFunction
<1>4. /\ pc'[i] = "slots" /\ slot'[i] = 1 /\ chain'[i] = <<>> /\ filter'[i] = NONE
      /\ stream'[i] = st
  BY FitDomains DEF Begin
<1>5. Fitting(i)'
  BY <1>4, SlotsNat DEF Fitting, SetUpOK, ChainFits
<1>6. (Quiet' => Quiet) /\ (died' = died)
  BY DEF Begin, Quiet
<1> QED BY <1>1, <1>2, <1>3, <1>5, <1>6, OneFits

LEMMA SameRest ==
  ASSUME UNCHANGED <<disturbed, died, stream>>, FitInv
  PROVE  (Quiet' => Quiet) /\ (died' = died) /\ IsFunction(stream, Instances)'
BY DEF Quiet, FitInv, IsFunction

LEMMA SkipFits ==
  ASSUME MadeInv, FitInv, NEW i \in Instances, SkipSlot(i)
  PROVE  FitInv'
<1>1. Apart(i)
  BY FitDomains DEF SkipSlot, Apart
<1>2. FilesNamed' /\ \A n, s : Matches(n, s) => Matches(n, s)'
  BY SameFits DEF SkipSlot, FitInv, counters
<1>3. (Quiet' => Quiet) /\ (died' = died) /\ IsFunction(stream, Instances)'
  BY SameRest DEF SkipSlot, counters
<1>4. /\ pc[i] = "slots" /\ slot[i] <= Len(Slots) /\ slot'[i] = slot[i] + 1
      /\ pc'[i] = pc[i] /\ chain'[i] = chain[i] /\ filter'[i] = filter[i] /\ stream'[i] = stream[i]
  BY FitDomains DEF SkipSlot, AtSlot
<1>5. Fitting(i)
  BY DEF FitInv
<1>6. SetUpOK(i)'
  BY <1>4, <1>5, SlotsNat DEF Fitting, SetUpOK
<1>7. ChainFits(i) => ChainFits(i)'
  BY <1>2, <1>4 DEF ChainFits
<1> QED BY <1>1, <1>2, <1>3, <1>5, <1>6, <1>7, OneFits DEF Fitting

\* An impulse that fits may be put at the end of the chain.
LEMMA ChainGrows ==
  ASSUME NEW i \in Instances, ChainKnown(i), NEW name, NEW scale,
         chain'[i] = Append(chain[i], Entry(name, scale)), stream'[i] = stream[i],
         \A n, s : Matches(n, s) => Matches(n, s)', Matches(name, stream[i])'
  PROVE  /\ ChainFits(i) => ChainFits(i)'
         /\ Len(chain'[i]) = Len(chain[i]) + 1 /\ Len(chain[i]) \in Nat
<1> DEFINE e == Entry(name, scale)
<1>1. e.name = name
  BY DEF Entry
<1>2. /\ IsSequence(Append(chain[i], e))
      /\ \A j \in DOMAIN Append(chain[i], e) :
           Append(chain[i], e)[j] = e \/ \E k \in DOMAIN chain[i] : Append(chain[i], e)[j] = chain[i][k]
  BY AppendKeeps DEF ChainKnown
<1>3. chain'[i] = Append(chain[i], e)
  OBVIOUS
<1> HIDE DEF e
<1>4. ASSUME ChainFits(i) PROVE ChainFits(i)'
  <2>1. \A k \in DOMAIN chain[i] : Matches(chain[i][k].name, stream[i])'
    BY <1>4 DEF ChainFits
  <2> QED BY <1>1, <1>2, <1>3, <2>1 DEF ChainFits
<1>5. chain[i] \in Seq({chain[i][j] : j \in DOMAIN chain[i]} \cup {e})
  BY DEF ChainKnown, IsSequence
<1>6. Len(Append(chain[i], e)) = Len(chain[i]) + 1 /\ Len(chain[i]) \in Nat
  BY <1>5
<1> QED BY <1>3, <1>4, <1>6

\* What a slot calls for goes with the stream; if it is not there it is a
\* file that is made here, and named after it.
LEMMA WantedFits ==
  ASSUME FilesNamed, NEW i \in Instances, Wanted(i).name # NONE
  PROVE  /\ Matches(Wanted(i).name, stream[i])
         /\ ~Exists(Wanted(i).name) =>
              MadeHere(Wanted(i).name) /\ StreamOf(Wanted(i).name) = stream[i]
<1> DEFINE set == settings[Slots[slot[i]]]
<1>1. ASSUME NEW mag
      PROVE  MadeHere(EqName(mag, stream[i])) /\ StreamOf(EqName(mag, stream[i])) = stream[i]
  BY DEF FilesNamed, MadeHere, EqName, Temp, StreamOf
<1>2. ASSUME NEW n
      PROVE  MadeHere(IrName(n, stream[i])) /\ StreamOf(IrName(n, stream[i])) = stream[i]
  BY DEF FilesNamed, MadeHere, IrName, Temp, StreamOf
<1>3. \/ Wanted(i).name = NONE
      \/ Wanted(i).name = EqName(settings.mag, stream[i])
      \/ Wanted(i).name = set.name /\ Fits(set.name, stream[i])
      \/ Wanted(i).name = IrName(set.name, stream[i])
  BY DEF Wanted
<1>4. ASSUME NEW n, Fits(n, stream[i])
      PROVE  Exists(n) /\ Matches(n, stream[i])
  <2>1. Exists(n)
    BY <1>4 DEF Fits, Readable
  <2>2. CASE n \in DOMAIN temp
    <3>1. Sound(n) = temp[n] /\ Named(n, temp[n])
      BY <2>2 DEF Sound, FilesNamed
    <3> QED BY <1>4, <2>1, <3>1 DEF Fits, Named, Matches
  <2>3. CASE n \notin DOMAIN temp
    <3>1. n \in FileNames
      BY <2>1, <2>3 DEF Exists
    <3>2. Sound(n).channels = files[n].channels /\ Sound(n).rate = files[n].rate
      BY <2>3 DEF Sound
    <3> QED BY <1>4, <2>1, <3>1, <3>2 DEF Fits, Matches
  <2> QED BY <2>2, <2>3
<1> QED BY <1>1, <1>2, <1>3, <1>4 DEF Matches

LEMMA TakeFits ==
  ASSUME MadeInv, FitInv, NEW i \in Instances, TakeSlot(i)
  PROVE  FitInv'
<1>0. PICK name, scale : name = Wanted(i).name /\ scale = settings[Slots[slot[i]]].scale
  OBVIOUS
<1>1. Apart(i)
  BY FitDomains DEF TakeSlot, Apart
<1>2. FilesNamed' /\ \A n, s : Matches(n, s) => Matches(n, s)'
  BY SameFits DEF TakeSlot, FitInv, counters
<1>3. (Quiet' => Quiet) /\ (died' = died) /\ IsFunction(stream, Instances)'
  BY SameRest DEF TakeSlot, counters
<1>4. /\ pc[i] = "slots" /\ slot[i] <= Len(Slots) /\ slot'[i] = slot[i] + 1
      /\ pc'[i] = pc[i] /\ filter'[i] = filter[i] /\ stream'[i] = stream[i]
      /\ chain'[i] = Append(chain[i], Entry(name, scale))
  BY <1>0, FitDomains DEF TakeSlot, AtSlot
<1>5. Fitting(i) /\ FilesNamed /\ ChainKnown(i)
  BY DEF FitInv, MadeInv, Known
<1>6. Matches(name, stream[i])
  BY <1>0, <1>5, WantedFits DEF TakeSlot
<1>7. Matches(name, stream[i])'
  <2>1. stream' = stream
    BY DEF TakeSlot
  <2> QED BY <1>2, <1>6, <2>1
<1>8. /\ ChainFits(i) => ChainFits(i)'
      /\ Len(chain'[i]) = Len(chain[i]) + 1 /\ Len(chain[i]) \in Nat
  BY <1>2, <1>4, <1>5, <1>7, ChainGrows
<1>9. SetUpOK(i)'
  BY <1>4, <1>5, <1>8, SlotsNat DEF Fitting, SetUpOK
<1> QED BY <1>1, <1>2, <1>3, <1>5, <1>8, <1>9, OneFits DEF Fitting

LEMMA MakeFits ==
  ASSUME MadeInv, FitInv, NEW i \in Instances, MakeSlot(i)
  PROVE  FitInv'
<1> DEFINE t == [kind |-> IF Wanted(i).from = NONE THEN "eq" ELSE "ir",
                 name |-> Wanted(i).name, from |-> Wanted(i).from, mag |-> settings.mag,
                 sound |-> NONE]
<1>1. Apart(i)
  BY FitDomains DEF MakeSlot, Apart
<1>2. FilesNamed' /\ \A n, s : Matches(n, s) => Matches(n, s)'
  BY SameFits DEF MakeSlot, FitInv, counters
<1>3. (Quiet' => Quiet) /\ (died' = died) /\ IsFunction(stream, Instances)'
  BY SameRest DEF MakeSlot, counters
<1>4. /\ pc[i] = "slots" /\ slot[i] <= Len(Slots) /\ slot'[i] = slot[i]
      /\ pc'[i] = "making" /\ chain'[i] = chain[i] /\ filter'[i] = filter[i] /\ stream'[i] = stream[i]
      /\ target'[i] = t
  BY FitDomains DEF MakeSlot, AtSlot
<1>5. Fitting(i)
  BY DEF FitInv
<1>6. MadeHere(Wanted(i).name) /\ StreamOf(Wanted(i).name) = stream[i]
  BY WantedFits DEF MakeSlot, FitInv
<1>7. Equalized(settings.mag) \in Seq(Int)
  BY SoundsAssumption DEF FitInv, FilesNamed
<1>8. /\ {"kind", "name", "sound"} \subseteq DOMAIN t /\ t.kind # "chain"
      /\ t.name = Wanted(i).name /\ t.mag = settings.mag
  OBVIOUS
<1> HIDE DEF t
<1>9. Making(i)'
  BY <1>4, <1>5, <1>6, <1>7, <1>8 DEF Making, Fitting, SetUpOK
<1>10. SetUpOK(i)'
  BY <1>4, <1>5, <1>9 DEF Fitting, SetUpOK
<1>11. ChainFits(i) => ChainFits(i)'
  BY <1>2, <1>4 DEF ChainFits
<1> QED BY <1>1, <1>2, <1>3, <1>5, <1>10, <1>11, OneFits DEF Fitting

-----------------------------------------------------------------------------
(* The chain.                                                              *)

LEMMA DoneFits ==
  ASSUME MadeInv, FitInv, NEW i \in Instances, Done(i),
         UNCHANGED <<files, settings, temp, place, stream, disturbed, died>>,
         NEW f, filter' = [filter EXCEPT ![i] = f],
         f # NONE => Len(f.data) % FilterLength = 0
  PROVE  FitInv'
<1>1. Apart(i)
  BY FitDomains DEF Done, Apart
<1>2. FilesNamed' /\ \A n, s : Matches(n, s) => Matches(n, s)'
  BY SameFits DEF FitInv
<1>3. (Quiet' => Quiet) /\ (died' = died) /\ IsFunction(stream, Instances)'
  BY SameRest
<1>4. /\ pc'[i] = "idle" /\ slot'[i] = 0 /\ chain'[i] = <<>> /\ filter'[i] = f
      /\ stream'[i] = stream[i]
  BY FitDomains DEF Done
<1>5. stream[i] \in Streams \cup {NONE}
  BY DEF FitInv, Fitting, SetUpOK
<1>6. SetUpOK(i)'
  BY <1>4, <1>5, SlotsNat DEF SetUpOK
<1>7. ChainFits(i)'
  BY <1>4 DEF ChainFits
<1> QED BY <1>1, <1>2, <1>3, <1>6, <1>7, OneFits DEF Fitting

LEMMA EndFits ==
  ASSUME MadeInv, FitInv, NEW i \in Instances, NoImpulse(i) \/ NoFilter(i)
  PROVE  FitInv'
<1>1. Done(i) /\ UNCHANGED <<files, settings, temp, place, stream, filter, disturbed, died>>
  BY DEF NoImpulse, NoFilter, counters
<1>2. filter' = [filter EXCEPT ![i] = filter[i]]
  BY <1>1, FunctionSame DEF MadeInv, Functions
<1>3. filter[i] # NONE => Len(filter[i].data) % FilterLength = 0
  BY DEF FitInv, Fitting, SetUpOK
<1> QED BY <1>1, <1>2, <1>3, DoneFits

\* On the way to the load nothing of the set-up changes but the target.
LEMMA OnlyTarget ==
  ASSUME MadeInv, FitInv, NEW i \in Instances, NEW p \in {"making", "measure", "load"}, NEW t,
         pc[i] # "idle",
         pc' = [pc EXCEPT ![i] = p], target' = [target EXCEPT ![i] = t],
         UNCHANGED <<slot, chain, filter, stream, disturbed, died>>,
         FilesNamed', \A n, s : Matches(n, s) => Matches(n, s)',
         p = "making" => Making(i)', p = "measure" => "blocks" \in DOMAIN t,
         p = "load" => t.blocks \in Nat
  PROVE  FitInv'
<1>1. Apart(i)
  BY FitDomains DEF Apart
<1>2. (Quiet' => Quiet) /\ (died' = died) /\ IsFunction(stream, Instances)'
  BY SameRest
<1>3. pc'[i] = p /\ target'[i] = t
  BY FitDomains
<1>4. Fitting(i)
  BY DEF FitInv
<1>5. SetUpOK(i)'
  BY <1>3, <1>4 DEF Fitting, SetUpOK
<1>6. ChainFits(i) => ChainFits(i)'
  BY DEF ChainFits
<1> QED BY <1>1, <1>2, <1>4, <1>5, <1>6, OneFits DEF Fitting

LEMMA OneImpulseFits ==
  ASSUME MadeInv, FitInv, NEW i \in Instances, OneImpulse(i)
  PROVE  FitInv'
<1>1. FilesNamed' /\ \A n, s : Matches(n, s) => Matches(n, s)'
  BY SameFits DEF OneImpulse, FitInv, counters
<1> QED BY <1>1, OnlyTarget DEF OneImpulse, AtEnd, ToLoad, counters

LEMMA MeasureFits ==
  ASSUME MadeInv, FitInv, NEW i \in Instances, Measure(i)
  PROVE  FitInv'
<1> DEFINE n == Len(Sound(target[i].name).data)
           b == NextMultiple(n, FilterLength) \div FilterLength
           t == [target[i] EXCEPT !.blocks = b]
<1>1. FilesNamed' /\ \A m, s : Matches(m, s) => Matches(m, s)'
  BY SameFits DEF Measure, FitInv, counters
<1>2. n \in Nat
  BY SoundIsSound DEF Measure, Readable, FitInv, SoundOK, IsSequence
<1>3. b \in Nat
  <2>1. NextMultiple(n, FilterLength) \in Nat
    BY <1>2, FilterAssumption, Multiple
  <2> QED BY <2>1, FilterAssumption, Division
<1>4. pc' = [pc EXCEPT ![i] = "load"] /\ target' = [target EXCEPT ![i] = t]
  BY DEF Measure
<1>5. "blocks" \in DOMAIN target[i]
  BY DEF Measure, FitInv, Fitting, SetUpOK
<1>6. t.blocks \in Nat
  BY <1>3, <1>5
<1> HIDE DEF t
<1> QED BY <1>1, <1>4, <1>6, OnlyTarget DEF Measure, counters

-----------------------------------------------------------------------------
(* What is found when the chain is looked through.                         *)

\* What is found for an impulse that can be opened.
Found(name) ==
  [st |-> [channels |-> Sound(name).channels, rate |-> Sound(name).rate],
   frames |-> Len(Sound(name).data)]

\* What a query of the chain's j-th impulse makes of what was found before.
ParamsEqn(p, i, onStack) ==
  /\ p[0] = onStack
  /\ \A j \in 1 .. Len(chain[i]) :
       p[j] = IF Readable(chain[i][j].name) THEN Found(chain[i][j].name) ELSE p[j - 1]

LEMMA ParamsFound ==
  ASSUME NEW i \in Instances, Len(chain[i]) \in Nat, NEW onStack
  PROVE  ParamsEqn(Params(i, onStack), i, onStack)
<1> DEFINE n == Len(chain[i])
           val(j) == Found(chain[i][j].name)
           T == {onStack} \cup {val(j) : j \in 1 .. n}
           g == [x \in (1 .. n) \X T |-> IF ~Readable(chain[i][x[1]].name) THEN x[2] ELSE val(x[1])]
           p == Params(i, onStack)
<1>1. g \in [(1 .. n) \X T -> T]
  <2> HIDE DEF val, n
  <2> QED OBVIOUS
<1>2. ASSUME NEW j \in 1 .. n, NEW t \in T
      PROVE  g[<<j, t>>] = IF ~Readable(chain[i][j].name) THEN t ELSE val(j)
  <2> HIDE DEF val, n, T
  <2> QED OBVIOUS
<1>3. n \in Nat /\ onStack \in T
  OBVIOUS
<1>4. PICK f : Unfolds(f, n, T, onStack, g)
  <2> HIDE DEF g, n, T
  <2> QED BY <1>1, <1>3, Recursion
<1>5. f = [j \in 0 .. n |-> IF j = 0 THEN onStack
                            ELSE IF ~Readable(chain[i][j].name) THEN f[j - 1] ELSE val(j)]
  <2> HIDE DEF g, T, val, n
  <2>1. f = [j \in 0 .. n |-> f[j]] /\ f[0] = onStack
    BY <1>4 DEF Unfolds
  <2>2. ASSUME NEW j \in 0 .. n, j # 0
        PROVE  f[j] = IF ~Readable(chain[i][j].name) THEN f[j - 1] ELSE val(j)
    <3>1. j \in 1 .. n /\ j - 1 \in 0 .. n
      BY <1>3, <2>2
    <3>2. f[j - 1] \in T /\ f[j] = g[<<j, f[j - 1]>>]
      BY <1>4, <3>1 DEF Unfolds
    <3> QED BY <1>2, <3>1, <3>2
  <2> QED BY <2>1, <2>2
<1> DEFINE q == CHOOSE h : h = [j \in 0 .. n |-> IF j = 0 THEN onStack
                            ELSE IF ~Readable(chain[i][j].name) THEN h[j - 1] ELSE val(j)]
<1>6. q = [j \in 0 .. n |-> IF j = 0 THEN onStack
                            ELSE IF ~Readable(chain[i][j].name) THEN q[j - 1] ELSE val(j)]
  <2> HIDE DEF n, val
  <2> QED BY <1>5
<1>7. p = q
  BY DEF Params, Found
<1> HIDE DEF q, p, val
<1>8. p[0] = onStack
  BY <1>3, <1>6, <1>7
<1>9. \A j \in 1 .. n : p[j] = IF Readable(chain[i][j].name) THEN val(j) ELSE p[j - 1]
  BY <1>3, <1>6, <1>7
<1> QED BY <1>8, <1>9 DEF ParamsEqn, p, val

\* The parameters are those of some sound, whatever could not be opened.
LEMMA ParamsPlausible ==
  ASSUME FilesNamed, NEW i \in Instances, Len(chain[i]) \in Nat, NEW onStack \in OnStack
  PROVE  \A j \in 0 .. Len(chain[i]) :
           LET q == Params(i, onStack)[j] IN Plausible(q.st) /\ q.frames \in Nat
<1> DEFINE n == Len(chain[i])
<1>0. PICK p : p = Params(i, onStack)
  OBVIOUS
<1>1. ParamsEqn(p, i, onStack)
  BY <1>0, ParamsFound
<1> DEFINE S == {j \in Nat : j <= n => Plausible(p[j].st) /\ p[j].frames \in Nat}
<1>2. 0 \in S
  BY <1>1, StreamsPlausible DEF ParamsEqn, OnStack
<1>3. ASSUME NEW j \in Nat, j \in S PROVE j + 1 \in S
  <2>1. SUFFICES ASSUME j + 1 <= n PROVE Plausible(p[j + 1].st) /\ p[j + 1].frames \in Nat
    OBVIOUS
  <2>2. j + 1 \in 1 .. n /\ (j + 1) - 1 = j /\ j <= n
    BY <2>1
  <2>3. CASE Readable(chain[i][j + 1].name)
    <3> DEFINE s == Sound(chain[i][j + 1].name)
    <3>1. SoundOK(s)
      BY <2>3, SoundIsSound DEF Readable
    <3>2. p[j + 1] = Found(chain[i][j + 1].name)
      BY <1>1, <2>2, <2>3 DEF ParamsEqn
    <3>3. /\ p[j + 1].st.channels = s.channels /\ p[j + 1].st.rate = s.rate
          /\ p[j + 1].frames = Len(s.data)
      BY <3>2 DEF Found
    <3> QED BY <3>1, <3>3 DEF SoundOK, Plausible, IsSequence
  <2>4. CASE ~Readable(chain[i][j + 1].name)
    <3>1. p[j + 1] = p[j]
      BY <1>1, <2>2, <2>4 DEF ParamsEqn
    <3> QED BY <1>3, <2>2, <3>1
  <2> QED BY <2>3, <2>4
<1>4. Nat \subseteq S
  <2> HIDE DEF S
  <2> QED BY <1>2, <1>3, Induction
<1>5. \A j \in 0 .. n : Plausible(p[j].st) /\ p[j].frames \in Nat
  BY <1>4
<1> QED BY <1>0, <1>5

\* The impulses of a chain that goes with the stream have the same
\* parameters, if all can be opened.
LEMMA FitsAgree ==
  ASSUME FilesNamed, NEW i \in Instances, Len(chain[i]) \in Nat, Len(chain[i]) > 0,
         IsSequence(chain[i]), ChainFits(i), NEW onStack,
         \A j \in DOMAIN chain[i] : Readable(chain[i][j].name)
  PROVE  Agree(Params(i, onStack), Len(chain[i]))
<1>0. PICK p : p = Params(i, onStack)
  OBVIOUS
<1>1. ParamsEqn(p, i, onStack)
  BY <1>0, ParamsFound
<1>2. DOMAIN chain[i] = 1 .. Len(chain[i])
  BY DEF IsSequence
<1> DEFINE st == [channels |-> stream[i].channels, rate |-> stream[i].rate]
<1>3. ASSUME NEW j \in 1 .. Len(chain[i]) PROVE p[j].st = st
  <2> DEFINE name == chain[i][j].name
  <2>1. Fits(name, stream[i])
    BY <1>2, MatchesFits DEF ChainFits
  <2>2. p[j] = Found(name)
    BY <1>1, <2>1 DEF ParamsEqn, Fits
  <2> HIDE DEF name
  <2>3. p[j].st = [channels |-> Sound(name).channels, rate |-> Sound(name).rate]
    BY <2>2 DEF Found
  <2> QED BY <2>1, <2>3 DEF Fits
<1> HIDE DEF st
<1>4. 1 \in 1 .. Len(chain[i])
  OBVIOUS
<1> QED BY <1>0, <1>3, <1>4 DEF Agree

\* The longest of them is as long as a sound.
LEMMA FramesNat ==
  ASSUME NEW n \in Nat, NEW p, \A j \in 1 .. n : p[j].frames \in Nat
  PROVE  Frames(p, n) \in Nat
<1> DEFINE g == [x \in (1 .. n) \X Nat |-> Longer(x[2], p[x[1]].frames)]
<1>1. g \in [(1 .. n) \X Nat -> Nat]
  BY DEF Longer
<1>2. ASSUME NEW j \in 1 .. n, NEW t \in Nat
      PROVE  g[<<j, t>>] = Longer(t, p[j].frames)
  OBVIOUS
<1>3. PICK f : Unfolds(f, n, Nat, 0, g)
  <2> HIDE DEF g
  <2> QED BY <1>1, Recursion
<1>4. f = [j \in 0 .. n |-> IF j = 0 THEN 0 ELSE Longer(f[j - 1], p[j].frames)]
  <2> HIDE DEF g
  <2>1. f = [j \in 0 .. n |-> f[j]] /\ f[0] = 0
    BY <1>3 DEF Unfolds
  <2>2. ASSUME NEW j \in 0 .. n, j # 0
        PROVE  f[j] = Longer(f[j - 1], p[j].frames)
    <3>1. j \in 1 .. n /\ j - 1 \in 0 .. n
      BY <2>2
    <3>2. f[j - 1] \in Nat /\ f[j] = g[<<j, f[j - 1]>>]
      BY <1>3, <3>1 DEF Unfolds
    <3> QED BY <1>2, <3>1, <3>2
  <2> QED BY <2>1, <2>2
<1> DEFINE q == CHOOSE h : h = [j \in 0 .. n |-> IF j = 0 THEN 0 ELSE Longer(h[j - 1], p[j].frames)]
<1>5. q = [j \in 0 .. n |-> IF j = 0 THEN 0 ELSE Longer(q[j - 1], p[j].frames)]
  BY <1>4
<1>6. Frames(p, n) = q[n]
  BY DEF Frames
<1> HIDE DEF q
<1> DEFINE S == {j \in Nat : j <= n => q[j] \in Nat}
<1>7. 0 \in S
  BY <1>5
<1>8. ASSUME NEW j \in Nat, j \in S PROVE j + 1 \in S
  <2>1. SUFFICES ASSUME j + 1 <= n PROVE q[j + 1] \in Nat
    OBVIOUS
  <2>2. j + 1 \in 0 .. n /\ j + 1 \in 1 .. n /\ (j + 1) - 1 = j /\ j + 1 # 0
    BY <2>1
  <2>3. q[j + 1] = Longer(q[j], p[j + 1].frames)
    BY <1>5, <2>2
  <2>4. q[j] \in Nat
    BY <1>8, <2>1
  <2> QED BY <2>2, <2>3, <2>4 DEF Longer
<1>9. Nat \subseteq S
  <2> HIDE DEF S
  <2> QED BY <1>7, <1>8, Induction
<1> QED BY <1>6, <1>9

LEMMA ScanFits ==
  ASSUME MadeInv, FitInv, NEW i \in Instances, NEW onStack \in OnStack, Scan(i, onStack)
  PROVE  FitInv'
<1>0. PICK p, n, name : /\ p = Params(i, onStack) /\ n = Len(chain[i])
                        /\ name = FileName(AllNames(i), Frames(p, n), p[n].st)
  OBVIOUS
<1> DEFINE t == [kind |-> "chain", name |-> name, st |-> p[n].st,
                 frames |-> Frames(p, n), sound |-> NONE]
<1>1. FilesNamed' /\ \A m, s : Matches(m, s) => Matches(m, s)'
  BY SameFits DEF Scan, FitInv, counters
<1>2. /\ UNCHANGED <<slot, chain, filter, stream, disturbed, died>> /\ pc[i] = "slots"
      /\ n > 1
  BY <1>0 DEF Scan, AtEnd, counters
<1>3. CASE Exists(name)
  <2>1. ToLoad(i, name, 1)
    BY <1>0, <1>3 DEF Scan
  <2> QED BY <1>1, <1>2, <2>1, OnlyTarget DEF ToLoad
<1>4. CASE ~Exists(name)
  <2>1. pc' = [pc EXCEPT ![i] = "making"] /\ target' = [target EXCEPT ![i] = t]
    BY <1>0, <1>4 DEF Scan
  <2>2. Len(chain[i]) \in Nat /\ FilesNamed
    BY DEF FitInv, Fitting, SetUpOK
  <2>3. \A j \in 0 .. n : Plausible(p[j].st) /\ p[j].frames \in Nat
    BY <1>0, <2>2, ParamsPlausible
  <2>4. n \in 0 .. n /\ n \in Nat
    BY <1>0, <2>2
  <2>5. Frames(p, n) \in Nat
    BY <2>3, <2>4, FramesNat
  <2>6. Plausible(p[n].st)
    BY <2>3, <2>4
  <2>7. MadeHere(name) /\ StreamOf(name) = p[n].st
    BY <1>0, <2>2 DEF FilesNamed, FileName, Temp, StreamOf, MadeHere
  <2>8. /\ {"kind", "name", "sound", "st", "frames"} \subseteq DOMAIN t /\ t.kind = "chain"
        /\ t.name = name /\ t.st = p[n].st /\ t.frames = Frames(p, n)
    OBVIOUS
  <2> HIDE DEF t
  <2>9. target'[i] = t /\ pc'[i] = "making"
    BY <2>1, FitDomains
  <2>10. Making(i)'
    BY <2>5, <2>6, <2>7, <2>8, <2>9 DEF Making, Plausible
  <2> QED BY <1>1, <1>2, <2>1, <2>10, OnlyTarget
<1> QED BY <1>3, <1>4

-----------------------------------------------------------------------------
(* The end of the player.                                                  *)

LEMMA RestartFits ==
  ASSUME Restart, FilesNamed', died' = "mismatch" => ~Quiet'
  PROVE  FitInv'
<1>1. IsFunction(stream, Instances)'
  BY DEF Restart, IsFunction
<1>2. ASSUME NEW k \in Instances
      PROVE  Fitting(k)'
  <2>1. pc'[k] = "idle" /\ chain'[k] = <<>> /\ filter'[k] = NONE /\ slot'[k] = 0 /\ stream'[k] = NONE
    BY DEF Restart
  <2> QED BY <2>1, SlotsNat DEF Fitting, SetUpOK, ChainFits
<1> QED BY <1>1, <1>2 DEF FitInv

\* Of a chain whose files can all be opened only one that does not go with the
\* stream is mismatched.
LEMMA MismatchFits ==
  ASSUME MadeInv, FitInv, NEW i \in Instances, NEW onStack \in OnStack, Mismatch(i, onStack)
  PROVE  FitInv'
<1>1. FilesNamed' /\ Quiet' = Quiet
  BY SameFits DEF Mismatch, FitInv, Quiet
<1>2. ASSUME Quiet PROVE died' # "mismatch"
  <2>1. /\ ChainFits(i) /\ Len(chain[i]) \in Nat /\ IsSequence(chain[i]) /\ FilesNamed
        /\ Len(chain[i]) > 1
    BY <1>2 DEF FitInv, Fitting, SetUpOK, MadeInv, Known, ChainKnown, Mismatch
  <2>2. CASE \A j \in DOMAIN chain[i] : Readable(chain[i][j].name)
    <3>1. Agree(Params(i, onStack), Len(chain[i]))
      BY <2>1, <2>2, FitsAgree
    <3> QED BY <3>1 DEF Mismatch
  <2>3. CASE ~\A j \in DOMAIN chain[i] : Readable(chain[i][j].name)
    BY <2>3 DEF Mismatch
  <2> QED BY <2>2, <2>3
<1> QED BY <1>1, <1>2, RestartFits DEF Mismatch

-----------------------------------------------------------------------------
(* Making a file.                                                          *)

\* The chain still goes with the stream if the object goes on to its next slot
\* with a file that does, or without one.
LEMMA GoOnFits ==
  ASSUME MadeInv, FitInv, NEW i \in Instances, pc[i] \in {"making", "saving"},
         NEW name, GoOn(i, name), UNCHANGED <<filter, stream, disturbed, died>>,
         FilesNamed', \A n, s : Matches(n, s) => Matches(n, s)',
         name # NONE /\ target[i].kind # "chain" => Matches(name, stream[i])'
  PROVE  FitInv'
<1>1. CASE target[i].kind = "chain"
  <2> DEFINE t == [name |-> name, scale |-> 1, blocks |-> 0]
  <2>1. /\ pc' = [pc EXCEPT ![i] = "measure"] /\ target' = [target EXCEPT ![i] = t]
        /\ UNCHANGED <<slot, chain>>
    BY <1>1 DEF GoOn, ToLoad
  <2>2. "blocks" \in DOMAIN t
    OBVIOUS
  <2> HIDE DEF t
  <2>3. Apart(i)
    BY <2>1, FitDomains DEF Apart
  <2>4. pc'[i] = "measure" /\ target'[i] = t
    BY <2>1, FitDomains
  <2>5. Fitting(i)
    BY DEF FitInv
  <2>6. SetUpOK(i)'
    BY <2>1, <2>2, <2>4, <2>5 DEF Fitting, SetUpOK
  <2>7. ChainFits(i) => ChainFits(i)'
    BY <2>1 DEF ChainFits
  <2>8. IsFunction(stream, Instances)' /\ Quiet' = Quiet
    BY DEF FitInv, IsFunction, Quiet
  <2> QED BY <2>3, <2>5, <2>6, <2>7, <2>8, OneFits DEF Fitting
<1>2. CASE target[i].kind # "chain"
  <2> DEFINE c == IF name = NONE THEN chain[i]
                  ELSE Append(chain[i], Entry(name, settings[Slots[slot[i]]].scale))
  <2>1. /\ pc' = [pc EXCEPT ![i] = "slots"] /\ slot' = [slot EXCEPT ![i] = slot[i] + 1]
        /\ chain' = [chain EXCEPT ![i] = c] /\ target' = target
    BY <1>2 DEF GoOn
  <2>2. Apart(i)
    BY <2>1, FitDomains DEF Apart
  <2>3. pc'[i] = "slots" /\ slot'[i] = slot[i] + 1 /\ chain'[i] = c /\ target'[i] = target[i]
    BY <2>1, FitDomains
  <2>4. Fitting(i) /\ ChainKnown(i)
    BY DEF FitInv, MadeInv, Known
  <2>5. slot[i] \in Nat /\ slot[i] <= Len(Slots) /\ Len(chain[i]) < slot[i] /\ Len(chain[i]) \in Nat
    BY <1>2, <2>4 DEF Fitting, SetUpOK, Making
  <2>6. CASE name = NONE
    <3>1. chain'[i] = chain[i]
      BY <2>3, <2>6
    <3>2. SetUpOK(i)'
      BY <2>3, <2>4, <2>5, <3>1, SlotsNat DEF Fitting, SetUpOK
    <3>3. ChainFits(i) => ChainFits(i)'
      BY <3>1 DEF ChainFits
    <3>4. IsFunction(stream, Instances)' /\ Quiet' = Quiet
      BY DEF FitInv, IsFunction, Quiet
    <3> QED BY <2>2, <2>4, <3>2, <3>3, <3>4, OneFits DEF Fitting
  <2>7. CASE name # NONE
    <3>0. PICK scale : scale = settings[Slots[slot[i]]].scale
      OBVIOUS
    <3>1. chain'[i] = Append(chain[i], Entry(name, scale))
      BY <2>3, <2>7, <3>0
    <3>2. Len(chain'[i]) = Len(chain[i]) + 1
      <4> DEFINE e == Entry(name, scale)
      <4>1. chain[i] \in Seq({chain[i][j] : j \in DOMAIN chain[i]} \cup {e})
        BY <2>4 DEF ChainKnown, IsSequence
      <4>2. chain'[i] = Append(chain[i], e)
        BY <3>1
      <4> HIDE DEF e
      <4> QED BY <4>1, <4>2
    <3>3. SetUpOK(i)'
      BY <2>3, <2>4, <2>5, <3>2, SlotsNat DEF Fitting, SetUpOK
    <3>4. ChainFits(i) => ChainFits(i)'
      <4>1. Matches(name, stream[i])'
        BY <1>2, <2>7
      <4> QED BY <2>4, <3>1, <4>1, ChainGrows
    <3>5. IsFunction(stream, Instances)' /\ Quiet' = Quiet
      BY DEF FitInv, IsFunction, Quiet
    <3> QED BY <2>2, <2>4, <3>3, <3>4, <3>5, OneFits DEF Fitting
  <2> QED BY <2>6, <2>7
<1> QED BY <1>1, <1>2

\* What is made has what its file is named after.
LEMMA ConvolvedOK ==
  ASSUME NEW c, IsSequence(c), NEW st, Plausible(st), NEW frames \in Nat
  PROVE  /\ SoundOK(Convolved(c, st, frames))
         /\ Convolved(c, st, frames).channels = st.channels
         /\ Convolved(c, st, frames).rate = st.rate
<1> DEFINE parts == [j \in DOMAIN c |->
                       [data |-> Loaded(Sound(c[j].name).data, frames), scale |-> c[j].scale]]
           s == Convolved(c, st, frames)
<1>1. DOMAIN c = 1 .. Len(c) /\ Len(c) \in Nat
  BY DEF IsSequence
<1>2. parts = [j \in 1 .. Len(c) |-> parts[j]]
  BY <1>1
<1>3. /\ {"channels", "rate", "data", "made", "parts", "whole", "header"} \subseteq DOMAIN s
      /\ s.header
      /\ s.channels = st.channels /\ s.rate = st.rate /\ s.data = Preconvolved(parts, frames)
  BY DEF Convolved
<1> HIDE DEF parts, s
<1>4. Len(parts) \in Nat
  BY <1>1, <1>2, FunctionIsSequence
<1>5. PICK length : length = NextMultiple(frames, FilterLength) /\ length \in Nat /\ frames <= length
  BY FilterAssumption, Multiple
<1>6. IsSequence(Preconvolved(parts, frames))
  BY <1>4, <1>5, PreconvolvedIsSequence
<1> QED BY <1>3, <1>6 DEF SoundOK, Plausible, s

LEMMA ResampledOK ==
  ASSUME NEW s, SoundOK(s), NEW st, Plausible(st)
  PROVE  /\ SoundOK(Resampled(s, st))
         /\ Resampled(s, st).channels = st.channels /\ Resampled(s, st).rate = st.rate
         /\ Resampled(s, st).whole = s.whole
<1> DEFINE n == Len(s.data)
           out == (n * s.rate) \div st.rate
           m == IF out < n THEN out ELSE n
           d == [k \in 1 .. m |-> s.data[1 + ((k - 1) * st.rate) \div s.rate]]
           r == [s EXCEPT !.channels = st.channels, !.rate = st.rate, !.parts = <<>>, !.data = d]
<1>1. Resampled(s, st) = r
  BY DEF Resampled
<1>2. d = [k \in 1 .. m |-> d[k]]
  OBVIOUS
<1>3. n \in Nat /\ s.rate \in Nat
  BY DEF SoundOK, Plausible, IsSequence
<1>4. n * s.rate \in Nat
  BY <1>3
<1>5. out \in Nat
  <2>1. st.rate \in Nat \ {0}
    BY DEF Plausible
  <2> QED BY <1>4, <2>1, Division
<1>6. m \in Nat
  BY <1>3, <1>5
<1> HIDE DEF d, m
<1>7. IsSequence(d)
  BY <1>2, <1>6, FunctionIsSequence
<1>8. DOMAIN r = DOMAIN s /\ r.channels = st.channels /\ r.rate = st.rate /\ r.data = d
  BY DEF SoundOK
<1>9. r.whole = s.whole /\ r.header = s.header
  BY DEF SoundOK
<1> HIDE DEF r
<1>10. SoundOK(r)
  BY <1>7, <1>8, <1>9 DEF SoundOK, Plausible
<1> QED BY <1>1, <1>8, <1>9, <1>10

LEMMA RenderedOK ==
  ASSUME NEW mag, Equalized(mag) \in Seq(Int), NEW st, Plausible(st)
  PROVE  /\ SoundOK(Rendered(mag, st))
         /\ Rendered(mag, st).channels = st.channels /\ Rendered(mag, st).rate = st.rate
<1> DEFINE s == Rendered(mag, st)
<1>1. /\ {"channels", "rate", "data", "made", "parts", "whole", "header"} \subseteq DOMAIN s
      /\ s.header
      /\ s.channels = st.channels /\ s.rate = st.rate /\ s.data = Equalized(mag)
  BY DEF Rendered
<1>2. IsSequence(Equalized(mag))
  BY SequenceIsSequence
<1> HIDE DEF s
<1>3. SoundOK(s)
  BY <1>1, <1>2 DEF SoundOK, Plausible
<1> QED BY <1>1, <1>3 DEF s

LEMMA ProductNamed ==
  ASSUME MadeInv, FitInv, NEW i \in Instances, pc[i] = "making", Loadable(i)
  PROVE  Named(target[i].name, Product(i))
<1>1. Making(i) /\ stream[i] \in Streams /\ ChainKnown(i) /\ FilesNamed
  BY DEF FitInv, Fitting, SetUpOK, MadeInv, Known
<1>2. Plausible(stream[i])
  BY <1>1, StreamsPlausible
<1>3. target[i].kind \in {"chain", "eq", "ir"}
  BY DEF MadeInv, Known, TargetKnown
<1> DEFINE s == Product(i)
           st == StreamOf(target[i].name)
<1>4. SoundOK(s) /\ s.channels = st.channels /\ s.rate = st.rate
  <2>1. CASE target[i].kind = "chain"
    <3>1. s = Convolved(chain[i], target[i].st, target[i].frames)
      BY <2>1 DEF Product
    <3>2. Plausible(target[i].st) /\ target[i].frames \in Nat /\ st = target[i].st
      BY <1>1, <2>1 DEF Making
    <3>3. IsSequence(chain[i])
      BY <1>1 DEF ChainKnown
    <3> QED BY <3>1, <3>2, <3>3, ConvolvedOK
  <2>2. CASE target[i].kind = "eq"
    <3>1. s = Rendered(target[i].mag, stream[i])
      BY <2>2 DEF Product
    <3>2. Equalized(target[i].mag) \in Seq(Int) /\ st = stream[i]
      BY <1>1, <2>2 DEF Making
    <3> QED BY <1>2, <3>1, <3>2, RenderedOK
  <2>3. CASE target[i].kind = "ir"
    <3>1. s = Resampled(Sound(target[i].from), stream[i])
      BY <2>3 DEF Product
    <3>2. SoundOK(Sound(target[i].from))
      BY <1>1, <2>3, SoundIsSound DEF Loadable, Readable
    <3>3. st = stream[i]
      BY <1>1, <2>3 DEF Making
    <3> QED BY <1>2, <3>1, <3>2, <3>3, ResampledOK
  <2> QED BY <1>3, <2>1, <2>2, <2>3
<1> QED BY <1>1, <1>4 DEF Named, Making

\* A file that is cut short has what it had.
LEMMA ShortenedNamed ==
  ASSUME NEW n, NEW s, Named(n, s)
  PROVE  Named(n, Opened(s)) /\ Named(n, Headless(s)) /\ Named(n, CutOff(s))
<1>1. IsSequence(s.data) /\ {"data", "whole", "header"} \subseteq DOMAIN s
  BY DEF Named, SoundOK
<1>2. Len(s.data) \div 2 \in 0 .. Len(s.data)
  <2>1. PICK l \in Nat : l = Len(s.data)
    BY <1>1 DEF IsSequence
  <2>2. l \div 2 \in 0 .. l
    OBVIOUS
  <2> QED BY <2>1, <2>2
<1>3. IsSequence(SubSeq(s.data, 1, Len(s.data) \div 2))
  BY <1>1, <1>2, Prefix
<1>4. Named(n, Opened(s)) /\ Named(n, Headless(s))
  BY EmptySequence DEF Named, SoundOK, Plausible, Opened, Headless
<1>5. Named(n, CutOff(s))
  <2> DEFINE d == SubSeq(s.data, 1, Len(s.data) \div 2)
             c == [s EXCEPT !.data = d, !.whole = FALSE]
  <2>1. CutOff(s) = c
    BY DEF CutOff
  <2> HIDE DEF d
  <2>2. /\ DOMAIN c = DOMAIN s /\ c.data = d /\ c.channels = s.channels /\ c.rate = s.rate
        /\ c.whole = FALSE
    BY DEF Named, SoundOK
  <2> HIDE DEF c
  <2>3. IsSequence(d)
    BY <1>3 DEF d
  <2> QED BY <2>1, <2>2, <2>3 DEF Named, SoundOK, Plausible
<1> QED BY <1>4, <1>5

LEMMA OpenFits ==
  ASSUME MadeInv, FitInv, NEW i \in Instances, Open(i)
  PROVE  FitInv'
<1>0. PICK s, name : s = Product(i) /\ name = target[i].name
  OBVIOUS
<1> DEFINE t == [target[i] EXCEPT !.sound = s]
<1>1. pc[i] = "making" /\ Fitting(i) /\ Making(i) /\ FilesNamed
  BY DEF Open, FitInv, Fitting, SetUpOK
<1>2. Named(name, s)
  BY <1>0, ProductNamed DEF Open
<1>3. Named(name, Opened(s)) /\ Named(name, Headless(s))
  BY <1>2, ShortenedNamed
<1>4. /\ UNCHANGED <<files, settings, place, stream, slot, chain, filter, disturbed, died>>
      /\ \E e \in {Headless(s), Opened(s)} : temp' = Put(name, e)
  BY <1>0 DEF Open, counters
<1>5. FilesNamed' /\ \A n, st : Matches(n, st) => Matches(n, st)'
  BY <1>1, <1>3, <1>4, PutFits
<1>6. pc' = [pc EXCEPT ![i] = "saving"] /\ target' = [target EXCEPT ![i] = t]
  BY <1>0 DEF Open
<1>7. pc'[i] = "saving" /\ target'[i] = t
  BY <1>6, FitDomains
<1>8. DOMAIN t = DOMAIN target[i] /\ t.sound = s /\ t.name = name /\ t.kind = target[i].kind
  BY <1>0, <1>1 DEF Making
<1>9. /\ "st" \in DOMAIN target[i] => t.st = target[i].st
      /\ "frames" \in DOMAIN target[i] => t.frames = target[i].frames
      /\ t.mag = target[i].mag
  OBVIOUS
<1> HIDE DEF t
<1>10. Making(i)'
  BY <1>0, <1>1, <1>2, <1>4, <1>7, <1>8, <1>9 DEF Making
<1>11. SetUpOK(i)'
  BY <1>1, <1>4, <1>7, <1>10 DEF Fitting, SetUpOK
<1>12. ChainFits(i) => ChainFits(i)'
  BY <1>4, <1>5 DEF ChainFits
<1>13. Apart(i)
  BY <1>4, <1>6, FitDomains DEF Apart
<1>14. (Quiet' => Quiet) /\ (died' = died) /\ IsFunction(stream, Instances)'
  BY <1>4, SameRest
<1> QED BY <1>1, <1>5, <1>11, <1>12, <1>13, <1>14, OneFits DEF Fitting

\* What is made for a slot goes with the stream.
LEMMA MadeMatches ==
  ASSUME NEW i \in Instances, Making(i), target[i].kind # "chain", stream' = stream,
         NEW n, n = target[i].name
  PROVE  Matches(n, stream[i])'
<1>1. PICK st : st = stream[i]
  OBVIOUS
<1>2. MadeHere(n) /\ StreamOf(n) = st
  BY <1>1 DEF Making
<1>3. Matches(n, st)'
  BY <1>2 DEF Matches
<1> QED BY <1>1, <1>3

LEMMA SaveFits ==
  ASSUME MadeInv, FitInv, NEW i \in Instances, Save(i) \/ SaveFails(i)
  PROVE  FitInv'
<1>0. PICK name : name = target[i].name
  OBVIOUS
<1>1. pc[i] = "saving" /\ Making(i) /\ FilesNamed
  BY DEF Save, SaveFails, FitInv, Fitting, SetUpOK
<1>2. PICK s \in {target[i].sound, Headless(target[i].sound), CutOff(target[i].sound)} :
        temp' = Put(name, s)
  BY <1>0 DEF Save, SaveFails
<1>3. Named(name, s)
  BY <1>0, <1>1, ShortenedNamed DEF Making
<1>4. UNCHANGED <<files, settings, place, filter, stream, disturbed, died>> /\ GoOn(i, name)
  BY <1>0 DEF Save, SaveFails, counters
<1>5. FilesNamed' /\ \A n, st : Matches(n, st) => Matches(n, st)'
  BY <1>1, <1>2, <1>3, <1>4, PutFits
<1>6. target[i].kind # "chain" => Matches(name, stream[i])'
  BY <1>0, <1>1, <1>4, MadeMatches
<1> QED BY <1>1, <1>4, <1>5, <1>6, GoOnFits

LEMMA GiveUpFits ==
  ASSUME MadeInv, FitInv, NEW i \in Instances, MakeFails(i) \/ OpenFails(i)
  PROVE  FitInv'
<1>0. PICK name : name = target[i].name
  OBVIOUS
<1>1. /\ pc[i] = "making" /\ Making(i) /\ FilesNamed
      /\ UNCHANGED <<files, settings, place, filter, stream, disturbed, died>>
  BY DEF MakeFails, OpenFails, FitInv, Fitting, SetUpOK, counters
<1>2. CASE MakeFails(i)
  <2>1. GoOn(i, NONE) /\ temp' = temp
    BY <1>2 DEF MakeFails
  <2>2. FilesNamed' /\ \A n, st : Matches(n, st) => Matches(n, st)'
    BY <1>1, <2>1, SameFits
  <2> QED BY <1>1, <2>1, <2>2, GoOnFits
<1>3. CASE OpenFails(i)
  <2>1. GoOn(i, name) /\ Loadable(i)
    BY <1>0, <1>3 DEF OpenFails
  <2>2. FilesNamed' /\ \A n, st : Matches(n, st) => Matches(n, st)'
    <3>1. CASE temp' = temp
      BY <1>1, <3>1, SameFits
    <3>2. CASE temp' = Put(name, Headless(Product(i)))
      <4>1. Named(name, Headless(Product(i)))
        BY <1>0, <1>1, <2>1, ProductNamed, ShortenedNamed
      <4> QED BY <1>1, <3>2, <4>1, PutFits
    <3> QED BY <1>0, <1>3, <3>1, <3>2 DEF OpenFails
  <2>3. target[i].kind # "chain" => Matches(name, stream[i])'
    BY <1>0, <1>1, MadeMatches
  <2> QED BY <1>1, <2>1, <2>2, <2>3, GoOnFits
<1> QED BY <1>2, <1>3

\* A multiple of the filter's length.
LEMMA NoRemainder ==
  ASSUME NEW a \in Nat, NEW b \in Nat \ {0}
  PROVE  a * b \in Nat /\ (a * b) % b = 0
<1> DEFINE m == a * b
           q == m \div b
           r == m % b
<1>1. m \in Nat
  OBVIOUS
<1>2. q \in Nat /\ r \in 0 .. b - 1 /\ m = b * q + r
  <2> HIDE DEF m
  <2> QED BY <1>1, Division
<1>3. m = b * a
  OBVIOUS
<1> HIDE DEF m, q, r
<1>4. r = b * (a - q)
  BY <1>2, <1>3
<1>5. CASE a - q >= 1
  <2>1. b * (a - q) >= b
    BY <1>2, <1>5
  <2> QED BY <1>2, <1>4, <2>1
<1>6. CASE a - q <= -1
  <2>1. b * (a - q) < 0
    BY <1>2, <1>6
  <2> QED BY <1>2, <1>4, <2>1
<1>7. CASE a - q = 0
  <2>1. r = 0
    BY <1>4, <1>7
  <2> QED BY <1>1, <2>1 DEF m, r
<1> QED BY <1>2, <1>5, <1>6, <1>7

LEMMA SetCoeffFits ==
  ASSUME MadeInv, FitInv, NEW i \in Instances, SetCoeff(i)
  PROVE  FitInv'
<1> DEFINE s == Sound(target[i].name)
           d == Padded([n \in DOMAIN s.data |-> target[i].scale * s.data[n]],
                       target[i].blocks * FilterLength)
           g == [channels |-> s.channels, data |-> d, made |-> s.made, whole |-> s.whole]
           f == IF ~Fits(target[i].name, stream[i]) THEN NONE ELSE g
<1>1. /\ Done(i) /\ UNCHANGED <<files, settings, temp, place, stream, disturbed, died>>
      /\ filter' = [filter EXCEPT ![i] = f]
  BY DEF SetCoeff, counters
<1>2. Len(d) % FilterLength = 0
  <2>1. PICK b \in Nat : b = target[i].blocks
    BY DEF SetCoeff, FitInv, Fitting, SetUpOK
  <2>2. b * FilterLength \in Nat /\ (b * FilterLength) % FilterLength = 0
    BY FilterAssumption, NoRemainder
  <2>3. Len(d) = b * FilterLength
    BY <2>1, <2>2, PaddedLength
  <2> QED BY <2>2, <2>3
<1> HIDE DEF d
<1>3. f # NONE => Len(f.data) % FilterLength = 0
  BY <1>2
<1> HIDE DEF f
<1> QED BY <1>1, <1>3, DoneFits

-----------------------------------------------------------------------------
(* The world around, and the theorem.                                      *)

LEMMA EndOfPlayerFits ==
  ASSUME MadeInv, FitInv, Crash \/ Quit \/ QuitUnclean
  PROVE  FitInv'
<1>1. Restart /\ UNCHANGED <<files, settings, place, disturbed, died>>
  BY DEF Crash, Quit, QuitUnclean
<1>2. \A n \in DOMAIN temp' : n \in DOMAIN temp /\ temp'[n] = temp[n]
  BY DEF Crash, Quit, QuitUnclean, LeftByClean, Astray
<1>3. FilesNamed'
  BY <1>1, <1>2 DEF FitInv, FilesNamed
<1>4. died' = "mismatch" => ~Quiet'
  BY <1>1 DEF FitInv, Quiet
<1> QED BY <1>1, <1>3, <1>4, RestartFits

LEMMA WorldFits ==
  ASSUME MadeInv, FitInv,
         \/ \E n \in FileNames, s \in Contents : Replace(n, s)
         \/ \E s \in Settings : Change(s)
  PROVE  FitInv'
<1>1. UNCHANGED <<temp, place, pc, slot, chain, target, filter, stream, died>>
  BY DEF Replace, Change, own
<1>2. FilesNamed'
  <2>1. files' \in [FileNames -> Contents] /\ settings' \in Settings
    BY DEF Replace, Change, FitInv, FilesNamed
  <2> QED BY <1>1, <2>1 DEF FitInv, FilesNamed
<1>3. Quiet' => Quiet
  BY DEF Replace, Change, Quiet
<1>4. ASSUME NEW k \in Instances
      PROVE  Fitting(k)'
  <2>1. Fitting(k)
    BY DEF FitInv
  <2>2. Making(k) => Making(k)'
    BY <1>1 DEF Making
  <2>3. SetUpOK(k)'
    BY <1>1, <2>1, <2>2 DEF Fitting, SetUpOK
  <2>4. ASSUME Quiet' PROVE ChainFits(k)'
    <3>1. CASE Busy = {}
      <4>1. chain[k] = <<>>
        BY <2>1, <3>1 DEF Fitting, SetUpOK, Busy
      <4> QED BY <1>1, <4>1 DEF ChainFits
    <3>2. CASE Busy # {}
      <4>1. files' = files
        BY <2>4, <3>2 DEF Replace, Change, Quiet
      <4>2. ChainFits(k)
        BY <1>3, <2>1, <2>4 DEF Fitting
      <4> QED BY <1>1, <4>1, <4>2 DEF ChainFits, Matches
    <3> QED BY <3>1, <3>2
  <2> QED BY <2>3, <2>4 DEF Fitting
<1> QED BY <1>1, <1>2, <1>3, <1>4 DEF FitInv, IsFunction

LEMMA InitFits == Init => FitInv
<1> SUFFICES ASSUME Init PROVE FitInv
  OBVIOUS
<1>1. FilesNamed
  BY SoundsAssumption DEF Init, FilesNamed
<1>2. IsFunction(stream, Instances)
  BY DEF Init, IsFunction
<1>3. ASSUME NEW i \in Instances
      PROVE  Fitting(i)
  <2>1. pc[i] = "idle" /\ chain[i] = <<>> /\ filter[i] = NONE /\ slot[i] = 0 /\ stream[i] = NONE
    BY DEF Init
  <2> QED BY <2>1, SlotsNat DEF Fitting, SetUpOK, ChainFits
<1> QED BY <1>1, <1>2, <1>3 DEF Init, FitInv

LEMMA StepFits == MadeInv /\ FitInv /\ [Next]_vars => FitInv'
<1> SUFFICES ASSUME MadeInv, FitInv, [Next]_vars PROVE FitInv'
  OBVIOUS
<1>1. ASSUME NEW i \in Instances, Step(i)
      PROVE  FitInv'
  <2>1. CASE \E st \in Streams : Begin(i, st)
    BY <2>1, BeginFits
  <2>2. CASE SkipSlot(i) \/ TakeSlot(i) \/ MakeSlot(i)
    BY <2>2, SkipFits, TakeFits, MakeFits
  <2>3. CASE NoImpulse(i) \/ NoFilter(i) \/ OneImpulse(i) \/ Measure(i) \/ SetCoeff(i)
    BY <2>3, EndFits, OneImpulseFits, MeasureFits, SetCoeffFits
  <2>4. CASE \E onStack \in OnStack : Scan(i, onStack) \/ Mismatch(i, onStack)
    BY <2>4, ScanFits, MismatchFits
  <2>5. CASE MakeFails(i) \/ Open(i) \/ OpenFails(i) \/ Save(i) \/ SaveFails(i)
    BY <2>5, GiveUpFits, OpenFits, SaveFits
  <2> QED BY <1>1, <2>1, <2>2, <2>3, <2>4, <2>5 DEF Step
<1>2. CASE \/ \E n \in FileNames, s \in Contents : Replace(n, s)
           \/ \E s \in Settings : Change(s)
  BY <1>2, WorldFits
<1>3. CASE Crash \/ Quit \/ QuitUnclean
  BY <1>3, EndOfPlayerFits
<1>4. CASE LoseDirectory \/ FindDirectory \/ UNCHANGED vars
  <2>1. /\ UNCHANGED <<files, settings, temp, pc, slot, chain, target, filter, stream, disturbed,
                       died>>
        /\ place' \in {place, "temp", "working"}
    BY <1>4 DEF LoseDirectory, FindDirectory, vars, own, counters
  <2>2. FilesNamed' /\ \A n, s : Matches(n, s) => Matches(n, s)'
    BY <2>1, MatchesStays DEF FitInv, FilesNamed
  <2>3. Quiet' = Quiet
    BY <2>1 DEF Quiet
  <2>4. \A k \in Instances : Fitting(k)'
    BY <2>1, <2>2, <2>3, FittingStays DEF FitInv
  <2> QED BY <2>1, <2>2, <2>3, <2>4 DEF FitInv, IsFunction
<1> QED BY <1>1, <1>2, <1>3, <1>4 DEF Next

-----------------------------------------------------------------------------
(* The third part: nothing is left unfinished.                             *)

\* No crash, no error of the disk, no two set-ups at a time.
Alone == ~faulty /\ ~together

\* The files of the chain are there.
ChainThere(i) == \A j \in DOMAIN chain[i] : Exists(chain[i][j].name)

\* The third part of the inductive invariant.
WholeInv ==
  Alone =>
    /\ \A i, k \in Instances : pc[i] # "idle" /\ pc[k] # "idle" => i = k
    /\ \A n \in DOMAIN temp :
         temp[n].whole \/ \E i \in Instances : pc[i] = "saving" /\ target[i].name = n
    /\ \A i \in Instances : pc[i] = "saving" => target[i].sound.whole
    /\ \A i \in Instances : filter[i] # NONE => filter[i].whole
    /\ \A i \in Instances : ChainThere(i)
    /\ died # "unreadable"

\* While one set-up is under way and not writing, every file is whole.
LEMMA AllWhole ==
  ASSUME WholeInv, Alone, NEW i \in Instances, pc[i] \notin {"idle", "saving"}
  PROVE  /\ \A n \in DOMAIN temp : temp[n].whole
         /\ \A n : Exists(n) => Sound(n).whole
<1>1. \A k \in Instances : pc[k] # "saving"
  BY DEF WholeInv
<1>2. \A n \in DOMAIN temp : temp[n].whole
  BY <1>1 DEF WholeInv
<1>3. ASSUME NEW n, Exists(n) PROVE Sound(n).whole
  <2>1. CASE n \in DOMAIN temp
    BY <1>2, <2>1 DEF Sound
  <2>2. CASE n \notin DOMAIN temp
    BY <2>2 DEF Sound
  <2> QED BY <2>1, <2>2
<1> QED BY <1>2, <1>3

LEMMA OthersIdle ==
  ASSUME WholeInv, Alone, NEW i \in Instances, pc[i] # "idle", Apart(i)
  PROVE  \A k \in Instances \ {i} : pc[k] = "idle" /\ pc'[k] = "idle" /\ filter'[k] = filter[k]
<1>1. \A k \in Instances \ {i} : pc[k] = "idle"
  BY DEF WholeInv
<1> QED BY <1>1 DEF Apart

\* A step that writes no file.
LEMMA NothingWritten ==
  ASSUME WholeInv, Alone, NEW i \in Instances, Apart(i), temp' = temp, died' = died,
         pc[i] # "idle" \/ Busy = {}, pc[i] # "saving", pc'[i] # "saving",
         filter'[i] # NONE => filter'[i].whole, ChainThere(i)'
  PROVE  WholeInv'
<1>1. \A k \in Instances \ {i} : pc[k] = "idle" /\ pc'[k] = "idle"
  BY OthersIdle DEF Busy, Apart
<1>2. \A n \in DOMAIN temp : temp[n].whole
  BY <1>1 DEF WholeInv
<1>3. \A k \in Instances : filter'[k] # NONE => filter'[k].whole
  BY DEF WholeInv, Apart
<1>4. \A k \in Instances : ChainThere(k)'
  BY DEF WholeInv, Apart, ChainThere, Exists
<1> QED BY <1>1, <1>2, <1>3, <1>4 DEF WholeInv

LEMMA BeginWhole ==
  ASSUME MadeInv, FitInv, WholeInv, NEW i \in Instances, NEW st \in Streams, Begin(i, st), Alone'
  PROVE  WholeInv'
<1>1. Alone /\ Busy = {} /\ temp' = temp /\ died' = died /\ pc[i] = "idle"
  BY DEF Begin, Alone
<1>2. Apart(i)
  BY FitDomains DEF Begin, Apart
<1>3. pc'[i] = "slots" /\ filter'[i] = NONE /\ chain'[i] = <<>>
  BY FitDomains DEF Begin
<1> QED BY <1>1, <1>2, <1>3, NothingWritten DEF ChainThere

\* What is in the chain stays there while no file is removed.
LEMMA ThereStays ==
  ASSUME NEW i \in Instances, ChainThere(i), DOMAIN temp \subseteq DOMAIN temp', chain'[i] = chain[i]
  PROVE  ChainThere(i)'
BY DEF ChainThere, Exists

\* A file that is there may be put at the end of the chain.
LEMMA ThereGrows ==
  ASSUME NEW i \in Instances, ChainThere(i), ChainKnown(i), DOMAIN temp \subseteq DOMAIN temp',
         NEW name, NEW scale, chain'[i] = Append(chain[i], Entry(name, scale)), Exists(name)'
  PROVE  ChainThere(i)'
<1>1. PICK e, there : e = Entry(name, scale) /\ there = FileNames \cup DOMAIN temp'
  OBVIOUS
<1>2. e.name = name /\ name \in there
  BY <1>1 DEF Entry, Exists
<1>3. \A j \in DOMAIN Append(chain[i], e) :
        Append(chain[i], e)[j] = e \/ \E k \in DOMAIN chain[i] : Append(chain[i], e)[j] = chain[i][k]
  BY AppendKeeps DEF ChainKnown
<1>4. \A k \in DOMAIN chain[i] : chain[i][k].name \in there
  BY <1>1 DEF ChainThere, Exists
<1>5. chain'[i] = Append(chain[i], e)
  BY <1>1
<1>6. \A j \in DOMAIN chain'[i] : chain'[i][j].name \in there
  BY <1>2, <1>3, <1>4, <1>5
<1> QED BY <1>1, <1>6 DEF ChainThere, Exists

LEMMA SlotsWhole ==
  ASSUME MadeInv, FitInv, WholeInv, NEW i \in Instances, Alone,
         SkipSlot(i) \/ TakeSlot(i) \/ MakeSlot(i)
  PROVE  WholeInv'
<1>1. temp' = temp /\ died' = died /\ pc[i] = "slots" /\ filter' = filter
  BY DEF SkipSlot, TakeSlot, MakeSlot, AtSlot, counters
<1>2. Apart(i)
  BY FitDomains DEF SkipSlot, TakeSlot, MakeSlot, Apart
<1>3. pc'[i] \in {"slots", "making"}
  BY <1>1, FitDomains DEF SkipSlot, TakeSlot, MakeSlot
<1>4. filter'[i] # NONE => filter'[i].whole
  BY <1>1 DEF WholeInv
<1>5. ChainThere(i)'
  <2>1. CASE chain'[i] = chain[i]
    BY <1>1, <2>1, ThereStays DEF WholeInv
  <2>2. CASE TakeSlot(i)
    <3>1. PICK name, scale : name = Wanted(i).name /\ scale = settings[Slots[slot[i]]].scale
      OBVIOUS
    <3>2. chain'[i] = Append(chain[i], Entry(name, scale)) /\ Exists(name) /\ files' = files
      BY <2>2, <3>1, FitDomains DEF TakeSlot
    <3>3. Exists(name)'
      BY <1>1, <3>2 DEF Exists
    <3> QED BY <1>1, <3>2, <3>3, ThereGrows DEF WholeInv, MadeInv, Known
  <2> QED BY <2>1, <2>2 DEF SkipSlot, MakeSlot
<1> QED BY <1>1, <1>2, <1>3, <1>4, <1>5, NothingWritten

LEMMA EndWhole ==
  ASSUME MadeInv, FitInv, WholeInv, NEW i \in Instances, Alone,
         NoImpulse(i) \/ NoFilter(i) \/ OneImpulse(i) \/ Measure(i) \/ \E onStack \in OnStack : Scan(i, onStack)
  PROVE  WholeInv'
<1>1. temp' = temp /\ died' = died /\ pc[i] \in {"slots", "measure"} /\ filter' = filter
  BY DEF NoImpulse, NoFilter, OneImpulse, Measure, Scan, AtEnd, counters
<1>2. Apart(i)
  <2>1. CASE NoImpulse(i) \/ NoFilter(i)
    BY <1>1, <2>1, FitDomains DEF NoImpulse, NoFilter, Done, Apart
  <2>2. CASE OneImpulse(i) \/ Measure(i)
    BY <1>1, <2>2, FitDomains DEF OneImpulse, Measure, ToLoad, Apart
  <2>3. CASE \E onStack \in OnStack : Scan(i, onStack)
    BY <1>1, <2>3, FitDomains DEF Scan, ToLoad, Apart
  <2> QED BY <2>1, <2>2, <2>3
<1>3. pc'[i] \in {"idle", "measure", "load", "making"}
  <2>1. CASE NoImpulse(i) \/ NoFilter(i)
    BY <2>1, FitDomains DEF NoImpulse, NoFilter, Done
  <2>2. CASE OneImpulse(i) \/ Measure(i)
    BY <2>2, FitDomains DEF OneImpulse, Measure, ToLoad
  <2>3. CASE \E onStack \in OnStack : Scan(i, onStack)
    BY <2>3, FitDomains DEF Scan, ToLoad
  <2> QED BY <2>1, <2>2, <2>3
<1>4. filter'[i] # NONE => filter'[i].whole
  BY <1>1 DEF WholeInv
<1>5. chain'[i] \in {chain[i], <<>>}
  <2>1. CASE NoImpulse(i) \/ NoFilter(i)
    BY <2>1, FitDomains DEF NoImpulse, NoFilter, Done
  <2>2. CASE OneImpulse(i) \/ Measure(i) \/ \E onStack \in OnStack : Scan(i, onStack)
    BY <2>2 DEF OneImpulse, Measure, Scan
  <2> QED BY <2>1, <2>2
<1>6. ChainThere(i)'
  BY <1>1, <1>5, ThereStays DEF WholeInv, ChainThere
<1> QED BY <1>1, <1>2, <1>3, <1>4, <1>6, NothingWritten

LEMMA SetCoeffWhole ==
  ASSUME MadeInv, FitInv, WholeInv, NEW i \in Instances, Alone, SetCoeff(i)
  PROVE  WholeInv'
<1> DEFINE s == Sound(target[i].name)
           d == Padded([n \in DOMAIN s.data |-> target[i].scale * s.data[n]],
                       target[i].blocks * FilterLength)
           g == [channels |-> s.channels, data |-> d, made |-> s.made, whole |-> s.whole]
           f == IF ~Fits(target[i].name, stream[i]) THEN NONE ELSE g
<1>1. /\ Done(i) /\ temp' = temp /\ died' = died /\ UNCHANGED stream /\ pc[i] = "load"
      /\ filter' = [filter EXCEPT ![i] = f]
  BY DEF SetCoeff, counters
<1>2. ASSUME f # NONE PROVE f.whole
  <2>1. Exists(target[i].name) /\ f = g
    BY <1>2 DEF Fits, Readable
  <2>2. s.whole
    BY <1>1, <2>1, AllWhole
  <2> HIDE DEF s, d
  <2> QED BY <2>1, <2>2
<1> HIDE DEF f
<1>3. Apart(i)
  BY <1>1, FitDomains DEF Done, Apart
<1>4. pc'[i] = "idle" /\ filter'[i] = f /\ chain'[i] = <<>>
  BY <1>1, FitDomains DEF Done
<1> QED BY <1>1, <1>2, <1>3, <1>4, NothingWritten DEF ChainThere

\* Where the set-up goes on nobody writes.
LEMMA GoOnApart ==
  ASSUME MadeInv, FitInv, NEW i \in Instances, NEW name, GoOn(i, name),
         UNCHANGED <<filter, stream>>
  PROVE  Apart(i) /\ pc'[i] \in {"slots", "measure"} /\ filter'[i] = filter[i]
<1>1. CASE target[i].kind = "chain"
  BY <1>1, FitDomains DEF GoOn, ToLoad, Apart
<1>2. CASE target[i].kind # "chain"
  BY <1>2, FitDomains DEF GoOn, Apart
<1> QED BY <1>1, <1>2

LEMMA MakeFailsWhole ==
  ASSUME MadeInv, FitInv, WholeInv, NEW i \in Instances, Alone, MakeFails(i)
  PROVE  WholeInv'
<1>1. /\ temp' = temp /\ died' = died /\ pc[i] = "making" /\ GoOn(i, NONE)
      /\ UNCHANGED <<filter, stream>>
  BY DEF MakeFails, counters
<1>2. Apart(i) /\ pc'[i] \in {"slots", "measure"} /\ filter'[i] = filter[i]
  BY <1>1, GoOnApart
<1>3. filter'[i] # NONE => filter'[i].whole
  BY <1>2 DEF WholeInv
<1>4. chain'[i] = chain[i]
  BY <1>1, FitDomains DEF GoOn
<1>5. ChainThere(i)'
  BY <1>1, <1>4, ThereStays DEF WholeInv
<1> QED BY <1>1, <1>2, <1>3, <1>5, NothingWritten

\* What is made of whole files is whole.
LEMMA ProductWhole ==
  ASSUME MadeInv, FitInv, WholeInv, NEW i \in Instances, Alone, pc[i] = "making", Loadable(i)
  PROVE  Product(i).whole
<1>1. \A n : Exists(n) => Sound(n).whole
  BY AllWhole
<1>2. CASE target[i].kind = "chain"
  <2>1. \A j \in DOMAIN chain[i] : Sound(chain[i][j].name).whole
    BY <1>1, <1>2 DEF Loadable, Readable
  <2>2. Product(i).whole = \A j \in DOMAIN chain[i] : Sound(chain[i][j].name).whole
    BY <1>2 DEF Product, Convolved
  <2> QED BY <2>1, <2>2
<1>3. CASE target[i].kind = "eq"
  BY <1>3 DEF Product, Rendered
<1>4. CASE target[i].kind = "ir"
  <2>1. Exists(target[i].from) /\ Product(i) = Resampled(Sound(target[i].from), stream[i])
    BY <1>4 DEF Loadable, Readable, Product
  <2>2. SoundOK(Sound(target[i].from))
    BY <2>1, SoundIsSound DEF FitInv
  <2>3. Plausible(stream[i])
    BY StreamsPlausible DEF FitInv, Fitting, SetUpOK
  <2>4. Product(i).whole = Sound(target[i].from).whole
    BY <2>1, <2>2, <2>3, ResampledOK
  <2> QED BY <1>1, <2>1, <2>4
<1> QED BY <1>2, <1>3, <1>4 DEF MadeInv, Known, TargetKnown

LEMMA OpenWhole ==
  ASSUME MadeInv, FitInv, WholeInv, NEW i \in Instances, Alone, Open(i)
  PROVE  WholeInv'
<1>0. PICK s, name : s = Product(i) /\ name = target[i].name
  OBVIOUS
<1>1. pc[i] = "making" /\ Making(i) /\ s.whole
  BY <1>0, ProductWhole DEF Open, FitInv, Fitting, SetUpOK
<1> DEFINE t == [target[i] EXCEPT !.sound = s]
<1>2. /\ \E e \in {Headless(s), Opened(s)} : temp' = Put(name, e)
      /\ UNCHANGED <<filter, stream, slot, chain, died>>
      /\ pc' = [pc EXCEPT ![i] = "saving"] /\ target' = [target EXCEPT ![i] = t]
  BY <1>0 DEF Open, counters
<1>3. pc'[i] = "saving" /\ target'[i] = t
  BY <1>2, FitDomains
<1>4. t.sound = s /\ t.name = name
  BY <1>0, <1>1 DEF Making
<1> HIDE DEF t
<1>5. Apart(i)
  BY <1>2, FitDomains DEF Apart
<1>6. \A k \in Instances \ {i} : pc[k] = "idle" /\ pc'[k] = "idle" /\ filter'[k] = filter[k]
  BY <1>1, <1>5, OthersIdle
<1>7. \A n \in DOMAIN temp : temp[n].whole
  BY <1>1, AllWhole
<1>8. \A n \in DOMAIN temp' : n # name => temp'[n].whole
  BY <1>2, <1>7 DEF Put
<1>9. \A n \in DOMAIN temp' :
        temp'[n].whole \/ \E k \in Instances : pc'[k] = "saving" /\ target'[k].name = n
  BY <1>3, <1>4, <1>8
<1>10. \A k \in Instances : pc'[k] = "saving" => target'[k].sound.whole
  BY <1>1, <1>3, <1>4, <1>6
<1>11. \A k \in Instances : filter'[k] # NONE => filter'[k].whole
  BY <1>2 DEF WholeInv
<1>12. \A j, k \in Instances : pc'[j] # "idle" /\ pc'[k] # "idle" => j = k
  BY <1>6
<1>13. DOMAIN temp \subseteq DOMAIN temp'
  BY <1>2 DEF Put
<1>14. \A k \in Instances : ChainThere(k)'
  BY <1>2, <1>13, ThereStays DEF WholeInv
<1> QED BY <1>2, <1>9, <1>10, <1>11, <1>12, <1>14 DEF WholeInv

LEMMA SaveWhole ==
  ASSUME MadeInv, FitInv, WholeInv, NEW i \in Instances, Alone, Save(i)
  PROVE  WholeInv'
<1>0. PICK s, name : s = target[i].sound /\ name = target[i].name
  OBVIOUS
<1>1. pc[i] = "saving" /\ s.whole
  BY <1>0 DEF Save, WholeInv
<1>2. temp' = Put(name, s) /\ GoOn(i, name) /\ UNCHANGED <<filter, stream, died>>
  BY <1>0 DEF Save, counters
<1>3. Apart(i) /\ pc'[i] \in {"slots", "measure"}
  BY <1>2, GoOnApart
<1>4. \A k \in Instances \ {i} : pc[k] = "idle" /\ pc'[k] = "idle"
  BY <1>1, <1>3, OthersIdle
<1>5. \A n \in DOMAIN temp : n # name => temp[n].whole
  BY <1>0, <1>4 DEF WholeInv
<1>6. \A n \in DOMAIN temp' : temp'[n].whole
  BY <1>1, <1>2, <1>5 DEF Put
<1>7. \A k \in Instances : filter'[k] # NONE => filter'[k].whole
  BY <1>2 DEF WholeInv
<1>8. \A k \in Instances : pc'[k] # "saving"
  BY <1>3, <1>4
<1>9. \A j, k \in Instances : pc'[j] # "idle" /\ pc'[k] # "idle" => j = k
  BY <1>4
<1>10. DOMAIN temp \subseteq DOMAIN temp' /\ Exists(name)'
  BY <1>2 DEF Put, Exists
<1>11. ASSUME NEW k \in Instances PROVE ChainThere(k)'
  <2>1. CASE chain'[k] = chain[k]
    BY <1>10, <2>1, ThereStays DEF WholeInv
  <2>2. CASE chain'[k] # chain[k]
    <3>1. k = i
      BY <1>3, <2>2 DEF Apart
    <3>2. PICK scale : scale = settings[Slots[slot[i]]].scale
      OBVIOUS
    <3>3. chain'[i] = Append(chain[i], Entry(name, scale))
      BY <1>2, <2>2, <3>1, <3>2, FitDomains DEF GoOn
    <3> QED BY <1>10, <3>1, <3>3, ThereGrows DEF WholeInv, MadeInv, Known
  <2> QED BY <2>1, <2>2
<1> QED BY <1>2, <1>6, <1>7, <1>8, <1>9, <1>11 DEF WholeInv

\* While the chain's files are there, and whole, all can be opened.
LEMMA MismatchReadable ==
  ASSUME FitInv, WholeInv, Alone, NEW i \in Instances, NEW onStack, Mismatch(i, onStack)
  PROVE  died' = "mismatch"
<1>1. pc[i] = "slots"
  BY DEF Mismatch, AtEnd
<1>2. ASSUME NEW j \in DOMAIN chain[i] PROVE Readable(chain[i][j].name)
  <2>1. PICK n : n = chain[i][j].name
    OBVIOUS
  <2>2. Exists(n)
    BY <2>1 DEF WholeInv, ChainThere
  <2>3. SoundOK(Sound(n)) /\ Sound(n).whole
    BY <1>1, <2>2, AllWhole, SoundIsSound DEF FitInv
  <2> QED BY <2>1, <2>2, <2>3 DEF SoundOK, Readable
<1> QED BY <1>2 DEF Mismatch

LEMMA PlayerEndsWhole ==
  ASSUME FitInv, WholeInv, Alone,
         Quit \/ \E i \in Instances, onStack \in OnStack : Mismatch(i, onStack)
  PROVE  WholeInv'
<1>1. \A k \in Instances : pc'[k] = "idle" /\ filter'[k] = NONE /\ chain'[k] = <<>>
  BY DEF Quit, Mismatch, Restart
<1>2. (\A n \in DOMAIN temp' : temp'[n].whole) /\ died' # "unreadable"
  <2>1. CASE Quit
    <3>1. \A n \in DOMAIN temp' : n \in DOMAIN temp /\ temp'[n] = temp[n]
      BY <2>1 DEF Quit, LeftByClean, Astray
    <3>2. \A k \in Instances : pc[k] = "idle"
      BY <2>1 DEF Quit, Busy
    <3> QED BY <2>1, <3>1, <3>2 DEF Quit, WholeInv
  <2>2. CASE \E i \in Instances, onStack \in OnStack : Mismatch(i, onStack)
    BY <2>2, AllWhole, MismatchReadable DEF Mismatch, AtEnd
  <2> QED BY <2>1, <2>2
<1> QED BY <1>1, <1>2 DEF WholeInv, ChainThere

LEMMA SameWhole ==
  ASSUME WholeInv, UNCHANGED <<temp, pc, chain, target, filter, faulty, together, died>>
  PROVE  WholeInv'
BY DEF WholeInv, Alone, ChainThere, Exists

LEMMA StepWhole == MadeInv /\ FitInv /\ WholeInv /\ [Next]_vars => WholeInv'
<1> SUFFICES ASSUME MadeInv, FitInv, WholeInv, [Next]_vars, Alone' PROVE WholeInv'
  BY DEF WholeInv
<1>1. ASSUME NEW i \in Instances, Step(i)
      PROVE  WholeInv'
  <2>1. CASE \E st \in Streams : Begin(i, st)
    BY <2>1, BeginWhole
  <2>2. CASE SkipSlot(i) \/ TakeSlot(i) \/ MakeSlot(i)
    <3>1. Alone
      BY <2>2 DEF SkipSlot, TakeSlot, MakeSlot, counters, Alone
    <3> QED BY <2>2, <3>1, SlotsWhole
  <2>3. CASE NoImpulse(i) \/ NoFilter(i) \/ OneImpulse(i) \/ Measure(i)
    <3>1. Alone
      BY <2>3 DEF NoImpulse, NoFilter, OneImpulse, Measure, counters, Alone
    <3> QED BY <2>3, <3>1, EndWhole
  <2>4. CASE \E onStack \in OnStack : Scan(i, onStack)
    <3>1. Alone
      BY <2>4 DEF Scan, counters, Alone
    <3> QED BY <2>4, <3>1, EndWhole
  <2>5. CASE \E onStack \in OnStack : Mismatch(i, onStack)
    <3>1. Alone
      BY <2>5 DEF Mismatch, Alone
    <3> QED BY <2>5, <3>1, PlayerEndsWhole
  <2>6. CASE MakeFails(i) \/ Open(i) \/ Save(i) \/ SetCoeff(i)
    <3>1. Alone
      BY <2>6 DEF MakeFails, Open, Save, SetCoeff, counters, Alone
    <3> QED BY <2>6, <3>1, MakeFailsWhole, OpenWhole, SaveWhole, SetCoeffWhole
  <2>7. CASE OpenFails(i) \/ SaveFails(i)
    BY <2>7 DEF OpenFails, SaveFails, Alone
  <2> QED BY <1>1, <2>1, <2>2, <2>3, <2>4, <2>5, <2>6, <2>7 DEF Step
<1>2. CASE \/ \E n \in FileNames, s \in Contents : Replace(n, s)
           \/ \E s \in Settings : Change(s)
  BY <1>2, SameWhole DEF Replace, Change, own
<1>3. CASE Crash \/ QuitUnclean
  BY <1>3 DEF Crash, QuitUnclean, Alone
<1>4. CASE Quit
  <2>1. Alone
    BY <1>4 DEF Quit, Alone
  <2> QED BY <1>4, <2>1, PlayerEndsWhole
<1>5. CASE LoseDirectory \/ FindDirectory \/ UNCHANGED vars
  BY <1>5, SameWhole DEF LoseDirectory, FindDirectory, vars, own, counters
<1> QED BY <1>1, <1>2, <1>3, <1>4, <1>5 DEF Next

LEMMA InitWhole == Init => WholeInv
BY DEF Init, WholeInv, ChainThere

LEMMA Typed == MadeInv /\ FitInv => TypeOK
<1> SUFFICES ASSUME MadeInv, FitInv PROVE TypeOK
  OBVIOUS
<1>1. \A i \in Instances :
        /\ pc[i] \in {"idle", "slots", "making", "saving", "measure", "load"}
        /\ stream[i] \in Streams \cup {NONE}
        /\ slot[i] \in 0 .. Len(Slots) + 1 /\ Len(chain[i]) <= Len(Slots)
        /\ filter[i] # NONE => Len(filter[i].data) % FilterLength = 0
  BY SlotsNat DEF FitInv, Fitting, SetUpOK
<1>2. pc \in [Instances -> {"idle", "slots", "making", "saving", "measure", "load"}]
  BY <1>1 DEF MadeInv, Functions, IsFunction
<1>3. files \in [FileNames -> Contents] /\ settings \in Settings
  BY DEF FitInv, FilesNamed
<1>4. \A n \in DOMAIN temp : n[1] \in {"temp", "working"} /\ temp[n].channels \in Nat \ {0}
  BY DEF FitInv, FilesNamed, Named, MadeHere, SoundOK, Plausible
<1> QED BY <1>1, <1>2, <1>3, <1>4 DEF TypeOK

\* Without crashes, errors of the disk and set-ups that meet, no file is left
\* unfinished but the one being written and no filter is loaded with a part of
\* one (preprocessor.cpp:101, 199, buffer.cpp:256, 300, equalizer.cpp:127).
THEOREM AloneAllWholeHolds == Spec => []AloneAllWhole
<1>1. MadeInv /\ FitInv /\ WholeInv => AloneAllWhole
  BY Typed DEF WholeInv, Alone, AloneAllWhole
<1> QED BY <1>1, InitMade, StepMade, InitFits, StepFits, InitWhole, StepWhole, PTL DEF Spec

\* However many DSP objects set up however many chains, for whatever streams:
\* if the files of the chain can all be opened, the player is ended by a
\* mismatch only after the user replaced a file during a set-up, because each
\* impulse that gets into a chain has the stream's channels and rate, or a file
\* that is named after them and has those it is named after.  It is ended for a
\* file that cannot be opened only after a crash or an error of the disk, or
\* when two set-ups met, because else the files of a chain are there and whole
\* (preprocessor.cpp:63-82, buffer.cpp:124-138, 242-256,
\* foo_dsp_bfir.cpp:181-192).
THEOREM NeverEndsUndisturbed == Spec => []DiesOnlyIfDisturbed
<1>1. FitInv /\ WholeInv => DiesOnlyIfDisturbed
  BY DEF FitInv, Quiet, WholeInv, Alone, DiesOnlyIfDisturbed
<1> QED BY <1>1, InitMade, StepMade, InitFits, StepFits, InitWhole, StepWhole, PTL DEF Spec

-----------------------------------------------------------------------------
(* Sums and samples.                                                       *)

\* A sum is built up term by term.
LEMMA SumIs ==
  ASSUME NEW n \in Nat, NEW f, \A k \in 0 .. n - 1 : f[k] \in Int
  PROVE  \E s \in [0 .. n -> Int] :
           s[0] = 0 /\ (\A k \in 1 .. n : s[k] = s[k - 1] + f[k - 1]) /\ Sum(f, n) = s[n]
<1> DEFINE g == [p \in (1 .. n) \X Int |-> p[2] + f[p[1] - 1]]
<1>1. g \in [(1 .. n) \X Int -> Int]
  OBVIOUS
<1>2. \A k \in 1 .. n, v \in Int : g[<<k, v>>] = v + f[k - 1]
  OBVIOUS
<1> HIDE DEF g
<1>3. PICK s : Unfolds(s, n, Int, 0, g)
  <2>1. 0 \in Int
    OBVIOUS
  <2> QED BY <1>1, <2>1, Recursion
<1>4. s \in [0 .. n -> Int] /\ s[0] = 0
  BY <1>3 DEF Unfolds
<1>5. \A k \in 1 .. n : s[k] = s[k - 1] + f[k - 1]
  <2> TAKE k \in 1 .. n
  <2>1. k - 1 \in 0 .. n /\ s[k] = g[<<k, s[k - 1]>>]
    BY <1>3 DEF Unfolds
  <2> QED BY <1>2, <1>4, <2>1
<1> DEFINE E(h) == h = [k \in 0 .. n |-> IF k = 0 THEN 0 ELSE h[k - 1] + f[k - 1]]
<1>6. E(s)
  BY <1>4, <1>5
<1> DEFINE t == CHOOSE h : E(h)
<1>7. E(t)
  BY <1>6
<1>8. Sum(f, n) = t[n]
  BY DEF Sum
<1> HIDE DEF t
<1>9. t[0] = 0 /\ \A k \in 1 .. n : t[k] = t[k - 1] + f[k - 1]
  <2>1. \A k \in 0 .. n : t[k] = IF k = 0 THEN 0 ELSE t[k - 1] + f[k - 1]
    BY <1>7
  <2>2. 0 \in 0 .. n /\ \A k \in 1 .. n : k \in 0 .. n /\ k # 0
    OBVIOUS
  <2> QED BY <2>1, <2>2
<1> DEFINE S == {k \in Nat : k <= n => t[k] = s[k]}
<1>10. Nat \subseteq S
  <2>1. 0 \in S
    BY <1>4, <1>9
  <2>2. ASSUME NEW k \in Nat, k \in S PROVE k + 1 \in S
    <3>1. SUFFICES ASSUME k + 1 <= n PROVE t[k + 1] = s[k + 1]
      OBVIOUS
    <3>2. k + 1 \in 1 .. n /\ (k + 1) - 1 = k /\ t[k] = s[k]
      BY <2>2, <3>1
    <3> QED BY <1>5, <1>9, <3>2
  <2> HIDE DEF S
  <2> QED BY <2>1, <2>2, Induction
<1>11. t[n] = s[n]
  BY <1>10
<1> QED BY <1>4, <1>5, <1>8, <1>11

\* Terms that are zero may be left out at the end.
Shorter(f, n, g, m) ==
  /\ \A k \in 0 .. m - 1 : f[k] \in Int /\ g[k] = f[k]
  /\ \A k \in m .. n - 1 : f[k] = 0

\* The same sum, without the zeros at its end.
LEMMA SumShorter ==
  ASSUME NEW n \in Nat, NEW m \in 0 .. n, NEW f, NEW g, Shorter(f, n, g, m)
  PROVE  Sum(f, n) = Sum(g, m) /\ Sum(f, n) \in Int
<1>0. /\ \A k \in 0 .. m - 1 : f[k] \in Int /\ g[k] = f[k]
      /\ \A k \in m .. n - 1 : f[k] = 0
  BY DEF Shorter
<1>1. \A k \in 0 .. n - 1 : f[k] \in Int
  BY <1>0
<1>2. PICK s \in [0 .. n -> Int] :
        s[0] = 0 /\ (\A k \in 1 .. n : s[k] = s[k - 1] + f[k - 1]) /\ Sum(f, n) = s[n]
  BY <1>1, SumIs
<1>3. m \in Nat /\ \A k \in 0 .. m - 1 : g[k] \in Int
  BY <1>0
<1>4. PICK t \in [0 .. m -> Int] :
        t[0] = 0 /\ (\A k \in 1 .. m : t[k] = t[k - 1] + g[k - 1]) /\ Sum(g, m) = t[m]
  BY <1>3, SumIs
<1> DEFINE S == {k \in Nat : k <= n => s[k] = IF k <= m THEN t[k] ELSE t[m]}
<1>5. Nat \subseteq S
  <2>1. 0 \in S
    BY <1>2, <1>4
  <2>2. ASSUME NEW k \in Nat, k \in S PROVE k + 1 \in S
    <3>1. SUFFICES ASSUME k + 1 <= n PROVE s[k + 1] = IF k + 1 <= m THEN t[k + 1] ELSE t[m]
      OBVIOUS
    <3>2. s[k] = IF k <= m THEN t[k] ELSE t[m]
      BY <2>2, <3>1
    <3>3. s[k + 1] = s[k] + f[k]
      <4>1. k + 1 \in 1 .. n /\ (k + 1) - 1 = k
        BY <3>1
      <4> QED BY <1>2, <4>1
    <3>4. CASE k + 1 <= m
      <4>1. k + 1 \in 1 .. m /\ (k + 1) - 1 = k /\ k \in 0 .. m - 1 /\ k <= m
        BY <3>4
      <4>2. t[k + 1] = t[k] + g[k] /\ g[k] = f[k]
        BY <1>0, <1>4, <4>1
      <4> QED BY <3>2, <3>3, <3>4, <4>1, <4>2
    <3>5. CASE ~(k + 1 <= m)
      <4>1. k \in m .. n - 1 /\ (k <= m => k = m)
        BY <3>1, <3>5
      <4>2. f[k] = 0 /\ s[k] = t[m] /\ t[m] \in Int
        BY <1>0, <1>3, <1>4, <3>2, <4>1
      <4> QED BY <3>3, <3>5, <4>2
    <3> QED BY <3>4, <3>5
  <2> HIDE DEF S
  <2> QED BY <2>1, <2>2, Induction
<1>6. s[n] = IF n <= m THEN t[n] ELSE t[m]
  BY <1>5
<1>7. s[n] = t[m] /\ s[n] \in Int
  BY <1>2, <1>6
<1> QED BY <1>2, <1>4, <1>7

\* A sum of zeros.
LEMMA SumNothing ==
  ASSUME NEW n \in Nat, NEW f, \A k \in 0 .. n - 1 : f[k] = 0
  PROVE  Sum(f, n) = 0
<1>1. \A k \in 0 .. n - 1 : f[k] \in Int
  OBVIOUS
<1>2. PICK s \in [0 .. n -> Int] :
        s[0] = 0 /\ (\A k \in 1 .. n : s[k] = s[k - 1] + f[k - 1]) /\ Sum(f, n) = s[n]
  BY <1>1, SumIs
<1> DEFINE S == {k \in Nat : k <= n => s[k] = 0}
<1>3. 0 \in S
  BY <1>2
<1>4. ASSUME NEW k \in Nat, k \in S PROVE k + 1 \in S
  <2>1. SUFFICES ASSUME k + 1 <= n PROVE s[k + 1] = 0
    OBVIOUS
  <2>2. k + 1 \in 1 .. n /\ (k + 1) - 1 = k /\ k \in 0 .. n - 1 /\ s[k] = 0
    BY <1>4, <2>1
  <2>3. s[k + 1] = s[k] + f[k] /\ f[k] = 0
    BY <1>2, <2>2
  <2> QED BY <2>2, <2>3
<1>5. Nat \subseteq S
  <2> HIDE DEF S
  <2> QED BY <1>3, <1>4, Induction
<1> QED BY <1>2, <1>5

\* A sample of a sequence is one of its elements, or zero outside of it.
LEMMA SampleIs ==
  ASSUME NEW s \in Seq(Int), NEW k \in Int
  PROVE  Sample(s, k) \in Int /\ (k < 0 \/ k >= Len(s) => Sample(s, k) = 0)
         /\ (k \in 0 .. Len(s) - 1 => Sample(s, k) = s[k + 1])
<1>1. Len(s) \in Nat /\ DOMAIN s = 1 .. Len(s)
  OBVIOUS
<1>2. CASE k >= 0 /\ k < Len(s)
  <2>1. k + 1 \in 1 .. Len(s)
    BY <1>1, <1>2
  <2> QED BY <1>2, <2>1 DEF Sample
<1>3. CASE ~(k >= 0 /\ k < Len(s))
  BY <1>1, <1>3 DEF Sample
<1> QED BY <1>2, <1>3

\* What is padded or cut off has the same samples.
LEMMA PaddedIs ==
  ASSUME NEW s \in Seq(Int), NEW n \in Nat
  PROVE  /\ Padded(s, n) \in Seq(Int) /\ Len(Padded(s, n)) = n
         /\ \A k \in 1 .. n : Padded(s, n)[k] = Sample(s, k - 1)
         /\ \A k \in Int : k < n => Sample(Padded(s, n), k) = Sample(s, k)
<1> DEFINE p == Padded(s, n)
<1>1. /\ p = [k \in 1 .. n |-> p[k]]
      /\ \A k \in 1 .. n : p[k] = Sample(s, k - 1)
  BY DEF Padded
<1>2. \A k \in 1 .. n : p[k] \in Int
  BY <1>1, SampleIs
<1> HIDE DEF p
<1>3. p \in [1 .. n -> Int]
  BY <1>1, <1>2
<1>4. p \in Seq(Int) /\ Len(p) = n
  BY <1>3
<1>5. ASSUME NEW k \in Int, k < n PROVE Sample(p, k) = Sample(s, k)
  <2>1. CASE k < 0
    BY <1>4, <2>1, SampleIs
  <2>2. CASE k >= 0
    <3>1. k + 1 \in 1 .. n /\ (k + 1) - 1 = k /\ k \in 0 .. Len(p) - 1
      BY <1>4, <1>5, <2>2
    <3> QED BY <1>1, <1>4, <3>1, SampleIs
  <2> QED BY <2>1, <2>2
<1> QED BY <1>1, <1>4, <1>5 DEF p


\* A sample of a convolution, also outside of it.
Products(a, b, m) == [k \in 0 .. Len(a) - 1 |-> Sample(a, k) * Sample(b, m - k)]

\* The terms of a convolution are numbers.
LEMMA ProductsInt ==
  ASSUME NEW a \in Seq(Int), NEW b \in Seq(Int), NEW m \in Int
  PROVE  \A k \in 0 .. Len(a) - 1 :
           Products(a, b, m)[k] \in Int /\ Products(a, b, m)[k] = Sample(a, k) * Sample(b, m - k)
<1> TAKE k \in 0 .. Len(a) - 1
<1>1. k \in Int /\ m - k \in Int
  OBVIOUS
<1>2. Sample(a, k) \in Int /\ Sample(b, m - k) \in Int
  BY <1>1, SampleIs
<1>3. Products(a, b, m)[k] = Sample(a, k) * Sample(b, m - k)
  BY DEF Products
<1> QED BY <1>2, <1>3

\* The length of a convolution.
ConvolutionLength(a, b) == IF a = <<>> \/ b = <<>> THEN 0 ELSE Len(a) + Len(b) - 1

\* A convolution has the sample that its sum says, also beyond its end.
LEMMA ConvolutionIs ==
  ASSUME NEW a \in Seq(Int), NEW b \in Seq(Int)
  PROVE  /\ Convolution(a, b) \in Seq(Int) /\ Len(Convolution(a, b)) = ConvolutionLength(a, b)
         /\ \A m \in Nat : Sample(Convolution(a, b), m) = Sum(Products(a, b, m), Len(a))
<1> DEFINE c == Convolution(a, b)
           n == ConvolutionLength(a, b)
<1>1. Len(a) \in Nat /\ Len(b) \in Nat /\ n \in Nat
      /\ (a = <<>> => Len(a) = 0) /\ (b = <<>> => Len(b) = 0)
      /\ (a # <<>> => Len(a) > 0) /\ (b # <<>> => Len(b) > 0)
  BY DEF ConvolutionLength
<1>2. c = [k \in 1 .. n |-> Sum(Products(a, b, k - 1), Len(a))]
  BY DEF Convolution, ConvolutionLength, Products
<1>3. \A m \in Int : Sum(Products(a, b, m), Len(a)) \in Int
  <2> TAKE m \in Int
  <2>1. \A k \in 0 .. Len(a) - 1 : Products(a, b, m)[k] \in Int
    BY ProductsInt
  <2> HIDE DEF n, c
  <2>2. PICK s \in [0 .. Len(a) -> Int] : Sum(Products(a, b, m), Len(a)) = s[Len(a)]
    BY <1>1, <2>1, SumIs
  <2> QED BY <1>1, <2>2
<1> HIDE DEF n, c
<1>4. c \in [1 .. n -> Int]
  BY <1>2, <1>3
<1>5. c \in Seq(Int) /\ Len(c) = n
  BY <1>1, <1>4
<1>6. ASSUME NEW m \in Nat
      PROVE  Sample(c, m) = Sum(Products(a, b, m), Len(a))
  <2>1. CASE m < n
    <3>1. m + 1 \in 1 .. n /\ (m + 1) - 1 = m /\ m \in 0 .. Len(c) - 1 /\ m \in Int
      BY <1>1, <1>5, <2>1
    <3>2. Sample(c, m) = c[m + 1]
      BY <1>5, <3>1, SampleIs
    <3> QED BY <1>2, <3>1, <3>2
  <2>2. CASE m >= n
    <3>1. Sample(c, m) = 0
      BY <1>5, <2>2, SampleIs
    <3>2. ASSUME NEW k \in 0 .. Len(a) - 1 PROVE Products(a, b, m)[k] = 0
      <4>0. k \in Nat /\ k < Len(a) /\ a # <<>>
        BY <1>1
      <4>3. b = <<>> \/ n = Len(a) + Len(b) - 1
        BY <4>0 DEF n, ConvolutionLength
      <4>4. b = <<>> \/ m - k >= Len(b)
        BY <1>1, <2>2, <4>0, <4>3
      <4>1. (m - k < 0 \/ m - k >= Len(b)) /\ k \in Int /\ m - k \in Int
        BY <1>1, <4>0, <4>4
      <4>2. Sample(b, m - k) = 0 /\ Sample(a, k) \in Int
        BY <4>1, SampleIs
      <4> QED BY <4>2, ProductsInt
    <3> QED BY <1>1, <3>1, <3>2, SumNothing
  <2> QED BY <1>1, <2>1, <2>2
<1> QED BY <1>5, <1>6 DEF c, n

-----------------------------------------------------------------------------
(* The filter.                                                             *)

\* What was and what follows: a sample before the second part is in the first.
LEMMA ConcatIs ==
  ASSUME NEW s \in Seq(Int), NEW t \in Seq(Int)
  PROVE  /\ s \o t \in Seq(Int) /\ Len(s \o t) = Len(s) + Len(t)
         /\ \A k \in Int : k < Len(t) => Sample(s \o t, Len(s) + k) =
              IF k >= 0 THEN Sample(t, k) ELSE Sample(s, Len(s) + k)
<1> DEFINE x == s \o t
<1>1. x \in Seq(Int) /\ Len(x) = Len(s) + Len(t) /\ Len(s) \in Nat /\ Len(t) \in Nat
  OBVIOUS
<1>2. \A k \in 1 .. Len(s) + Len(t) : x[k] = IF k <= Len(s) THEN s[k] ELSE t[k - Len(s)]
  OBVIOUS
<1> HIDE DEF x
<1>3. ASSUME NEW k \in Int, k < Len(t)
      PROVE  Sample(x, Len(s) + k) = IF k >= 0 THEN Sample(t, k) ELSE Sample(s, Len(s) + k)
  <2>1. CASE k >= 0
    <3>1. Len(s) + k \in 0 .. Len(x) - 1 /\ k \in 0 .. Len(t) - 1
          /\ (Len(s) + k) + 1 \in 1 .. Len(s) + Len(t)
          /\ ~((Len(s) + k) + 1 <= Len(s)) /\ ((Len(s) + k) + 1) - Len(s) = k + 1
          /\ Len(s) + k \in Int
      BY <1>1, <1>3, <2>1
    <3>2. Sample(x, Len(s) + k) = x[(Len(s) + k) + 1] /\ Sample(t, k) = t[k + 1]
      BY <1>1, <3>1, SampleIs
    <3> QED BY <1>2, <2>1, <3>1, <3>2
  <2>2. CASE k < 0 /\ Len(s) + k >= 0
    <3>1. Len(s) + k \in 0 .. Len(x) - 1 /\ Len(s) + k \in 0 .. Len(s) - 1
          /\ (Len(s) + k) + 1 \in 1 .. Len(s) + Len(t) /\ (Len(s) + k) + 1 <= Len(s)
          /\ Len(s) + k \in Int
      BY <1>1, <1>3, <2>2
    <3>2. Sample(x, Len(s) + k) = x[(Len(s) + k) + 1]
          /\ Sample(s, Len(s) + k) = s[(Len(s) + k) + 1]
      BY <1>1, <3>1, SampleIs
    <3> QED BY <1>2, <2>2, <3>1, <3>2
  <2>3. CASE Len(s) + k < 0
    <3>1. Len(s) + k \in Int /\ ~(k >= 0)
      BY <1>1, <2>3
    <3> QED BY <1>1, <2>3, <3>1, SampleIs
  <2> QED BY <1>1, <2>1, <2>2, <2>3
<1> QED BY <1>1, <1>3 DEF x

\* The terms of the filter's output number n.
Terms(c, before, input, n) ==
  [k \in 0 .. Len(c) - 1 |-> c[k + 1] * Sample(before \o input, Len(before) + n - 1 - k)]

\* A term takes its sample from the input or, further back, from the memory.
LEMMA TermsInt ==
  ASSUME NEW c \in Seq(Int), NEW before \in Seq(Int), NEW input \in Seq(Int), NEW n \in 1 .. Len(input)
  PROVE  \A k \in 0 .. Len(c) - 1 :
           /\ Terms(c, before, input, n)[k] \in Int
           /\ Terms(c, before, input, n)[k] = c[k + 1] *
                (IF k < n THEN Sample(input, n - 1 - k) ELSE Sample(before, Len(before) - (k + 1 - n)))
<1> DEFINE x == before \o input
<1>1. x \in Seq(Int) /\ Len(before) \in Nat /\ Len(input) \in Nat /\ Len(c) \in Nat
  BY ConcatIs
<1> TAKE k \in 0 .. Len(c) - 1
<1> DEFINE m == n - 1 - k
<1>2. Terms(c, before, input, n)[k] = c[k + 1] * Sample(x, Len(before) + n - 1 - k)
  BY DEF Terms
<1>3. m \in Int /\ m < Len(input) /\ Len(before) + n - 1 - k = Len(before) + m
      /\ (m >= 0 <=> k < n) /\ Len(before) + m = Len(before) - (k + 1 - n)
      /\ k + 1 \in 1 .. Len(c) /\ Len(before) + m \in Int
  BY <1>1
<1> HIDE DEF m
<1>4. Sample(x, Len(before) + m) = IF m >= 0 THEN Sample(input, m) ELSE Sample(before, Len(before) + m)
  BY <1>3, ConcatIs
<1>5. Sample(x, Len(before) + m) \in Int
  <2> HIDE DEF x
  <2> QED BY <1>1, <1>3, SampleIs
<1>6. c[k + 1] \in Int
  BY <1>3
<1> HIDE DEF x
<1>7. Terms(c, before, input, n)[k] = c[k + 1] * Sample(x, Len(before) + m)
  BY <1>2, <1>3
<1>8. c[k + 1] * Sample(x, Len(before) + m) \in Int
  BY ONLY <1>5, <1>6
<1>9. Sample(x, Len(before) + m) =
        IF k < n THEN Sample(input, n - 1 - k) ELSE Sample(before, Len(before) - (k + 1 - n))
  BY <1>3, <1>4 DEF m
<1> QED BY <1>7, <1>8, <1>9

\* What comes out of the filter is as long as what goes in.
LEMMA RunIs ==
  ASSUME NEW c \in Seq(Int), NEW before \in Seq(Int), NEW input \in Seq(Int)
  PROVE  /\ Run(c, before, input) \in Seq(Int) /\ Len(Run(c, before, input)) = Len(input)
         /\ \A n \in 1 .. Len(input) : Run(c, before, input)[n] = Sum(Terms(c, before, input, n), Len(c))
<1> DEFINE r == Run(c, before, input)
<1>1. Len(c) \in Nat /\ Len(input) \in Nat /\ Len(c) \in 0 .. Len(c)
  OBVIOUS
<1>2. r = [n \in 1 .. Len(input) |-> Sum(Terms(c, before, input, n), Len(c))]
  BY DEF Run, Terms
<1> HIDE DEF r
<1>3. ASSUME NEW n \in 1 .. Len(input) PROVE Sum(Terms(c, before, input, n), Len(c)) \in Int
  <2>1. \A k \in 0 .. Len(c) - 1 : Terms(c, before, input, n)[k] \in Int
    BY TermsInt
  <2>2. PICK s \in [0 .. Len(c) -> Int] : Sum(Terms(c, before, input, n), Len(c)) = s[Len(c)]
    BY <1>1, <2>1, SumIs
  <2>3. s[Len(c)] \in Int
    BY <1>1
  <2> QED BY <2>2, <2>3
<1>4. r \in [1 .. Len(input) -> Int]
  BY <1>2, <1>3
<1>5. r \in Seq(Int) /\ Len(r) = Len(input)
  <2>1. PICK m \in Nat : m = Len(input)
    BY <1>1
  <2>2. r \in [1 .. m -> Int]
    BY <1>4, <2>1
  <2>3. r \in Seq(Int) /\ Len(r) = m
    BY ONLY <2>2, m \in Nat
  <2> QED BY <2>1, <2>3
<1> QED BY <1>2, <1>5 DEF r


\* Nothing is left in the filter's memory that could be heard.
Silent(before) == \A k \in 1 .. FilterLength - 1 : Sample(before, Len(before) - k) = 0

\* A filter whose coefficients are an impulse, and whose memory is silent,
\* convolves what it is given with the impulse.
LEMMA RunConvolves ==
  ASSUME NEW a \in Seq(Int), NEW b \in Seq(Int), NEW before \in Seq(Int), NEW length \in Nat,
         Len(a) <= FilterLength, Silent(before), NEW n \in 1 .. length
  PROVE  Run(Padded(a, FilterLength), before, Padded(b, length))[n] = Sample(Convolution(a, b), n - 1)
<1>1. PICK c : c = Padded(a, FilterLength)
  OBVIOUS
<1>2. PICK x : x = Padded(b, length)
  OBVIOUS
<1>3. /\ c \in Seq(Int) /\ Len(c) = FilterLength /\ FilterLength \in Nat /\ Len(a) \in 0 .. FilterLength
      /\ \A k \in 1 .. FilterLength : c[k] = Sample(a, k - 1)
  <2>1. FilterLength \in Nat /\ Len(a) \in Nat
    BY FilterAssumption
  <2>2. Len(a) \in 0 .. FilterLength
    BY <2>1
  <2> QED BY <1>1, <2>1, <2>2, PaddedIs
<1>4. /\ x \in Seq(Int) /\ Len(x) = length
      /\ \A k \in Int : k < length => Sample(x, k) = Sample(b, k)
  BY <1>2, PaddedIs
<1>5. PICK f : f = Terms(c, before, x, n)
  OBVIOUS
<1>6. Run(c, before, x)[n] = Sum(f, FilterLength)
  BY <1>3, <1>4, <1>5, RunIs
<1>7. \A k \in 0 .. FilterLength - 1 :
        f[k] = c[k + 1] * (IF k < n THEN Sample(x, n - 1 - k) ELSE Sample(before, Len(before) - (k + 1 - n)))
  <2>1. n \in 1 .. Len(x)
    BY <1>4
  <2> TAKE k \in 0 .. FilterLength - 1
  <2> DEFINE v == IF k < n THEN Sample(x, n - 1 - k) ELSE Sample(before, Len(before) - (k + 1 - n))
  <2>2. k \in 0 .. Len(c) - 1
    BY <1>3
  <2>3. c \in Seq(Int) /\ x \in Seq(Int) /\ before \in Seq(Int)
    BY <1>3, <1>4
  <2>4. Terms(c, before, x, n)[k] = c[k + 1] * v
    BY ONLY <2>1, <2>2, <2>3, TermsInt
  <2> QED BY <1>5, <2>4
<1>8. \A k \in 0 .. FilterLength - 1 : f[k] = Sample(a, k) * Sample(b, n - 1 - k)
  <2> TAKE k \in 0 .. FilterLength - 1
  <2>1. k + 1 \in 1 .. FilterLength /\ (k + 1) - 1 = k /\ k \in Int /\ n - 1 - k \in Int
        /\ n - 1 - k < length
    BY <1>3
  <2>2. c[k + 1] = Sample(a, k)
    BY <1>3, <2>1
  <2>3. CASE k < n
    <3>1. Sample(x, n - 1 - k) = Sample(b, n - 1 - k)
      BY <1>4, <2>1
    <3> QED BY <1>7, <2>2, <2>3, <3>1
  <2>4. CASE ~(k < n)
    <3>1. k + 1 - n \in 1 .. FilterLength - 1 /\ n - 1 - k < 0
      BY <1>3, <2>4
    <3>2. Sample(before, Len(before) - (k + 1 - n)) = 0
      BY <3>1 DEF Silent
    <3>3. Sample(b, n - 1 - k) = 0 /\ Sample(a, k) \in Int
      BY <2>1, <3>1, SampleIs
    <3>4. f[k] = c[k + 1] * 0
      BY <1>7, <2>4, <3>2
    <3> QED BY <2>2, <3>3, <3>4
  <2> QED BY <2>3, <2>4
<1>9. n - 1 \in Nat
  OBVIOUS
<1>10. \A k \in 0 .. Len(a) - 1 : f[k] \in Int /\ Products(a, b, n - 1)[k] = f[k]
  <2> TAKE k \in 0 .. Len(a) - 1
  <2>1. k \in 0 .. FilterLength - 1
    BY <1>3
  <2> QED BY <1>8, <1>9, <2>1, ProductsInt
<1>11. \A k \in Len(a) .. FilterLength - 1 : f[k] = 0
  <2> TAKE k \in Len(a) .. FilterLength - 1
  <2>1. k \in 0 .. FilterLength - 1 /\ k >= Len(a) /\ k \in Int /\ n - 1 - k \in Int
    BY <1>3
  <2>2. Sample(a, k) = 0 /\ Sample(b, n - 1 - k) \in Int
    BY <2>1, SampleIs
  <2> QED BY <1>8, <2>1, <2>2
<1>12. Sum(f, FilterLength) = Sum(Products(a, b, n - 1), Len(a))
  <2>1. Shorter(f, FilterLength, Products(a, b, n - 1), Len(a))
    BY <1>10, <1>11 DEF Shorter
  <2> QED BY <1>3, <2>1, SumShorter
<1>13. Sample(Convolution(a, b), n - 1) = Sum(Products(a, b, n - 1), Len(a))
  BY <1>9, ConvolutionIs
<1> QED BY <1>1, <1>2, <1>6, <1>12, <1>13

\* What a sequence of silence looks like.
Zeros(s) == \A k \in 1 .. Len(s) : s[k] = 0

\* Silent coefficients make silence.
LEMMA RunNothing ==
  ASSUME NEW c \in Seq(Int), NEW before \in Seq(Int), NEW input \in Seq(Int),
         Len(c) = FilterLength, Zeros(c) \/ (Zeros(input) /\ Silent(before))
  PROVE  Zeros(Run(c, before, input))
<1> SUFFICES ASSUME NEW n \in 1 .. Len(input) PROVE Run(c, before, input)[n] = 0
  BY RunIs DEF Zeros
<1>1. Len(c) \in Nat /\ Len(input) \in Nat
  OBVIOUS
<1>2. ASSUME NEW k \in 0 .. Len(c) - 1 PROVE Terms(c, before, input, n)[k] = 0
  <2>1. k + 1 \in 1 .. Len(c) /\ c[k + 1] \in Int /\ n - 1 - k \in Int
        /\ Len(before) - (k + 1 - n) \in Int
    BY <1>1
  <2> DEFINE v == IF k < n THEN Sample(input, n - 1 - k) ELSE Sample(before, Len(before) - (k + 1 - n))
  <2>2. Terms(c, before, input, n)[k] = c[k + 1] * v
    BY TermsInt
  <2>3. v \in Int
    BY <2>1, SampleIs
  <2>4. CASE Zeros(c)
    <3>1. c[k + 1] = 0
      BY <2>1, <2>4 DEF Zeros
    <3> HIDE DEF v
    <3> QED BY <2>2, <2>3, <3>1
  <2>5. CASE Zeros(input) /\ Silent(before)
    <3>1. v = 0
      <4>1. CASE k < n
        <5>1. n - 1 - k \in 0 .. Len(input) - 1 /\ (n - 1 - k) + 1 \in 1 .. Len(input)
          BY <1>1, <4>1
        <5>2. Sample(input, n - 1 - k) = input[(n - 1 - k) + 1]
          BY <2>1, <5>1, SampleIs
        <5> QED BY <2>5, <4>1, <5>1, <5>2 DEF Zeros
      <4>2. CASE ~(k < n)
        <5>1. k + 1 - n \in 1 .. FilterLength - 1
          BY <1>1, <4>2
        <5> QED BY <2>5, <4>2, <5>1 DEF Silent
      <4> QED BY <4>1, <4>2
    <3> HIDE DEF v
    <3> QED BY <2>1, <2>2, <3>1
  <2> QED BY <2>4, <2>5
<1>3. Sum(Terms(c, before, input, n), Len(c)) = 0
  BY <1>1, <1>2, SumNothing
<1> QED BY <1>3, RunIs

\* The coefficients are what has come out, at its scale, and nothing but that.
LEMMA CoefficientsAre ==
  ASSUME NEW out \in Seq(Int), FilterLength <= Len(out), NEW scale \in Int
  PROVE  /\ Coefficients(out, scale) \in Seq(Int) /\ Len(Coefficients(out, scale)) = FilterLength
         /\ \A k \in 1 .. FilterLength : Coefficients(out, scale)[k] = scale * out[k]
<1> DEFINE c == Coefficients(out, scale)
<1>1. c = [k \in 1 .. FilterLength |-> scale * out[k]]
  BY DEF Coefficients
<1>2. \A k \in 1 .. FilterLength : out[k] \in Int
  BY FilterAssumption
<1>3. \A k \in 1 .. FilterLength : scale * out[k] \in Int
  BY <1>2
<1> HIDE DEF c
<1>4. c \in [1 .. FilterLength -> Int]
  BY <1>1, <1>3
<1>5. c \in Seq(Int) /\ Len(c) = FilterLength
  BY <1>4, FilterAssumption
<1> QED BY <1>1, <1>5 DEF c


-----------------------------------------------------------------------------
(* The chain, one impulse after the other.                                 *)

\* A chain of impulses that were loaded into buffers of that length.
Impulses(c, length) ==
  /\ Len(c) \in Nat /\ length \in Nat /\ FilterLength <= length
  /\ \A j \in 1 .. Len(c) :
       c[j].data \in Seq(Int) /\ Len(c[j].data) <= length /\ c[j].scale \in Int

\* Whatever goes on as g says stays in g's set.
LEMMA StaysInside ==
  ASSUME NEW n \in Nat, NEW T, NEW t, NEW g \in [(1 .. n) \X T -> T], t[0] \in T,
         \A k \in 1 .. n : t[k - 1] \in T => t[k] = g[<<k, t[k - 1]>>]
  PROVE  \A k \in 0 .. n : t[k] \in T
<1> DEFINE S == {k \in Nat : k <= n => t[k] \in T}
<1>1. 0 \in S
  OBVIOUS
<1>2. ASSUME NEW k \in Nat, k \in S PROVE k + 1 \in S
  <2>1. SUFFICES ASSUME k + 1 <= n PROVE t[k + 1] \in T
    OBVIOUS
  <2>2. k + 1 \in 1 .. n /\ (k + 1) - 1 = k /\ t[k] \in T
    BY <1>2, <2>1
  <2>3. t[k + 1] = g[<<k + 1, t[k]>>] /\ <<k + 1, t[k]>> \in (1 .. n) \X T
    BY <2>2
  <2> QED BY <2>3
<1>3. Nat \subseteq S
  <2> HIDE DEF S
  <2> QED BY <1>1, <1>2, Induction
<1> QED BY <1>3

\* A sequence at some scale.
Scaled(s, scale) == [n \in DOMAIN s |-> s[n] * scale]

\* A scaled sequence has scaled samples.
LEMMA ScaledIs ==
  ASSUME NEW s \in Seq(Int), NEW scale \in Int
  PROVE  /\ Scaled(s, scale) \in Seq(Int) /\ Len(Scaled(s, scale)) = Len(s)
         /\ \A k \in Int : Sample(Scaled(s, scale), k) = Sample(s, k) * scale
<1> DEFINE x == Scaled(s, scale)
<1>1. PICK n \in Nat : n = Len(s) /\ DOMAIN s = 1 .. n /\ s \in [1 .. n -> Int]
  OBVIOUS
<1>2. x = [k \in 1 .. n |-> s[k] * scale]
  BY <1>1 DEF Scaled
<1>3. \A k \in 1 .. n : s[k] * scale \in Int
  BY <1>1
<1> HIDE DEF x
<1>4. x \in [1 .. n -> Int]
  BY <1>2, <1>3
<1>5. x \in Seq(Int) /\ Len(x) = n
  BY ONLY <1>4, n \in Nat
<1>6. ASSUME NEW k \in Int PROVE Sample(x, k) = Sample(s, k) * scale
  <2>1. CASE k \in 0 .. n - 1
    <3>1. k + 1 \in 1 .. n
      BY <2>1
    <3>2. Sample(x, k) = x[k + 1] /\ Sample(s, k) = s[k + 1]
      BY <1>1, <1>5, <2>1, SampleIs
    <3> QED BY <1>2, <3>1, <3>2
  <2>2. CASE k \notin 0 .. n - 1
    <3>1. k < 0 \/ k >= n
      BY <2>2
    <3>2. Sample(x, k) = 0 /\ Sample(s, k) = 0
      BY <1>1, <1>5, <3>1, SampleIs
    <3> QED BY <3>2
  <2> QED BY <2>1, <2>2
<1> QED BY <1>1, <1>5, <1>6 DEF x

\* The convolution of the first impulses.
LEMMA SinglesAre ==
  ASSUME NEW c, NEW length, Impulses(c, length), NEW scales \in Int
  PROVE  /\ Singles(c, scales)[0] = <<1>>
         /\ \A j \in 0 .. Len(c) : Singles(c, scales)[j] \in Seq(Int)
         /\ \A j \in 1 .. Len(c) : Singles(c, scales)[j] =
              Scaled(Convolution(Singles(c, scales)[j - 1], c[j].data),
                     IF j <= scales THEN c[j].scale ELSE 1)
<1> DEFINE G(j, v) == Scaled(Convolution(v, c[j].data), IF j <= scales THEN c[j].scale ELSE 1)
           T == Seq(Int)
<1>0. PICK n, a : n \in Nat /\ n = Len(c) /\ a = <<1>>
  BY DEF Impulses
<1>1. a \in T
  BY <1>0
<1>2. \A j \in 1 .. n, v \in T : G(j, v) \in T
  <2> TAKE j \in 1 .. n, v \in T
  <2>1. c[j].data \in Seq(Int) /\ c[j].scale \in Int /\ v \in Seq(Int)
    BY <1>0 DEF Impulses
  <2>2. Convolution(v, c[j].data) \in Seq(Int)
    BY <2>1, ConvolutionIs
  <2>3. (IF j <= scales THEN c[j].scale ELSE 1) \in Int
    BY <2>1
  <2> QED BY <2>2, <2>3, ScaledIs
<1> HIDE DEF T
<1> DEFINE E(h) == h = [j \in 0 .. n |-> IF j = 0 THEN a ELSE G(j, h[j - 1])]
<1>3. Singles(c, scales) = CHOOSE h : E(h)
  BY <1>0 DEF Singles, Scaled
<1> HIDE DEF G
<1>4. PICK g : g = [p \in (1 .. n) \X T |-> G(p[1], p[2])]
  OBVIOUS
<1>5. g \in [(1 .. n) \X T -> T] /\ \A j \in 1 .. n, v \in T : g[<<j, v>>] = G(j, v)
  BY <1>2, <1>4
<1>6. PICK f : Unfolds(f, n, T, a, g)
  BY <1>0, <1>1, <1>5, Recursion
<1>7. \A j \in 1 .. n : f[j] = G(j, f[j - 1])
  <2> TAKE j \in 1 .. n
  <2>1. j - 1 \in 0 .. n
    BY <1>0
  <2> QED BY <1>5, <1>6, <2>1 DEF Unfolds
<1>8. E(f)
  BY <1>0, <1>6, <1>7 DEF Unfolds
<1>9. PICK t : t = Singles(c, scales)
  OBVIOUS
<1>10. E(t)
  BY <1>3, <1>8, <1>9
<1>11. t[0] = a /\ \A j \in 1 .. n : t[j] = G(j, t[j - 1])
  <2>1. 0 \in 0 .. n /\ \A j \in 1 .. n : j \in 0 .. n /\ j # 0
    BY <1>0
  <2> QED BY <1>10, <2>1
<1>12. \A j \in 0 .. n : t[j] \in T
  <2>1. t[0] \in T
    BY <1>1, <1>11
  <2>2. \A j \in 1 .. n : t[j - 1] \in T => t[j] = g[<<j, t[j - 1]>>]
    BY <1>5, <1>11
  <2> QED BY <1>0, <1>5, <2>1, <2>2, StaysInside
<1> QED BY <1>0, <1>9, <1>11, <1>12 DEF G, T

\* How far they reach.
LEMMA ReachIs ==
  ASSUME NEW c, NEW length, Impulses(c, length)
  PROVE  /\ Reach(c)[0] = 1
         /\ \A j \in 0 .. Len(c) : Reach(c)[j] \in Int
         /\ \A j \in 1 .. Len(c) : Reach(c)[j] = Reach(c)[j - 1] + Len(c[j].data) - 1
<1> DEFINE G(j, v) == v + Len(c[j].data) - 1
           T == Int
<1>0. PICK n \in Nat : n = Len(c)
  BY DEF Impulses
<1>1. 1 \in T
  OBVIOUS
<1>2. \A j \in 1 .. n, v \in T : G(j, v) \in T
  <2> TAKE j \in 1 .. n, v \in T
  <2>1. c[j].data \in Seq(Int)
    BY <1>0 DEF Impulses
  <2>2. Len(c[j].data) \in Nat
    BY <2>1
  <2> QED BY <2>2
<1> DEFINE E(h) == h = [j \in 0 .. n |-> IF j = 0 THEN 1 ELSE G(j, h[j - 1])]
<1>3. Reach(c) = CHOOSE h : E(h)
  BY <1>0 DEF Reach
<1> HIDE DEF G, T
<1>4. PICK g : g = [p \in (1 .. n) \X T |-> G(p[1], p[2])]
  OBVIOUS
<1>5. g \in [(1 .. n) \X T -> T] /\ \A j \in 1 .. n, v \in T : g[<<j, v>>] = G(j, v)
  BY <1>2, <1>4
<1>6. PICK f : Unfolds(f, n, T, 1, g)
  BY <1>1, <1>5, Recursion
<1>7. \A j \in 1 .. n : f[j] = G(j, f[j - 1])
  <2> TAKE j \in 1 .. n
  <2>1. j - 1 \in 0 .. n
    OBVIOUS
  <2> QED BY <1>5, <1>6, <2>1 DEF Unfolds
<1>8. E(f)
  BY <1>6, <1>7 DEF Unfolds
<1>9. PICK t : t = Reach(c)
  OBVIOUS
<1>10. E(t)
  BY <1>3, <1>8, <1>9
<1>11. t[0] = 1 /\ \A j \in 1 .. n : t[j] = G(j, t[j - 1])
  <2>1. 0 \in 0 .. n /\ \A j \in 1 .. n : j \in 0 .. n /\ j # 0
    OBVIOUS
  <2> QED BY <1>10, <2>1
<1>12. \A j \in 0 .. n : t[j] \in T
  <2>1. t[0] \in T
    BY <1>1, <1>11
  <2>2. \A j \in 1 .. n : t[j - 1] \in T => t[j] = g[<<j, t[j - 1]>>]
    BY <1>5, <1>11
  <2> QED BY <1>5, <2>1, <2>2, StaysInside
<1> QED BY <1>0, <1>9, <1>11, <1>12 DEF G, T

\* The filter after one impulse more.
Turn(c, length, j, t) ==
  [coeffs |-> Coefficients(Run(t.coeffs, t.before, Padded(c[j].data, length)), ScaleOf(c, j)),
   before |-> t.before \o Padded(c[j].data, length),
   out |-> Run(t.coeffs, t.before, Padded(c[j].data, length))]

\* The filter before the first impulse.
FirstTurn(length) ==
  [coeffs |-> Padded(<<1>>, FilterLength), before |-> <<>>, out |-> Padded(<<>>, length)]

\* All that the filter may be after some impulses.
FilterStates(length) ==
  [coeffs : {s \in Seq(Int) : Len(s) = FilterLength}, before : Seq(Int),
   out : {s \in Seq(Int) : Len(s) = length}]

\* The filter is of its type at first, and after each impulse.
LEMMA FirstTurnIs ==
  ASSUME NEW length \in Nat
  PROVE  FirstTurn(length) \in FilterStates(length)
<1>1. <<1>> \in Seq(Int) /\ <<>> \in Seq(Int) /\ FilterLength \in Nat
  BY FilterAssumption
<1>2. Padded(<<1>>, FilterLength) \in Seq(Int) /\ Len(Padded(<<1>>, FilterLength)) = FilterLength
  BY <1>1, PaddedIs
<1>3. Padded(<<>>, length) \in Seq(Int) /\ Len(Padded(<<>>, length)) = length
  BY <1>1, PaddedIs
<1> QED BY <1>1, <1>2, <1>3 DEF FirstTurn, FilterStates

LEMMA TurnIs ==
  ASSUME NEW c, NEW length, Impulses(c, length), NEW j \in 1 .. Len(c), NEW t \in FilterStates(length)
  PROVE  Turn(c, length, j, t) \in FilterStates(length)
<1>1. /\ t.coeffs \in Seq(Int) /\ Len(t.coeffs) = FilterLength /\ t.before \in Seq(Int)
      /\ c[j].data \in Seq(Int) /\ c[j].scale \in Int /\ length \in Nat /\ FilterLength <= length
  BY DEF FilterStates, Impulses
<1>2. PICK input : input = Padded(c[j].data, length)
  OBVIOUS
<1>3. input \in Seq(Int) /\ Len(input) = length
  BY <1>1, <1>2, PaddedIs
<1>4. PICK out : out = Run(t.coeffs, t.before, input)
  OBVIOUS
<1>5. out \in Seq(Int) /\ Len(out) = length
  BY <1>1, <1>3, <1>4, RunIs
<1>6. ScaleOf(c, j) \in Int
  BY <1>1 DEF ScaleOf
<1>7. Coefficients(out, ScaleOf(c, j)) \in Seq(Int) /\ Len(Coefficients(out, ScaleOf(c, j))) = FilterLength
  BY <1>1, <1>5, <1>6, CoefficientsAre
<1>8. t.before \o input \in Seq(Int)
  BY <1>1, <1>3
<1>9. Turn(c, length, j, t) =
        [coeffs |-> Coefficients(out, ScaleOf(c, j)), before |-> t.before \o input, out |-> out]
  BY <1>2, <1>4 DEF Turn
<1> QED BY <1>5, <1>7, <1>8, <1>9 DEF FilterStates

\* The turns of a chain, one from the other.
LEMMA TurnsAre ==
  ASSUME NEW c, NEW length, Impulses(c, length)
  PROVE  /\ Turns(c, length)[0] = FirstTurn(length)
         /\ \A j \in 0 .. Len(c) : Turns(c, length)[j] \in FilterStates(length)
         /\ \A j \in 1 .. Len(c) : Turns(c, length)[j] = Turn(c, length, j, Turns(c, length)[j - 1])
<1>0. PICK n, T, a : n = Len(c) /\ T = FilterStates(length) /\ a = FirstTurn(length)
  OBVIOUS
<1>1. n \in Nat /\ a \in T
  BY <1>0, FirstTurnIs DEF Impulses
<1>2. \A j \in 1 .. n, v \in T : Turn(c, length, j, v) \in T
  BY <1>0, TurnIs
<1> DEFINE E(h) == h = [j \in 0 .. n |-> IF j = 0 THEN a ELSE Turn(c, length, j, h[j - 1])]
<1>3. Turns(c, length) = CHOOSE h : E(h)
  BY <1>0 DEF Turns, Turn, FirstTurn
<1>4. PICK g : g = [p \in (1 .. n) \X T |-> Turn(c, length, p[1], p[2])]
  OBVIOUS
<1>5. g \in [(1 .. n) \X T -> T] /\ \A j \in 1 .. n, v \in T : g[<<j, v>>] = Turn(c, length, j, v)
  BY <1>2, <1>4
<1>6. PICK f : Unfolds(f, n, T, a, g)
  BY <1>1, <1>5, Recursion
<1>7. \A j \in 1 .. n : f[j] = Turn(c, length, j, f[j - 1])
  <2> TAKE j \in 1 .. n
  <2>1. j - 1 \in 0 .. n
    BY <1>1
  <2> QED BY <1>5, <1>6, <2>1 DEF Unfolds
<1>8. E(f)
  BY <1>6, <1>7 DEF Unfolds
<1>9. PICK t : t = Turns(c, length)
  OBVIOUS
<1>10. E(t)
  BY <1>3, <1>8, <1>9
<1>11. t[0] = a /\ \A j \in 1 .. n : t[j] = Turn(c, length, j, t[j - 1])
  <2>1. 0 \in 0 .. n /\ \A j \in 1 .. n : j \in 0 .. n /\ j # 0
    BY <1>1
  <2> QED BY <1>10, <2>1
<1>12. \A j \in 0 .. n : t[j] \in T
  <2>1. t[0] \in T
    BY <1>1, <1>11
  <2>2. \A j \in 1 .. n : t[j - 1] \in T => t[j] = g[<<j, t[j - 1]>>]
    BY <1>5, <1>11
  <2> QED BY <1>1, <1>5, <2>1, <2>2, StaysInside
<1> QED BY <1>0, <1>9, <1>11, <1>12


\* The length of the impulse that the filter's memory holds the end of.
LastLength(c, j) == IF j = 0 THEN 0 ELSE Len(c[j].data)

\* An impulse that is not much longer than a block has left the memory when
\* its buffer is over.
Remembers(c, j, before) == LastLength(c, j) <= FilterLength + 1 => Silent(before)

\* No impulse is empty: the coefficients are the convolution s of the
\* impulses, of r samples, if it fits.
Alive(c, j, s, r, coeffs) ==
  s # <<>> /\ r = Len(s) /\ LastLength(c, j) <= r /\ (r <= FilterLength => coeffs = Padded(s, FilterLength))

\* Some impulse is empty, and so is the convolution: the coefficients are
\* silent but for what an impulse that does not fit has left in the memory.
Dead(c, j, s, r, coeffs) ==
  /\ s = <<>>
  /\ \/ Zeros(coeffs)
     \/ r >= FilterLength + 1 /\ (LastLength(c, j) >= FilterLength + 2 => r >= FilterLength + 2)

\* What holds of the filter after the first j impulses of the chain.
TurnOK(c, j, t, s, r) == Remembers(c, j, t.before) /\ (Alive(c, j, s, r, t.coeffs) \/ Dead(c, j, s, r, t.coeffs))

\* Sequences with the same elements are the same.
LEMMA SameSequence ==
  ASSUME NEW s \in Seq(Int), NEW t \in Seq(Int), Len(s) = Len(t), \A k \in 1 .. Len(s) : s[k] = t[k]
  PROVE  s = t
<1>1. PICK n \in Nat : n = Len(s)
  OBVIOUS
<1>2. s = [k \in 1 .. n |-> s[k]] /\ t = [k \in 1 .. n |-> t[k]]
  BY <1>1
<1>3. \A k \in 1 .. n : s[k] = t[k]
  BY <1>1
<1>4. [k \in 1 .. n |-> s[k]] = [k \in 1 .. n |-> t[k]]
  BY <1>3
<1> QED BY <1>2, <1>4

\* A buffer of two blocks or more ends in silence if its impulse is short.
LEMMA MemoryIs ==
  ASSUME NEW before \in Seq(Int), NEW b \in Seq(Int), NEW length \in Nat, 2 * FilterLength <= length,
         Len(b) <= FilterLength + 1
  PROVE  Silent(before \o Padded(b, length))
<1>1. PICK p : p = Padded(b, length)
  OBVIOUS
<1>2. p \in Seq(Int) /\ Len(p) = length /\ \A k \in Int : k < length => Sample(p, k) = Sample(b, k)
  BY <1>1, PaddedIs
<1>3. ASSUME NEW k \in 1 .. FilterLength - 1
      PROVE  Sample(before \o p, Len(before \o p) - k) = 0
  <2>0. Len(before) \in Nat
    OBVIOUS
  <2>1. Len(before) \in Nat /\ Len(before \o p) = Len(before) + length
    BY <1>2, <2>0, ConcatIs
  <2>2. PICK m : m = length - k
    OBVIOUS
  <2>3. m \in Int /\ m >= 0 /\ m < length /\ m >= Len(b)
    BY <2>2, FilterAssumption
  <2>4. Len(before \o p) - k = Len(before) + m
    BY <2>1, <2>2
  <2>5. Sample(before \o p, Len(before) + m) = Sample(p, m)
    BY <1>2, <2>3, ConcatIs
  <2>6. Sample(p, m) = 0
    BY <1>2, <2>3, SampleIs
  <2> QED BY <2>4, <2>5, <2>6
<1> QED BY <1>1, <1>3 DEF Silent

\* The coefficients after an impulse that goes through a filter whose
\* coefficients are an impulse.
LEMMA NextCoefficients ==
  ASSUME NEW a \in Seq(Int), NEW b \in Seq(Int), NEW before \in Seq(Int), NEW length \in Nat,
         Len(a) <= FilterLength, Silent(before), FilterLength <= length, NEW scale \in Int
  PROVE  Coefficients(Run(Padded(a, FilterLength), before, Padded(b, length)), scale)
           = Padded(Scaled(Convolution(a, b), scale), FilterLength)
<1>1. PICK out : out = Run(Padded(a, FilterLength), before, Padded(b, length))
  OBVIOUS
<1>2. PICK x : x = Convolution(a, b)
  OBVIOUS
<1>3. PICK n \in Nat : n = FilterLength
  BY FilterAssumption
<1>4. out \in Seq(Int) /\ Len(out) = length /\ \A k \in 1 .. length : out[k] = Sample(x, k - 1)
  <2>1. Padded(a, FilterLength) \in Seq(Int) /\ Padded(b, length) \in Seq(Int) /\ Len(Padded(b, length)) = length
    BY <1>3, PaddedIs
  <2>2. out \in Seq(Int) /\ Len(out) = length
    BY <1>1, <2>1, RunIs
  <2> QED BY <1>1, <1>2, <2>2, RunConvolves
<1>5. x \in Seq(Int)
  BY <1>2, ConvolutionIs
<1>6. PICK y : y = Scaled(x, scale)
  OBVIOUS
<1>7. y \in Seq(Int) /\ \A k \in Int : Sample(y, k) = Sample(x, k) * scale
  BY <1>5, <1>6, ScaledIs
<1>8. PICK c, p : c = Coefficients(out, scale) /\ p = Padded(y, n)
  OBVIOUS
<1>9. c \in Seq(Int) /\ Len(c) = n /\ \A k \in 1 .. n : c[k] = scale * out[k]
  BY <1>3, <1>4, <1>8, CoefficientsAre
<1>10. p \in Seq(Int) /\ Len(p) = n /\ \A k \in 1 .. n : p[k] = Sample(y, k - 1)
  BY <1>7, <1>8, PaddedIs
<1>11. ASSUME NEW k \in 1 .. n PROVE c[k] = p[k]
  <2>1. k - 1 \in Int /\ k \in 1 .. length
    BY <1>3
  <2>2. c[k] = scale * Sample(x, k - 1) /\ p[k] = Sample(x, k - 1) * scale
    BY <1>4, <1>7, <1>9, <1>10, <2>1
  <2>3. Sample(x, k - 1) \in Int
    BY <1>5, <2>1, SampleIs
  <2>4. scale * Sample(x, k - 1) = Sample(x, k - 1) * scale
    BY ONLY <2>3, scale \in Int
  <2> QED BY <2>2, <2>4
<1>12. c = p
  BY <1>9, <1>10, <1>11, SameSequence
<1> QED BY <1>1, <1>2, <1>3, <1>6, <1>8, <1>12

\* Where there is nothing the coefficients become silent.
LEMMA NextSilent ==
  ASSUME NEW coeffs \in Seq(Int), NEW b \in Seq(Int), NEW before \in Seq(Int), NEW length \in Nat,
         Len(coeffs) = FilterLength, FilterLength <= length, NEW scale \in Int,
         Zeros(coeffs) \/ (b = <<>> /\ Silent(before))
  PROVE  /\ Zeros(Run(coeffs, before, Padded(b, length)))
         /\ Zeros(Coefficients(Run(coeffs, before, Padded(b, length)), scale))
<1>1. PICK x : x = Padded(b, length)
  OBVIOUS
<1>2. x \in Seq(Int) /\ Len(x) = length /\ \A k \in 1 .. length : x[k] = Sample(b, k - 1)
  BY <1>1, PaddedIs
<1>3. b = <<>> => Zeros(x)
  <2> SUFFICES ASSUME b = <<>>, NEW k \in 1 .. length PROVE x[k] = 0
    BY <1>2 DEF Zeros
  <2>1. k - 1 \in Int /\ k - 1 >= Len(b)
    OBVIOUS
  <2> QED BY <1>2, <2>1, SampleIs
<1>4. PICK out : out = Run(coeffs, before, x)
  OBVIOUS
<1>5. out \in Seq(Int) /\ Len(out) = length
  BY <1>2, <1>4, RunIs
<1>6. Zeros(out)
  BY <1>2, <1>3, <1>4, RunNothing
<1>7. PICK c : c = Coefficients(out, scale)
  OBVIOUS
<1>8. Len(c) = FilterLength /\ \A k \in 1 .. FilterLength : c[k] = scale * out[k]
  BY <1>5, <1>7, CoefficientsAre
<1>9. \A k \in 1 .. FilterLength : c[k] = 0
  <2> TAKE k \in 1 .. FilterLength
  <2>1. k \in 1 .. Len(out)
    BY <1>5, FilterAssumption
  <2>2. out[k] = 0
    BY <1>6, <2>1 DEF Zeros
  <2> QED BY <1>8, <2>2
<1> QED BY <1>1, <1>4, <1>6, <1>7, <1>8, <1>9 DEF Zeros


\* It holds before the first impulse ...
LEMMA FirstTurnOK ==
  ASSUME NEW c, NEW length \in Nat
  PROVE  TurnOK(c, 0, FirstTurn(length), <<1>>, 1)
<1>1. FirstTurn(length).coeffs = Padded(<<1>>, FilterLength) /\ FirstTurn(length).before = <<>>
  BY DEF FirstTurn
<1>2. Silent(<<>>)
  <2>1. <<>> \in Seq(Int) /\ Len(<<>>) = 0
    OBVIOUS
  <2>2. ASSUME NEW k \in 1 .. FilterLength - 1 PROVE Sample(<<>>, 0 - k) = 0
    <3>1. 0 - k \in Int /\ 0 - k < 0
      BY FilterAssumption
    <3> QED BY <2>1, <3>1, SampleIs
  <2> QED BY <2>1, <2>2 DEF Silent
<1>3. LastLength(c, 0) = 0 /\ <<1>> # <<>> /\ Len(<<1>>) = 1
  BY DEF LastLength
<1> QED BY <1>1, <1>2, <1>3 DEF TurnOK, Remembers, Alive

\* A convolution is empty if what is convolved is.
LEMMA EmptyConvolution ==
  ASSUME NEW a \in Seq(Int), NEW b \in Seq(Int), NEW scale \in Int
  PROVE  /\ Scaled(Convolution(a, b), scale) \in Seq(Int)
         /\ a = <<>> \/ b = <<>> => Scaled(Convolution(a, b), scale) = <<>>
         /\ a # <<>> /\ b # <<>> => /\ Len(Scaled(Convolution(a, b), scale)) = Len(a) + Len(b) - 1
                                    /\ Scaled(Convolution(a, b), scale) # <<>>
                                    /\ Len(a) >= 1 /\ Len(b) >= 1
<1>1. PICK x : x = Scaled(Convolution(a, b), scale)
  OBVIOUS
<1>2. x \in Seq(Int) /\ Len(x) = ConvolutionLength(a, b)
  BY <1>1, ConvolutionIs, ScaledIs
<1>3. a = <<>> \/ b = <<>> => x = <<>>
  <2>1. a = <<>> \/ b = <<>> => Len(x) = 0
    BY <1>2 DEF ConvolutionLength
  <2>2. Len(x) = 0 => x = <<>>
    BY <1>2
  <2> QED BY <2>1, <2>2
<1>4. a # <<>> /\ b # <<>> =>
        Len(x) = Len(a) + Len(b) - 1 /\ x # <<>> /\ Len(a) >= 1 /\ Len(b) >= 1
  <2> SUFFICES ASSUME a # <<>>, b # <<>>
               PROVE  Len(x) = Len(a) + Len(b) - 1 /\ x # <<>> /\ Len(a) >= 1 /\ Len(b) >= 1
    OBVIOUS
  <2>1. Len(a) >= 1 /\ Len(b) >= 1 /\ Len(a) \in Nat /\ Len(b) \in Nat
    OBVIOUS
  <2>2. Len(x) = Len(a) + Len(b) - 1
    BY <1>2 DEF ConvolutionLength
  <2>3. Len(x) # 0
    BY <2>1, <2>2
  <2>4. x # <<>>
    BY <2>3
  <2> QED BY <2>1, <2>2, <2>4
<1> QED BY <1>1, <1>2, <1>3, <1>4

\* ... and one impulse more keeps it.
LEMMA NextTurnOK ==
  ASSUME NEW c, NEW length, Impulses(c, length), 2 * FilterLength <= length, NEW j \in 1 .. Len(c),
         NEW t \in FilterStates(length), NEW s \in Seq(Int), NEW r \in Int, TurnOK(c, j - 1, t, s, r)
  PROVE  TurnOK(c, j, Turn(c, length, j, t), Scaled(Convolution(s, c[j].data), c[j].scale),
                r + Len(c[j].data) - 1)
<1>1. PICK b, k, scale : b = c[j].data /\ k = Len(b) /\ scale = c[j].scale
  OBVIOUS
<1>2. /\ b \in Seq(Int) /\ k \in Nat /\ scale \in Int /\ length \in Nat /\ FilterLength <= length
      /\ LastLength(c, j) = k
  BY <1>1 DEF Impulses, LastLength
<1>3. PICK n \in Nat : n = FilterLength
  BY FilterAssumption
<1>4. /\ t.coeffs \in Seq(Int) /\ Len(t.coeffs) = FilterLength /\ t.before \in Seq(Int)
  BY DEF FilterStates
<1>5. PICK u, x, q, l : u = Turn(c, length, j, t) /\ x = Scaled(Convolution(s, b), scale) /\ q = r + k - 1
                        /\ l = LastLength(c, j - 1)
  OBVIOUS
<1>6. /\ u.coeffs = Coefficients(Run(t.coeffs, t.before, Padded(b, length)), scale)
      /\ u.before = t.before \o Padded(b, length)
  BY <1>1, <1>5 DEF Turn, ScaleOf
<1>7. Remembers(c, j, u.before)
  <2>1. k <= FilterLength + 1 => Silent(t.before \o Padded(b, length))
    BY <1>1, <1>2, <1>4, MemoryIs
  <2> QED BY <1>2, <1>6, <2>1 DEF Remembers
<1>8. /\ x \in Seq(Int) /\ (s = <<>> \/ b = <<>> => x = <<>>)
      /\ s # <<>> /\ b # <<>> =>
           Len(x) = Len(s) + k - 1 /\ x # <<>> /\ Len(s) >= 1 /\ k >= 1
  <2>1. s \in Seq(Int) /\ b \in Seq(Int) /\ scale \in Int /\ k = Len(b)
        /\ x = Scaled(Convolution(s, b), scale)
    BY <1>1, <1>2, <1>5
  <2> QED BY ONLY <2>1, EmptyConvolution
<1>9. /\ b = <<>> => k = 0
      /\ b # <<>> => k >= 1
      /\ q = r + k - 1
      /\ l <= n + 1 => Silent(t.before)
  BY <1>1, <1>2, <1>3, <1>5 DEF TurnOK, Remembers
<1>10. l \in Int /\ Len(s) \in Nat
  <2>1. CASE j = 1
    BY <1>5, <2>1 DEF LastLength
  <2>2. CASE j # 1
    <3>1. j - 1 \in 1 .. Len(c) /\ j - 1 # 0
      BY <2>2 DEF Impulses
    <3>2. c[j - 1].data \in Seq(Int) /\ l = Len(c[j - 1].data)
      BY <1>5, <3>1 DEF Impulses, LastLength
    <3> QED BY <3>2
  <2> QED BY <2>1, <2>2
<1>11. Zeros(t.coeffs) \/ (b = <<>> /\ l <= n + 1) => Zeros(u.coeffs)
  BY <1>2, <1>4, <1>6, <1>9, NextSilent
<1>12. CASE Alive(c, j - 1, s, r, t.coeffs)
  <2>1. s # <<>> /\ r = Len(s) /\ l <= r /\ (r <= n => t.coeffs = Padded(s, FilterLength))
    BY <1>3, <1>5, <1>12 DEF Alive
  <2>2. CASE b # <<>>
    <3>1. x # <<>> /\ q = Len(x) /\ k <= q /\ (q <= n => r <= n)
      BY <1>2, <1>8, <1>9, <1>10, <2>1, <2>2
    <3>2. ASSUME q <= n PROVE u.coeffs = Padded(x, FilterLength)
      <4>1. r <= n /\ l <= n + 1
        BY <1>3, <1>10, <2>1, <3>1, <3>2
      <4>2. t.coeffs = Padded(s, FilterLength) /\ Silent(t.before) /\ Len(s) <= FilterLength
        BY <1>3, <1>9, <2>1, <4>1
      <4> QED BY <1>2, <1>4, <1>5, <1>6, <4>2, NextCoefficients
    <3>3. Alive(c, j, x, q, u.coeffs)
      BY <1>2, <1>3, <3>1, <3>2 DEF Alive
    <3> QED BY <1>1, <1>5, <1>7, <3>3 DEF TurnOK
  <2>3. CASE b = <<>>
    <3>1. x = <<>> /\ k = 0 /\ q = r - 1
      BY <1>8, <1>9, <2>3
    <3>2. CASE r <= n + 1
      <4>1. l <= n + 1
        BY <1>3, <1>10, <2>1, <3>2
      <4>2. Zeros(u.coeffs)
        BY <1>11, <2>3, <4>1
      <4> QED BY <1>1, <1>5, <1>7, <3>1, <4>2 DEF TurnOK, Dead
    <3>3. CASE ~(r <= n + 1)
      <4>1. q >= FilterLength + 1 /\ ~(LastLength(c, j) >= FilterLength + 2)
        BY <1>2, <1>3, <3>1, <3>3
      <4> QED BY <1>1, <1>5, <1>7, <3>1, <4>1 DEF TurnOK, Dead
    <3> QED BY <3>2, <3>3
  <2> QED BY <2>2, <2>3
<1>13. CASE Dead(c, j - 1, s, r, t.coeffs)
  <2>1. x = <<>>
    BY <1>8, <1>13 DEF Dead
  <2>2. CASE Zeros(u.coeffs)
    BY <1>1, <1>5, <1>7, <2>1, <2>2 DEF TurnOK, Dead
  <2>3. CASE ~Zeros(u.coeffs)
    <3>1. r >= n + 1 /\ (l >= n + 2 => r >= n + 2)
      BY <1>3, <1>5, <1>11, <1>13, <2>3 DEF Dead
    <3>2. b = <<>> => l > n + 1
      BY <1>3, <1>10, <1>11, <2>3
    <3>3. q >= n + 1 /\ (k >= n + 2 => q >= n + 2)
      BY <1>2, <1>3, <1>9, <1>10, <3>1, <3>2
    <3> QED BY <1>1, <1>2, <1>3, <1>5, <1>7, <2>1, <3>3 DEF TurnOK, Dead
  <2> QED BY <2>2, <2>3
<1> QED BY <1>12, <1>13 DEF TurnOK

\* After each impulse but the last.
LEMMA AllTurnsOK ==
  ASSUME NEW c, NEW length, Impulses(c, length), 2 * FilterLength <= length, Len(c) # 0
  PROVE  \A j \in 0 .. Len(c) - 1 :
           TurnOK(c, j, Turns(c, length)[j], Singles(c, Len(c) - 1)[j], Reach(c)[j])
<1>1. PICK n : n = Len(c)
  OBVIOUS
<1>2. n \in Nat \ {0} /\ n - 1 \in Int /\ length \in Nat
  BY <1>1 DEF Impulses
<1>3. PICK t, s, r : t = Turns(c, length) /\ s = Singles(c, n - 1) /\ r = Reach(c)
  OBVIOUS
<1>4. /\ t[0] = FirstTurn(length)
      /\ \A j \in 0 .. n : t[j] \in FilterStates(length)
      /\ \A j \in 1 .. n : t[j] = Turn(c, length, j, t[j - 1])
  BY <1>1, <1>3, TurnsAre
<1>5. /\ s[0] = <<1>>
      /\ \A j \in 0 .. n : s[j] \in Seq(Int)
      /\ \A j \in 1 .. n : s[j] = Scaled(Convolution(s[j - 1], c[j].data),
                                         IF j <= n - 1 THEN c[j].scale ELSE 1)
  BY <1>1, <1>2, <1>3, SinglesAre
<1>6. /\ r[0] = 1
      /\ \A j \in 0 .. n : r[j] \in Int
      /\ \A j \in 1 .. n : r[j] = r[j - 1] + Len(c[j].data) - 1
  BY <1>1, <1>3, ReachIs
<1> DEFINE S == {j \in Nat : j <= n - 1 => TurnOK(c, j, t[j], s[j], r[j])}
<1>7. 0 \in S
  <2>1. TurnOK(c, 0, t[0], s[0], r[0])
    BY <1>2, <1>4, <1>5, <1>6, FirstTurnOK
  <2> QED BY <2>1
<1>8. ASSUME NEW j \in Nat, j \in S PROVE j + 1 \in S
  <2>1. SUFFICES ASSUME j + 1 <= n - 1 PROVE TurnOK(c, j + 1, t[j + 1], s[j + 1], r[j + 1])
    OBVIOUS
  <2>2. PICK i : i = j + 1
    OBVIOUS
  <2>3. i \in 1 .. n /\ i <= n - 1 /\ i - 1 = j /\ j \in 0 .. n /\ j <= n - 1
    BY <1>2, <2>1, <2>2
  <2>4. TurnOK(c, i - 1, t[j], s[j], r[j])
    BY <1>8, <2>3
  <2>5. t[j] \in FilterStates(length) /\ s[j] \in Seq(Int) /\ r[j] \in Int
    BY <1>4, <1>5, <1>6, <2>3
  <2>6. t[i] = Turn(c, length, i, t[j])
    BY <1>4, <2>3
  <2>7. s[i] = Scaled(Convolution(s[j], c[i].data), c[i].scale)
    BY <1>5, <2>3
  <2>8. r[i] = r[j] + Len(c[i].data) - 1
    BY <1>6, <2>3
  <2>9. TurnOK(c, i, Turn(c, length, i, t[j]), Scaled(Convolution(s[j], c[i].data), c[i].scale),
               r[j] + Len(c[i].data) - 1)
    BY <1>1, <2>3, <2>4, <2>5, NextTurnOK
  <2> QED BY <2>2, <2>6, <2>7, <2>8, <2>9
<1>9. Nat \subseteq S
  <2> HIDE DEF S
  <2> QED BY <1>7, <1>8, Induction
<1>10. \A j \in 0 .. n - 1 : TurnOK(c, j, t[j], s[j], r[j])
  BY <1>2, <1>9
<1> QED BY <1>1, <1>3, <1>10


\* What is saved of the last turn.
LEMMA SavedIs ==
  ASSUME NEW c, NEW length, Impulses(c, length), NEW frames \in 0 .. length
  PROVE  LET p == SubSeq(Turns(c, length)[Len(c)].out, 1, frames)
         IN  /\ p \in Seq(Int) /\ Len(p) = frames
             /\ \A k \in 1 .. frames : p[k] = Turns(c, length)[Len(c)].out[k]
<1>1. PICK out : out = Turns(c, length)[Len(c)].out
  OBVIOUS
<1>2. out \in Seq(Int) /\ Len(out) = length
  <2>1. Len(c) \in 0 .. Len(c)
    BY DEF Impulses
  <2>2. Turns(c, length)[Len(c)] \in FilterStates(length)
    BY <2>1, TurnsAre
  <2> QED BY <1>1, <2>2 DEF FilterStates
<1>3. PICK p : p = SubSeq(out, 1, frames)
  OBVIOUS
<1>4. p \in Seq(Int) /\ Len(p) = frames /\ \A k \in 1 .. frames : p[k] = out[k]
  BY <1>2, <1>3 DEF Impulses
<1> QED BY <1>1, <1>3, <1>4

\* If all impulses but the last fit into one block together and the last does
\* not, what is saved is the convolution of the chain.
LEMMA PreconvolvedRight ==
  ASSUME NEW c, NEW frames \in Nat, Impulses(c, NextMultiple(frames, FilterLength)), Len(c) # 0,
         FitsOneBlock(c)
  PROVE  Preconvolved(c, frames) = Padded(Single(c, Len(c) - 1), frames)
<1>1. PICK k \in Nat \ {0} : /\ NextMultiple(frames, FilterLength) = k * FilterLength
                             /\ frames <= k * FilterLength /\ k * FilterLength \in Nat
  BY FilterAssumption, Multiple
<1>2. PICK length : length = NextMultiple(frames, FilterLength)
  OBVIOUS
<1>3. PICK n : n = Len(c)
  OBVIOUS
<1>4. n \in Nat \ {0} /\ n \in 1 .. n /\ n - 1 \in 0 .. n - 1 /\ n - 1 \in 0 .. n /\ n \in 0 .. n
      /\ n - 1 \in Int /\ ~(n <= n - 1) /\ length \in Nat /\ frames \in 0 .. length
  BY <1>1, <1>2, <1>3 DEF Impulses
<1>5. PICK b : b = c[n].data
  OBVIOUS
<1>6. b \in Seq(Int) /\ Len(b) > FilterLength /\ Len(b) <= length
  BY <1>2, <1>3, <1>4, <1>5 DEF Impulses, FitsOneBlock
<1>7. 2 * FilterLength <= length
  <2>1. PICK l \in Nat \ {0} : l = FilterLength
    BY FilterAssumption
  <2>2. k * l > l
    BY <1>1, <1>2, <1>6, <2>1
  <2>3. k # 1
    BY <2>2
  <2>4. k >= 2
    BY <2>3
  <2>5. k * l >= 2 * l
    BY ONLY <2>4, k \in Nat, l \in Nat
  <2> QED BY <1>1, <1>2, <2>1, <2>5
<1>8. PICK t, s, r : t = Turns(c, length) /\ s = Singles(c, n - 1) /\ r = Reach(c)
  OBVIOUS
<1>9. TurnOK(c, n - 1, t[n - 1], s[n - 1], r[n - 1]) /\ r[n - 1] <= FilterLength /\ r[n - 1] \in Int
  <2>1. TurnOK(c, n - 1, t[n - 1], s[n - 1], r[n - 1])
    BY <1>2, <1>3, <1>4, <1>7, <1>8, AllTurnsOK
  <2>2. r[n - 1] \in Int
    BY <1>2, <1>3, <1>4, <1>8, ReachIs
  <2> QED BY <1>3, <1>8, <2>1, <2>2 DEF FitsOneBlock
<1>10. PICK u, a : u = t[n - 1] /\ a = s[n - 1]
  OBVIOUS
<1>11. u \in FilterStates(length) /\ t[n] = Turn(c, length, n, u)
  BY <1>2, <1>3, <1>4, <1>8, <1>10, TurnsAre
<1>12. a \in Seq(Int) /\ s[n] = Scaled(Convolution(a, b), 1)
  BY <1>2, <1>3, <1>4, <1>5, <1>8, <1>10, SinglesAre
<1>13. PICK out : out = t[n].out
  OBVIOUS
<1>14. out = Run(u.coeffs, u.before, Padded(b, length))
  BY <1>5, <1>11, <1>13 DEF Turn
<1>15. u.coeffs \in Seq(Int) /\ Len(u.coeffs) = FilterLength /\ u.before \in Seq(Int)
  BY <1>11 DEF FilterStates
<1>16. PICK x : x = Convolution(a, b)
  OBVIOUS
<1>17. x \in Seq(Int) /\ s[n] = Scaled(x, 1) /\ s[n] \in Seq(Int)
       /\ \A m \in Int : Sample(s[n], m) = Sample(x, m)
  <2>1. x \in Seq(Int) /\ s[n] = Scaled(x, 1)
    BY <1>6, <1>12, <1>16, ConvolutionIs
  <2>2. s[n] \in Seq(Int) /\ \A m \in Int : Sample(s[n], m) = Sample(x, m) * 1
    BY <2>1, ScaledIs
  <2>3. \A m \in Int : Sample(x, m) \in Int
    BY <2>1, SampleIs
  <2> QED BY <2>1, <2>2, <2>3
<1>18. \A m \in 1 .. length : out[m] = Sample(x, m - 1)
  <2>1. CASE Alive(c, n - 1, a, r[n - 1], u.coeffs)
    <3>1. u.coeffs = Padded(a, FilterLength) /\ Len(a) <= FilterLength
          /\ LastLength(c, n - 1) <= r[n - 1]
      BY <1>9, <2>1 DEF Alive
    <3>2. LastLength(c, n - 1) \in Int
      <4>1. CASE n = 1
        BY <4>1 DEF LastLength
      <4>2. CASE n # 1
        <5>1. n - 1 \in 1 .. Len(c) /\ n - 1 # 0
          BY <1>3, <1>4, <4>2
        <5>2. c[n - 1].data \in Seq(Int) /\ LastLength(c, n - 1) = Len(c[n - 1].data)
          BY <5>1 DEF Impulses, LastLength
        <5> QED BY <5>2
      <4> QED BY <4>1, <4>2
    <3>3. LastLength(c, n - 1) <= FilterLength + 1
      BY <1>9, <3>1, <3>2, FilterAssumption
    <3>4. Silent(u.before)
      BY <1>9, <1>10, <3>3 DEF TurnOK, Remembers
    <3> QED BY <1>4, <1>6, <1>12, <1>14, <1>15, <1>16, <3>1, <3>4, RunConvolves
  <2>2. CASE Dead(c, n - 1, a, r[n - 1], u.coeffs)
    <3>1. Zeros(u.coeffs) /\ a = <<>>
      BY <1>9, <2>2, FilterAssumption DEF Dead
    <3>2. Zeros(out)
      <4>1. FilterLength <= length /\ 1 \in Int
        BY <1>4, <1>7, FilterAssumption
      <4> QED BY <1>4, <1>6, <1>14, <1>15, <3>1, <4>1, NextSilent
    <3>3. Padded(b, length) \in Seq(Int) /\ Len(Padded(b, length)) = length
      BY <1>4, <1>6, PaddedIs
    <3>4. Len(out) = length
      BY <1>14, <1>15, <3>3, RunIs
    <3>5. Len(x) = 0
      BY <1>6, <1>12, <1>16, <3>1, ConvolutionIs DEF ConvolutionLength
    <3>6. ASSUME NEW m \in 1 .. length PROVE out[m] = Sample(x, m - 1)
      <4>1. m - 1 \in Int /\ m - 1 >= Len(x)
        BY <3>5
      <4>2. Sample(x, m - 1) = 0
        BY <1>17, <4>1, SampleIs
      <4> QED BY <3>2, <3>4, <4>2 DEF Zeros
    <3> QED BY <3>6
  <2> QED BY <1>9, <1>10, <2>1, <2>2 DEF TurnOK
<1>19. PICK p, q : p = Preconvolved(c, frames) /\ q = Padded(s[n], frames)
  OBVIOUS
<1>20. p \in Seq(Int) /\ Len(p) = frames /\ \A m \in 1 .. frames : p[m] = out[m]
  <2>1. p = SubSeq(Turns(c, length)[Len(c)].out, 1, frames)
    BY <1>2, <1>19 DEF Preconvolved
  <2> QED BY <1>2, <1>3, <1>4, <1>8, <1>13, <2>1, SavedIs
<1>21. q \in Seq(Int) /\ Len(q) = frames /\ \A m \in 1 .. frames : q[m] = Sample(s[n], m - 1)
  BY <1>17, <1>19, PaddedIs
<1>22. \A m \in 1 .. frames : p[m] = q[m]
  <2> TAKE m \in 1 .. frames
  <2>1. m \in 1 .. length /\ m - 1 \in Int
    BY <1>4
  <2> QED BY <1>17, <1>18, <1>20, <1>21, <2>1
<1>23. p = q
  BY <1>20, <1>21, <1>22, SameSequence
<1> QED BY <1>3, <1>8, <1>19, <1>23 DEF Single

-----------------------------------------------------------------------------
(* The fourth part: what the chain's convolution holds.                    *)

\* Samples and scales are numbers, and the whole file of a chain holds what
\* the filter makes of it.
Right(s) ==
  /\ s.data \in Seq(Int)
  /\ s.parts # <<>> /\ s.whole =>
       /\ Impulses(s.parts, NextMultiple(Len(s.data), FilterLength)) /\ Len(s.parts) # 0
       /\ s.data = Preconvolved(s.parts, Len(s.data))

\* Right, too, is what an object is about to write; the chain's scales are
\* numbers.
RightObject(i) ==
  /\ \A j \in DOMAIN chain[i] : chain[i][j].scale \in Int
  /\ pc[i] = "saving" => Right(target[i].sound)

\* Every file of the directory is right.
FilesRight == \A n \in DOMAIN temp : Right(temp[n])

\* The fourth part of the inductive invariant.
RightInv == FilesRight /\ \A i \in Instances : RightObject(i)

\* What can be loaded holds numbers.
LEMMA SoundNumbers ==
  ASSUME FitInv, FilesRight, NEW n, Exists(n)
  PROVE  Sound(n).data \in Seq(Int)
<1>1. CASE n \in DOMAIN temp
  BY <1>1 DEF FilesRight, Right, Sound
<1>2. CASE n \notin DOMAIN temp
  <2>1. n \in FileNames /\ files[n] \in Contents
    BY <1>2 DEF Exists, FitInv, FilesNamed
  <2>2. files[n].data \in Seq(Int)
    BY <2>1, SoundsAssumption
  <2>3. Sound(n).data = files[n].data
    BY <1>2 DEF Sound
  <2> QED BY <2>2, <2>3
<1> QED BY <1>1, <1>2

\* What is loaded of it fits into the buffer.
LEMMA LoadedIs ==
  ASSUME NEW s \in Seq(Int), NEW frames \in Nat
  PROVE  /\ Loaded(s, frames) \in Seq(Int)
         /\ Len(Loaded(s, frames)) <= NextMultiple(frames, FilterLength)
<1>1. PICK length : length = NextMultiple(frames, FilterLength) /\ length \in Nat
  BY FilterAssumption, Multiple
<1>2. CASE Len(s) > length
  <2>1. SubSeq(s, 1, length) \in Seq(Int) /\ Len(SubSeq(s, 1, length)) = length
    BY <1>1, <1>2
  <2> QED BY <1>1, <1>2, <2>1 DEF Loaded
<1>3. CASE ~(Len(s) > length)
  BY <1>1, <1>3 DEF Loaded
<1> QED BY <1>2, <1>3

\* Each of the things a set-up makes is right: the chain, ...
LEMMA ConvolvedRight ==
  ASSUME FitInv, FilesRight, NEW c, IsSequence(c), NEW st, NEW frames \in Nat,
         \A j \in DOMAIN c : Exists(c[j].name) /\ c[j].scale \in Int
  PROVE  Right(Convolved(c, st, frames))
<1> DEFINE P(j) == [data |-> Loaded(Sound(c[j].name).data, frames), scale |-> c[j].scale]
<1>1. PICK n \in Nat : n = Len(c) /\ DOMAIN c = 1 .. n
  BY DEF IsSequence
<1>2. PICK parts : parts = [j \in 1 .. n |-> P(j)]
  OBVIOUS
<1>3. PICK s : s = Convolved(c, st, frames)
  OBVIOUS
<1>4. s.parts = parts /\ s.data = Preconvolved(parts, frames)
  BY <1>1, <1>2, <1>3 DEF Convolved
<1>5. PICK length : /\ length = NextMultiple(frames, FilterLength) /\ length \in Nat
                    /\ frames <= length /\ FilterLength <= length
  <2>1. PICK k \in Nat \ {0} : /\ NextMultiple(frames, FilterLength) = k * FilterLength
                               /\ frames <= k * FilterLength /\ k * FilterLength \in Nat
    BY FilterAssumption, Multiple
  <2>2. FilterLength <= k * FilterLength
    <3>1. PICK l \in Nat : l = FilterLength
      BY FilterAssumption
    <3>2. k * l >= l
      BY ONLY k \in Nat \ {0}, l \in Nat
    <3> QED BY <3>1, <3>2
  <2> QED BY <2>1, <2>2
<1>6. ASSUME NEW j \in 1 .. n
      PROVE  parts[j].data \in Seq(Int) /\ Len(parts[j].data) <= length /\ parts[j].scale \in Int
  <2>1. Exists(c[j].name) /\ c[j].scale \in Int
    BY <1>1
  <2>2. Sound(c[j].name).data \in Seq(Int)
    BY <2>1, SoundNumbers
  <2>3. P(j).data = Loaded(Sound(c[j].name).data, frames) /\ P(j).scale = c[j].scale
    OBVIOUS
  <2> HIDE DEF P
  <2>4. parts[j] = P(j)
    BY <1>2
  <2> QED BY <1>5, <2>1, <2>2, <2>3, <2>4, LoadedIs
<1> HIDE DEF P
<1>7. Len(parts) = n
  <2>1. parts = [j \in 1 .. n |-> parts[j]]
    BY <1>2
  <2> QED BY <2>1, FunctionIsSequence
<1>8. Impulses(parts, length)
  BY <1>5, <1>6, <1>7 DEF Impulses
<1>9. s.data \in Seq(Int) /\ Len(s.data) = frames
  <2>1. frames \in 0 .. length
    BY <1>5
  <2> QED BY <1>4, <1>5, <1>8, <2>1, SavedIs DEF Preconvolved
<1>10. n = 0 => parts = <<>>
  <2>1. n = 0 => DOMAIN parts = {} /\ parts = [j \in {} |-> parts[j]]
    BY <1>2
  <2>2. n = 0 => parts \in Seq({})
    BY <1>2
  <2> QED BY <1>7, <2>2
<1> QED BY <1>3, <1>4, <1>5, <1>7, <1>8, <1>9, <1>10 DEF Right

\* A resampled impulse takes its samples from the one it is made of.
LEMMA ResampledRight ==
  ASSUME NEW s, SoundOK(s), s.data \in Seq(Int), NEW st, Plausible(st)
  PROVE  Right(Resampled(s, st))
<1>1. PICK n, a, b : n = Len(s.data) /\ a = s.rate /\ b = st.rate
  OBVIOUS
<1>2. n \in Nat /\ a \in Nat \ {0} /\ b \in Nat \ {0}
  BY <1>1 DEF SoundOK, Plausible
<1>3. PICK out : out = (n * a) \div b
  OBVIOUS
<1>4. PICK m : m = IF out < n THEN out ELSE n
  OBVIOUS
<1>5. n * a \in Nat
  BY ONLY <1>2
<1>6. out \in Nat /\ b * out <= n * a
  <2>1. PICK v \in Nat : v = n * a
    BY <1>5
  <2>2. out = v \div b
    BY <1>3, <2>1
  <2>3. v \div b \in Nat /\ v % b \in 0 .. b - 1 /\ v = b * (v \div b) + (v % b)
    BY <1>2, Division
  <2>4. b * out \in Int
    BY <1>2, <2>2, <2>3
  <2> QED BY <2>1, <2>2, <2>3, <2>4
<1>7. m \in Nat /\ m <= out
  BY <1>2, <1>4, <1>6
<1>8. ASSUME NEW k \in 1 .. m
      PROVE  s.data[1 + ((k - 1) * b) \div a] \in Int
  <2>1. PICK v : v = (k - 1) * b
    OBVIOUS
  <2>2. v \in Nat
    BY ONLY <1>2, <1>7, <2>1, k \in 1 .. m
  <2>3. v < n * a
    <3>1. k - 1 \in Nat /\ (k - 1) + 1 <= out
      BY <1>6, <1>7
    <3>2. PICK w \in Nat : w = k - 1
      BY <3>1
    <3>3. (w + 1) * b <= out * b
      BY ONLY <1>2, <1>6, <3>1, <3>2, w \in Nat
    <3>4. (w + 1) * b = w * b + b /\ out * b = b * out
      BY ONLY <1>2, <1>6, w \in Nat
    <3>5. w * b \in Nat /\ b * out \in Nat
      BY ONLY <1>2, <1>6, w \in Nat
    <3>6. v = w * b
      BY <2>1, <3>2
    <3> QED BY ONLY <1>2, <1>5, <1>6, <3>3, <3>4, <3>5, <3>6
  <2>4. PICK q : q = v \div a
    OBVIOUS
  <2>5. q \in Nat /\ a * q <= v
    <3>1. v \div a \in Nat /\ v % a \in 0 .. a - 1 /\ v = a * (v \div a) + (v % a)
      BY <1>2, <2>2, Division
    <3>2. a * q \in Int
      BY <1>2, <2>4, <3>1
    <3> QED BY <2>2, <2>4, <3>1, <3>2
  <2>6. q < n
    <3>1. a * q < n * a
      BY <1>2, <1>5, <2>2, <2>3, <2>5
    <3> QED BY ONLY <1>2, <2>5, <3>1
  <2>7. 1 + q \in 1 .. n /\ 1 + ((k - 1) * b) \div a = 1 + q
    BY <1>2, <2>1, <2>4, <2>5, <2>6
  <2>8. s.data[1 + q] \in Int
    BY <1>1, <2>7
  <2> QED BY <2>7, <2>8
<1>9. PICK d : d = [k \in 1 .. m |-> s.data[1 + ((k - 1) * b) \div a]]
  OBVIOUS
<1>10. d \in Seq(Int)
  <2>1. d \in [1 .. m -> Int]
    BY <1>8, <1>9
  <2> QED BY <1>7, <2>1
<1>11. Resampled(s, st) = [s EXCEPT !.channels = st.channels, !.rate = st.rate, !.parts = <<>>, !.data = d]
  BY <1>1, <1>3, <1>4, <1>9 DEF Resampled
<1>12. Resampled(s, st).data = d /\ Resampled(s, st).parts = <<>>
  BY <1>11 DEF SoundOK
<1> QED BY <1>10, <1>12 DEF Right

\* ... and whichever of the three it is.
LEMMA ProductRight ==
  ASSUME MadeInv, FitInv, RightInv, NEW i \in Instances, pc[i] = "making", Loadable(i)
  PROVE  Right(Product(i))
<1>1. Making(i) /\ stream[i] \in Streams /\ ChainKnown(i) /\ FilesNamed
  BY DEF FitInv, Fitting, SetUpOK, MadeInv, Known
<1>2. target[i].kind \in {"chain", "eq", "ir"}
  BY DEF MadeInv, Known, TargetKnown
<1>3. CASE target[i].kind = "chain"
  <2>1. Product(i) = Convolved(chain[i], target[i].st, target[i].frames)
    BY <1>3 DEF Product
  <2>2. target[i].frames \in Nat /\ IsSequence(chain[i])
    BY <1>1, <1>3 DEF Making, ChainKnown
  <2>3. \A j \in DOMAIN chain[i] : Exists(chain[i][j].name) /\ chain[i][j].scale \in Int
    BY <1>3 DEF Loadable, Readable, RightInv, RightObject
  <2> QED BY <2>1, <2>2, <2>3, ConvolvedRight DEF RightInv
<1>4. CASE target[i].kind = "eq"
  <2>1. Product(i) = Rendered(target[i].mag, stream[i]) /\ Equalized(target[i].mag) \in Seq(Int)
    BY <1>1, <1>4 DEF Product, Making
  <2>2. Product(i).data = Equalized(target[i].mag) /\ Product(i).parts = <<>>
    BY <2>1 DEF Rendered
  <2> QED BY <2>1, <2>2 DEF Right
<1>5. CASE target[i].kind = "ir"
  <2>1. Product(i) = Resampled(Sound(target[i].from), stream[i]) /\ Exists(target[i].from)
    BY <1>5 DEF Product, Loadable, Readable
  <2>2. SoundOK(Sound(target[i].from)) /\ Sound(target[i].from).data \in Seq(Int)
    BY <1>1, <2>1, SoundIsSound, SoundNumbers DEF RightInv
  <2> QED BY <1>1, <2>1, <2>2, StreamsPlausible, ResampledRight
<1> QED BY <1>2, <1>3, <1>4, <1>5

\* What is not yet, or never will be, whole claims nothing.
LEMMA ShortenedRight ==
  ASSUME NEW s, SoundOK(s), Right(s)
  PROVE  Right(Opened(s)) /\ Right(Headless(s)) /\ Right(CutOff(s))
<1>1. /\ Opened(s).data = <<>> /\ Opened(s).whole = FALSE
      /\ Headless(s).data = <<>> /\ Headless(s).whole = FALSE
  BY DEF Opened, Headless, SoundOK
<1>2. PICK d : d = SubSeq(s.data, 1, Len(s.data) \div 2)
  OBVIOUS
<1>3. CutOff(s).data = d /\ CutOff(s).whole = FALSE
  BY <1>2 DEF CutOff, SoundOK
<1>4. d \in Seq(Int)
  <2>1. PICK x \in Seq(Int) : x = s.data
    BY DEF Right
  <2>2. PICK l \in Nat : l = Len(x)
    OBVIOUS
  <2>3. PICK h : h = l \div 2
    OBVIOUS
  <2>4. h \in 0 .. l
    BY <2>3
  <2>5. SubSeq(x, 1, h) \in Seq(Int)
    BY <2>2, <2>4
  <2> QED BY <1>2, <2>1, <2>2, <2>3, <2>5
<1>5. <<>> \in Seq(Int)
  OBVIOUS
<1> QED BY <1>1, <1>3, <1>4, <1>5 DEF Right

\* A file that is right may be put into the directory.
LEMMA PutRight ==
  ASSUME FilesRight, NEW name, NEW s, Right(s), temp' = Put(name, s)
  PROVE  FilesRight'
BY DEF FilesRight, Right, Put


\* An object that is not touched stays right.
LEMMA RightStays ==
  ASSUME NEW k \in Instances, RightObject(k),
         pc'[k] = pc[k], chain'[k] = chain[k], target'[k] = target[k]
  PROVE  RightObject(k)'
BY DEF RightObject, Right

\* It suffices to look at the object whose turn it is.
LEMMA OneRight ==
  ASSUME RightInv, NEW i \in Instances, Apart(i), FilesRight', RightObject(i)'
  PROVE  RightInv'
<1>1. ASSUME NEW k \in Instances, k # i PROVE RightObject(k)'
  BY <1>1, RightStays DEF RightInv, Apart
<1> QED BY <1>1 DEF RightInv

\* An object that has not taken a file into its chain, and makes none.
LEMMA OnlyNames ==
  ASSUME MadeInv, FitInv, RightInv, NEW i \in Instances, Apart(i), temp' = temp,
         chain'[i] \in {chain[i], <<>>}, pc'[i] \notin {"making", "saving"}
  PROVE  RightInv'
<1>1. RightObject(i)'
  BY DEF RightInv, RightObject
<1>2. FilesRight'
  BY DEF RightInv, FilesRight, Right
<1> QED BY <1>1, <1>2, OneRight

\* A chain that has got a scale more.
LEMMA ScaleRight ==
  ASSUME NEW c, IsSequence(c), \A j \in DOMAIN c : c[j].scale \in Int, NEW name, NEW scale \in Int
  PROVE  \A j \in DOMAIN Append(c, Entry(name, scale)) : Append(c, Entry(name, scale))[j].scale \in Int
<1>1. PICK e : e = Entry(name, scale)
  OBVIOUS
<1>2. e.scale \in Int
  BY <1>1 DEF Entry
<1>3. \A j \in DOMAIN Append(c, e) :
        Append(c, e)[j] = e \/ \E k \in DOMAIN c : Append(c, e)[j] = c[k]
  BY AppendKeeps
<1> QED BY <1>1, <1>2, <1>3

\* The scales of the slots are numbers.
LEMMA SlotScale ==
  ASSUME MadeInv, FitInv, NEW i \in Instances,
         AtSlot(i) \/ (pc[i] \in {"making", "saving"} /\ target[i].kind # "chain")
  PROVE  settings[Slots[slot[i]]].scale \in Int
<1>1. slot[i] \in DOMAIN Slots
  <2>1. slot[i] \in Nat \ {0} /\ slot[i] <= Len(Slots)
    BY DEF MadeInv, Known, TargetKnown, AtSlot
  <2> QED BY <2>1, SlotsAssumption, SlotsNat
<1>2. settings \in Settings
  BY DEF FitInv, FilesNamed
<1> QED BY <1>1, <1>2, SoundsAssumption

\* The steps of the set-up, one after the other.
LEMMA BeginRight ==
  ASSUME MadeInv, FitInv, RightInv, NEW i \in Instances, NEW st \in Streams, Begin(i, st)
  PROVE  RightInv'
<1>1. Apart(i) /\ temp' = temp /\ pc'[i] = "slots" /\ chain'[i] = <<>>
  BY FitDomains DEF Begin, Apart
<1> QED BY <1>1, OnlyNames

LEMMA SlotsRight ==
  ASSUME MadeInv, FitInv, RightInv, NEW i \in Instances,
         SkipSlot(i) \/ TakeSlot(i) \/ MakeSlot(i)
  PROVE  RightInv'
<1>1. temp' = temp /\ AtSlot(i)
  BY DEF SkipSlot, TakeSlot, MakeSlot
<1>2. FilesRight'
  BY <1>1 DEF RightInv, FilesRight, Right
<1>3. Apart(i)
  BY FitDomains DEF SkipSlot, TakeSlot, MakeSlot, Apart
<1>4. PICK scale : scale = settings[Slots[slot[i]]].scale
  OBVIOUS
<1>5. scale \in Int
  BY <1>1, <1>4, SlotScale
<1>6. \A j \in DOMAIN chain[i] : chain[i][j].scale \in Int
  BY DEF RightInv, RightObject
<1>7. CASE SkipSlot(i)
  <2>1. chain'[i] = chain[i] /\ pc'[i] = "slots"
    BY <1>7 DEF SkipSlot, AtSlot
  <2> QED BY <1>1, <1>3, <2>1, OnlyNames
<1>8. CASE TakeSlot(i)
  <2>1. PICK name : name = Wanted(i).name
    OBVIOUS
  <2>2. chain'[i] = Append(chain[i], Entry(name, scale)) /\ pc'[i] = "slots"
    BY <1>4, <1>8, <2>1, FitDomains DEF TakeSlot, AtSlot
  <2>3. IsSequence(chain[i])
    BY DEF MadeInv, Known, ChainKnown
  <2>4. \A j \in DOMAIN chain'[i] : chain'[i][j].scale \in Int
    BY <1>5, <1>6, <2>2, <2>3, ScaleRight
  <2>5. RightObject(i)'
    BY <2>2, <2>4 DEF RightObject
  <2> QED BY <1>2, <1>3, <2>5, OneRight
<1>9. CASE MakeSlot(i)
  <2>1. chain'[i] = chain[i] /\ pc'[i] = "making"
    BY <1>9, FitDomains DEF MakeSlot
  <2>2. RightObject(i)'
    BY <1>6, <2>1 DEF RightObject
  <2> QED BY <1>2, <1>3, <2>2, OneRight
<1> QED BY <1>7, <1>8, <1>9

LEMMA EndRight ==
  ASSUME MadeInv, FitInv, RightInv, NEW i \in Instances,
         NoImpulse(i) \/ NoFilter(i) \/ SetCoeff(i) \/ OneImpulse(i) \/ Measure(i)
           \/ \E onStack \in OnStack : Scan(i, onStack)
  PROVE  RightInv'
<1>1. temp' = temp /\ stream' = stream
  BY DEF NoImpulse, NoFilter, SetCoeff, OneImpulse, Measure, Scan
<1>2. CASE NoImpulse(i) \/ NoFilter(i)
  <2>1. Done(i) /\ UNCHANGED <<filter, stream>>
    BY <1>2 DEF NoImpulse, NoFilter
  <2>2. Apart(i) /\ pc'[i] = "idle" /\ chain'[i] = <<>>
    BY <2>1, FitDomains DEF Done, Apart
  <2> QED BY <1>1, <2>2, OnlyNames
<1>3. CASE SetCoeff(i)
  <2>1. Done(i) /\ \E f : filter' = [filter EXCEPT ![i] = f]
    BY <1>3 DEF SetCoeff
  <2>2. Apart(i) /\ pc'[i] = "idle" /\ chain'[i] = <<>>
    BY <1>1, <2>1, FitDomains DEF Done, Apart
  <2> QED BY <1>1, <2>2, OnlyNames
<1>4. CASE OneImpulse(i) \/ Measure(i)
  <2>1. Apart(i) /\ pc'[i] \in {"measure", "load"} /\ chain'[i] = chain[i]
    BY <1>1, <1>4, FitDomains DEF OneImpulse, Measure, ToLoad, Apart
  <2> QED BY <1>1, <2>1, OnlyNames
<1>5. CASE \E onStack \in OnStack : Scan(i, onStack)
  <2>1. PICK onStack \in OnStack : Scan(i, onStack)
    BY <1>5
  <2>2. Apart(i) /\ chain'[i] = chain[i]
    BY <1>1, <2>1, FitDomains DEF Scan, ToLoad, Apart
  <2>3. pc'[i] = "measure" \/ (pc'[i] = "making" /\ target'[i].kind = "chain")
    BY <2>1, FitDomains DEF Scan, ToLoad
  <2>4. CASE pc'[i] = "measure"
    BY <1>1, <2>2, <2>4, OnlyNames
  <2>5. CASE pc'[i] = "making" /\ target'[i].kind = "chain"
    <3>1. RightObject(i)'
      BY <2>2, <2>5 DEF RightInv, RightObject
    <3>2. FilesRight'
      BY <1>1 DEF RightInv, FilesRight, Right
    <3> QED BY <2>2, <3>1, <3>2, OneRight
  <2> QED BY <2>3, <2>4, <2>5
<1> QED BY <1>2, <1>3, <1>4, <1>5

\* Where the set-up goes on with what it has made, or without it.
LEMMA GoOnRight ==
  ASSUME MadeInv, FitInv, RightInv, NEW i \in Instances, pc[i] \in {"making", "saving"},
         NEW name, GoOn(i, name), UNCHANGED <<filter, stream>>, FilesRight'
  PROVE  RightInv'
<1>1. Apart(i) /\ pc'[i] \in {"slots", "measure"}
  BY GoOnApart
<1>2. \A j \in DOMAIN chain[i] : chain[i][j].scale \in Int
  BY DEF RightInv, RightObject
<1>3. \A j \in DOMAIN chain'[i] : chain'[i][j].scale \in Int
  <2>1. CASE chain'[i] = chain[i]
    BY <1>2, <2>1
  <2>2. CASE chain'[i] # chain[i]
    <3>1. PICK scale : scale = settings[Slots[slot[i]]].scale
      OBVIOUS
    <3>2. target[i].kind # "chain" /\ chain'[i] = Append(chain[i], Entry(name, scale))
      BY <2>2, <3>1, FitDomains DEF GoOn
    <3>3. scale \in Int
      BY <3>1, <3>2, SlotScale
    <3>4. IsSequence(chain[i])
      BY DEF MadeInv, Known, ChainKnown
    <3> QED BY <1>2, <3>2, <3>3, <3>4, ScaleRight
  <2> QED BY <2>1, <2>2
<1>4. RightObject(i)'
  BY <1>1, <1>3 DEF RightObject
<1> QED BY <1>1, <1>4, OneRight

LEMMA GiveUpRight ==
  ASSUME MadeInv, FitInv, RightInv, NEW i \in Instances, MakeFails(i) \/ OpenFails(i)
  PROVE  RightInv'
<1>1. pc[i] = "making" /\ UNCHANGED <<filter, stream>> /\ \E name : GoOn(i, name)
  BY DEF MakeFails, OpenFails
<1>2. FilesRight'
  <2>1. CASE temp' = temp
    BY <2>1 DEF RightInv, FilesRight, Right
  <2>2. CASE OpenFails(i) /\ temp' = Put(target[i].name, Headless(Product(i)))
    <3>1. Right(Product(i)) /\ SoundOK(Product(i))
      BY <2>2, ProductRight, ProductNamed DEF OpenFails, Named
    <3>2. Right(Headless(Product(i)))
      BY <3>1, ShortenedRight
    <3> QED BY <2>2, <3>2, PutRight DEF RightInv
  <2> QED BY <2>1, <2>2 DEF MakeFails, OpenFails
<1> QED BY <1>1, <1>2, GoOnRight

LEMMA OpenRight ==
  ASSUME MadeInv, FitInv, RightInv, NEW i \in Instances, Open(i)
  PROVE  RightInv'
<1>0. PICK s, name : s = Product(i) /\ name = target[i].name
  OBVIOUS
<1>1. pc[i] = "making" /\ Making(i) /\ Right(s) /\ SoundOK(s)
  BY <1>0, ProductRight, ProductNamed DEF Open, FitInv, Fitting, SetUpOK, Named
<1> DEFINE t == [target[i] EXCEPT !.sound = s]
<1>2. /\ \E e \in {Headless(s), Opened(s)} : temp' = Put(name, e)
      /\ UNCHANGED <<filter, stream, slot, chain>>
      /\ pc' = [pc EXCEPT ![i] = "saving"] /\ target' = [target EXCEPT ![i] = t]
  BY <1>0 DEF Open
<1>3. pc'[i] = "saving" /\ target'[i] = t
  BY <1>2, FitDomains
<1>4. t.sound = s /\ t.kind = target[i].kind
  BY <1>1 DEF Making
<1> HIDE DEF t
<1>5. Apart(i)
  BY <1>2, FitDomains DEF Apart
<1>6. FilesRight'
  BY <1>1, <1>2, ShortenedRight, PutRight DEF RightInv
<1>7. Right(target'[i].sound)
  BY <1>1, <1>3, <1>4
<1>8. RightObject(i)'
  BY <1>1, <1>2, <1>3, <1>4, <1>7 DEF RightInv, RightObject, Right
<1> QED BY <1>5, <1>6, <1>8, OneRight

LEMMA SaveRight ==
  ASSUME MadeInv, FitInv, RightInv, NEW i \in Instances, Save(i) \/ SaveFails(i)
  PROVE  RightInv'
<1>1. pc[i] = "saving" /\ UNCHANGED <<filter, stream>> /\ \E name : GoOn(i, name)
  BY DEF Save, SaveFails
<1>2. Right(target[i].sound) /\ SoundOK(target[i].sound)
  BY <1>1 DEF RightInv, RightObject, FitInv, Fitting, SetUpOK, Making, Named
<1>3. \E name, s : Right(s) /\ temp' = Put(name, s)
  BY <1>2, ShortenedRight DEF Save, SaveFails
<1>4. FilesRight'
  BY <1>3, PutRight DEF RightInv
<1> QED BY <1>1, <1>4, GoOnRight

LEMMA RestartRight ==
  ASSUME Restart, FilesRight, \A n \in DOMAIN temp' : n \in DOMAIN temp /\ temp'[n] = temp[n]
  PROVE  RightInv'
<1>1. \A k \in Instances : pc'[k] = "idle" /\ chain'[k] = <<>>
  BY DEF Restart
<1>2. \A k \in Instances : RightObject(k)'
  BY <1>1 DEF RightObject
<1>3. FilesRight'
  BY DEF FilesRight, Right
<1> QED BY <1>2, <1>3 DEF RightInv

\* What does not touch files or chains.
LEMMA SameRight ==
  ASSUME RightInv, UNCHANGED <<temp, pc, chain, target>>
  PROVE  RightInv'
BY DEF RightInv, FilesRight, RightObject, Right

\* The fourth part is inductive, with the first two.
LEMMA StepRight == MadeInv /\ FitInv /\ RightInv /\ [Next]_vars => RightInv'
<1> SUFFICES ASSUME MadeInv, FitInv, RightInv, [Next]_vars PROVE RightInv'
  OBVIOUS
<1>1. ASSUME NEW i \in Instances, Step(i)
      PROVE  RightInv'
  <2>1. CASE \E st \in Streams : Begin(i, st)
    BY <2>1, BeginRight
  <2>2. CASE SkipSlot(i) \/ TakeSlot(i) \/ MakeSlot(i)
    BY <2>2, SlotsRight
  <2>3. CASE NoImpulse(i) \/ NoFilter(i) \/ SetCoeff(i) \/ OneImpulse(i) \/ Measure(i)
    BY <2>3, EndRight
  <2>4. CASE \E onStack \in OnStack : Scan(i, onStack)
    BY <2>4, EndRight
  <2>5. CASE \E onStack \in OnStack : Mismatch(i, onStack)
    <3>1. Restart /\ temp' = temp
      BY <2>5 DEF Mismatch
    <3> QED BY <3>1, RestartRight DEF RightInv
  <2>6. CASE MakeFails(i) \/ Open(i) \/ OpenFails(i) \/ Save(i) \/ SaveFails(i)
    BY <2>6, GiveUpRight, OpenRight, SaveRight
  <2> QED BY <1>1, <2>1, <2>2, <2>3, <2>4, <2>5, <2>6 DEF Step
<1>2. CASE \/ \E n \in FileNames, s \in Contents : Replace(n, s)
           \/ \E s \in Settings : Change(s)
  BY <1>2, SameRight DEF Replace, Change, own
<1>3. CASE Crash \/ Quit \/ QuitUnclean
  <2>1. Restart /\ \A n \in DOMAIN temp' : n \in DOMAIN temp /\ temp'[n] = temp[n]
    BY <1>3 DEF Crash, Quit, QuitUnclean, LeftByClean, Astray
  <2> QED BY <2>1, RestartRight DEF RightInv
<1>4. CASE LoseDirectory \/ FindDirectory \/ UNCHANGED vars
  BY <1>4, SameRight DEF LoseDirectory, FindDirectory, vars, own
<1> QED BY <1>1, <1>2, <1>3, <1>4 DEF Next

LEMMA InitRight == Init => RightInv
<1> SUFFICES ASSUME Init PROVE RightInv
  OBVIOUS
<1>1. temp = <<>> /\ \A i \in Instances : pc[i] = "idle" /\ chain[i] = <<>>
  BY DEF Init
<1> QED BY <1>1 DEF RightInv, FilesRight, RightObject

\* A whole convolved chain, whose impulses but the last reach together over
\* one block of the filter at most, and whose last is longer than a block,
\* holds the convolution of its impulses at their scales, without the scale of
\* the last one, as many samples as are saved (preprocessor.cpp:120-197,
\* coeff.cpp:303-338).
THEOREM RightIfShortHolds == Spec => []RightIfShort
<1>1. RightInv => RightIfShort
  <2> SUFFICES ASSUME RightInv, NEW n \in DOMAIN temp, temp[n].parts # <<>>, temp[n].whole,
                      FitsOneBlock(temp[n].parts)
               PROVE  temp[n].data = Padded(Single(temp[n].parts, Len(temp[n].parts) - 1), Len(temp[n].data))
    BY DEF RightIfShort
  <2>1. PICK c, d, frames : c = temp[n].parts /\ d = temp[n].data /\ frames = Len(d)
    OBVIOUS
  <2>2. d \in Seq(Int) /\ Impulses(c, NextMultiple(frames, FilterLength)) /\ Len(c) # 0
        /\ d = Preconvolved(c, frames)
    BY <2>1 DEF RightInv, FilesRight, Right
  <2>3. frames \in Nat
    BY <2>1, <2>2
  <2>4. Preconvolved(c, frames) = Padded(Single(c, Len(c) - 1), frames)
    BY <2>1, <2>2, <2>3, PreconvolvedRight
  <2> QED BY <2>1, <2>2, <2>4
<1> QED BY <1>1, InitMade, StepMade, InitFits, StepFits, InitRight, StepRight, PTL DEF Spec

=================================================================================

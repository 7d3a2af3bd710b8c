------------------------------- MODULE DelayLine -------------------------------
(***************************************************************************)
(* The delay line, class delay: delay_allocate_buffer, change_delay and    *)
(* update, which takes a fragment of one channel out of an interleaved     *)
(* buffer and puts the delayed samples in its place.                       *)
(*                                                                         *)
(* A buffer is a function from the frames to the samples of a frame, of    *)
(* which number 0 belongs to the channel.  The channel's samples are their *)
(* own numbers, from 1; 0 is silence; the samples of the other channels    *)
(* are negative and tell the place where they stand.                       *)
(***************************************************************************)
EXTENDS Integers

CONSTANTS FragSize,     \* db->fragsize
          InitDelays,   \* initdelay
          MaxDelays,    \* maxdelay
          Requests,     \* the delays update() is called with
          SampleSizes,  \* bytes of a sample
          Spacings,     \* sample_spacing: channels of the interleaved buffer
          MaxFragments, \* bound: fragments
          MaxChanges    \* bound: changes of the delay

ASSUME DelayAssumption ==
  /\ FragSize \in Nat \ {0}
  /\ InitDelays \subseteq Nat /\ MaxDelays \subseteq Int /\ Requests \subseteq Nat
  /\ SampleSizes \subseteq {1, 2, 3, 4, 8}
  /\ Spacings \subseteq Nat \ {0}
  /\ MaxFragments \in Nat /\ MaxChanges \in Nat

VARIABLES sampleSize, \* the parameters of one line's calls
          spacing,    \* 1 as well when update() has an optional_target_buf
          initdelay,  \* the initdelay it was allocated with
          db,         \* delaybuffer_t
          out,        \* the buffer after the last update()
          status,     \* "ok", "hung" in a loop, "overrun": past an allocation
          taken,      \* history: samples of the channel taken in
          since,      \* history: taken when curdelay was set
          grown,      \* history: it was set to more than it had been
          changes     \* history: changes of the delay

vars == <<sampleSize, spacing, initdelay, db, out, status, taken, since, grown, changes>>

Cells == 0 .. FragSize - 1
Slots == 0 .. spacing - 1
-----------------------------------------------------------------------------
(* delay_allocate_buffer                                                   *)

Zeros(n) == [k \in 0 .. n - 1 |-> 0]

NoLine(init, max) ==
  [maxdelay |-> max, curdelay |-> init, curbuf |-> 0, nFbufs |-> 0, nRest |-> 0,
   fbufs |-> Zeros(0), rbuf |-> Zeros(0), shortbuf |-> [b \in {0, 1} |-> Zeros(0)]]

\* `room' is the delay that memory is needed for.
ShortLine(room, init, max) ==
  [NoLine(init, max) EXCEPT !.nRest = init, !.shortbuf = [b \in {0, 1} |-> Zeros(room)]]

\* Mutant: a buffer too few.
FullLineTight(room, init, max) ==
  [NoLine(init, max) EXCEPT
     !.nRest = init % FragSize,
     !.nFbufs = IF init < FragSize THEN 0 ELSE init \div FragSize + 1,
     !.fbufs = [n \in 0 .. room \div FragSize - 1 |-> Zeros(FragSize)],
     !.rbuf = IF max > 0 THEN Zeros(FragSize) ELSE Zeros(init % FragSize),
     !.shortbuf = [b \in {0, 1} |-> IF max > 0 THEN Zeros(FragSize) ELSE Zeros(0)]]

FullLine(room, init, max) ==
  [NoLine(init, max) EXCEPT
     !.nRest = init % FragSize,
     !.nFbufs = IF init < FragSize THEN 0 ELSE init \div FragSize + 1,
     !.fbufs = [n \in 0 .. room \div FragSize |-> Zeros(FragSize)],
     !.rbuf = IF max > 0 THEN Zeros(FragSize) ELSE Zeros(init % FragSize),
     !.shortbuf = [b \in {0, 1} |-> IF max > 0 THEN Zeros(FragSize) ELSE Zeros(0)]]

\* An initial delay above a positive maximum stays as it is: it is the room
\* that is compared with the maximum, and the room is the maximum then.
Allocate(init, max) ==
  LET room == IF max > 0 THEN max ELSE IF max = 0 THEN 0 ELSE init
      delay == IF max = 0 THEN 0 ELSE init
  IN  IF room = 0 THEN NoLine(delay, max)
      ELSE IF room <= FragSize THEN ShortLine(room, delay, max)
      ELSE FullLine(room, delay, max)

-----------------------------------------------------------------------------
(* change_delay                                                            *)

Accepts(line, d) == d # line.curdelay /\ d <= line.maxdelay

ZeroFirst(buf, n) == [k \in DOMAIN buf |-> IF k < n THEN 0 ELSE buf[k]]

\* Mutant: cleared only when the delay came down from several fragments.
ToShortUncleared(line, d) ==
  [line EXCEPT !.nRest = d, !.nFbufs = 0, !.curbuf = 0, !.curdelay = d,
     !.shortbuf = IF line.curdelay > FragSize
                  THEN [b \in {0, 1} |-> ZeroFirst(line.shortbuf[b], d)]
                  ELSE line.shortbuf]

\* The short buffers are cleared unless the delay shrinks within a fragment.
ToShort(line, d) ==
  [line EXCEPT !.nRest = d, !.nFbufs = 0, !.curbuf = 0, !.curdelay = d,
     !.shortbuf = IF line.curdelay > FragSize \/ line.curdelay < d
                  THEN [b \in {0, 1} |-> ZeroFirst(line.shortbuf[b], d)]
                  ELSE line.shortbuf]

\* The buffers are cleared only if the delay grows; curbuf starts over.
ToFull(line, d) ==
  [line EXCEPT !.nRest = d % FragSize, !.nFbufs = d \div FragSize + 1, !.curbuf = 0,
     !.curdelay = d,
     !.fbufs = IF line.curdelay < d
               THEN [n \in DOMAIN line.fbufs |->
                       IF n <= d \div FragSize THEN Zeros(FragSize) ELSE line.fbufs[n]]
               ELSE line.fbufs,
     !.rbuf = IF line.curdelay < d THEN ZeroFirst(line.rbuf, d % FragSize) ELSE line.rbuf]

ChangeDelay(line, d) ==
  IF ~Accepts(line, d) THEN line
  ELSE IF d <= FragSize THEN ToShort(line, d) ELSE ToFull(line, d)

-----------------------------------------------------------------------------
(* update                                                                  *)

\* The channel's samples and, where there are any, those between them.
Fragment ==
  [k \in Cells |-> [c \in Slots |-> IF c = 0 THEN taken + k + 1 ELSE -(k * spacing + c)]]

\* copy_to_delaybuf(dbuf, buf + first frames, n_samples = n)
CopyTo(dbuf, buf, first, n) ==
  [k \in DOMAIN dbuf |-> IF k < n THEN buf[first + k][0] ELSE dbuf[k]]

\* copy_from_delaybuf(buf + first frames, dbuf, n_samples = n)
CopyFrom(buf, first, dbuf, n) ==
  [k \in DOMAIN buf |->
     IF first <= k /\ k < first + n THEN [buf[k] EXCEPT ![0] = dbuf[k - first]] ELSE buf[k]]

\* Mutant: every sample of the frames.
MovedInterleaved(k, c, n) == k < n

\* The samples shift_samples moves, by frame and slot.  With 3 bytes the
\* indices are counted up by one sample in the body of the loop, so that a
\* turn goes back by spacing - 1 samples and not by spacing.
Moved(k, c, n) ==
  IF sampleSize = 3
  THEN LET first == (n - 1) * spacing
           m == k * spacing + c
       IN  m <= first /\ (first - m) % (spacing - 1) = 0
  ELSE k < n /\ c = 0

ShiftSamples(buf, n, distance) ==
  [k \in DOMAIN buf |->
     [c \in DOMAIN buf[k] |->
        IF k >= distance /\ Moved(k - distance, c, n) THEN buf[k - distance][c] ELSE buf[k][c]]]

\* Then a turn does not go back at all.
ShiftHangs(n) == sampleSize = 3 /\ spacing = 1 /\ n > 0

LastBuf(line) == IF line.curbuf = line.nFbufs - 1 THEN line.fbufs[0] ELSE line.fbufs[line.curbuf + 1]

\* update_delay_buffer: the line after the fragment in buf.
PushFull(line, buf) ==
  [line EXCEPT
     !.fbufs = [line.fbufs EXCEPT ![line.curbuf] = CopyTo(@, buf, 0, FragSize)],
     !.rbuf = [k \in DOMAIN line.rbuf |->
                 IF k < line.nRest THEN LastBuf(line)[FragSize - line.nRest + k] ELSE line.rbuf[k]],
     !.curbuf = IF line.curbuf + 1 = line.nFbufs THEN 0 ELSE line.curbuf + 1]

PullFull(line, buf) ==
  CopyFrom(CopyFrom(buf, 0, line.rbuf, line.nRest),
           line.nRest, LastBuf(line), FragSize - line.nRest)

\* update_delay_short_buffer
PushShort(line, buf) ==
  [line EXCEPT
     !.shortbuf = [line.shortbuf EXCEPT
                     ![line.curbuf] = CopyTo(@, buf, FragSize - line.nRest, line.nRest)],
     !.curbuf = 1 - line.curbuf]

PullShort(line, buf) ==
  CopyFrom(ShiftSamples(buf, FragSize - line.nRest, line.nRest),
           0, line.shortbuf[1 - line.curbuf], line.nRest)

\* The indices an update will use have been allocated.
Fits(line) ==
  IF line.nFbufs > 0
  THEN 0 .. line.nFbufs - 1 \subseteq DOMAIN line.fbufs /\ 0 .. line.nRest - 1 \subseteq DOMAIN line.rbuf
  ELSE \A b \in {0, 1} : 0 .. line.nRest - 1 \subseteq DOMAIN line.shortbuf[b]

-----------------------------------------------------------------------------

\* delaybuffer_t; a buffer's domain is what was allocated for it.
TypeOK ==
  /\ sampleSize \in SampleSizes /\ spacing \in Spacings /\ initdelay \in InitDelays
  /\ db.maxdelay \in MaxDelays /\ db.curdelay \in Nat
  /\ db.nRest \in Nat /\ db.nFbufs \in Nat /\ db.nFbufs # 1
  /\ db.curbuf \in IF db.nFbufs > 0 THEN 0 .. db.nFbufs - 1 ELSE {0, 1}
  /\ \A n \in DOMAIN db.fbufs : db.fbufs[n] \in [Cells -> 0 .. taken]
  /\ db.rbuf \in [DOMAIN db.rbuf -> 0 .. taken]
  /\ DOMAIN db.shortbuf = {0, 1} /\ DOMAIN db.shortbuf[0] = DOMAIN db.shortbuf[1]
  /\ \A b \in {0, 1} : db.shortbuf[b] \in [DOMAIN db.shortbuf[b] -> 0 .. taken]
  /\ out \in [Cells -> [Slots -> Int]]
  /\ status \in {"ok", "hung", "overrun"}
  /\ taken \in Nat /\ since \in 0 .. taken /\ grown \in BOOLEAN /\ changes \in 0 .. MaxChanges

Init ==
  /\ sampleSize \in SampleSizes /\ spacing \in Spacings
  /\ initdelay \in InitDelays
  /\ \E max \in MaxDelays : db = Allocate(initdelay, max)
  /\ out = [k \in Cells |-> [c \in Slots |-> 0]]
  /\ status = "ok" /\ taken = 0 /\ since = 0 /\ grown = TRUE /\ changes = 0

\* The call of change_delay, and the bookkeeping of a fragment.
Takes(d) ==
  /\ status = "ok" /\ taken < MaxFragments * FragSize
  /\ changes' = IF Accepts(db, d) THEN changes + 1 ELSE changes
  /\ changes' <= MaxChanges
  /\ since' = IF Accepts(db, d) THEN taken ELSE since
  /\ grown' = IF Accepts(db, d) THEN d > db.curdelay ELSE grown
  /\ taken' = taken + FragSize
  /\ UNCHANGED <<sampleSize, spacing, initdelay>>

UpdateFull(d) ==
  LET line == ChangeDelay(db, d) IN
  /\ Fits(line) /\ line.nFbufs > 0
  /\ Takes(d)
  /\ db' = PushFull(line, Fragment)
  /\ out' = PullFull(line, Fragment)
  /\ UNCHANGED status

UpdateShort(d) ==
  LET line == ChangeDelay(db, d) IN
  /\ Fits(line) /\ line.nFbufs = 0 /\ line.nRest > 0
  /\ ~ShiftHangs(FragSize - line.nRest)
  /\ Takes(d)
  /\ db' = PushShort(line, Fragment)
  /\ out' = PullShort(line, Fragment)
  /\ UNCHANGED status

\* A line without delay leaves the buffer alone.
UpdateNone(d) ==
  LET line == ChangeDelay(db, d) IN
  /\ Fits(line) /\ line.nFbufs = 0 /\ line.nRest = 0
  /\ Takes(d)
  /\ db' = line
  /\ out' = Fragment
  /\ UNCHANGED status

UpdateHangs(d) ==
  LET line == ChangeDelay(db, d) IN
  /\ Fits(line) /\ line.nFbufs = 0 /\ line.nRest > 0
  /\ ShiftHangs(FragSize - line.nRest)
  /\ status = "ok" /\ status' = "hung"
  /\ UNCHANGED <<sampleSize, spacing, initdelay, db, out, taken, since, grown, changes>>

UpdateOverruns(d) ==
  /\ ~Fits(ChangeDelay(db, d))
  /\ status = "ok" /\ status' = "overrun"
  /\ UNCHANGED <<sampleSize, spacing, initdelay, db, out, taken, since, grown, changes>>

Next ==
  \E d \in Requests :
    UpdateFull(d) \/ UpdateShort(d) \/ UpdateNone(d) \/ UpdateHangs(d) \/ UpdateOverruns(d)

Spec == Init /\ [][Next]_vars

-----------------------------------------------------------------------------
(* Properties.                                                             *)

\* What comes out is what went in, as many samples ago as the delay says;
\* after a longer delay was set first silence, after a shorter one possibly
\* what was left in the buffers, until the last sample from before the
\* change is due (delay.cpp:27-54, 495-600).  With 3 bytes and more than two
\* channels the short line takes the wrong samples.
Service ==
  INSTANCE DelayService WITH
    exact <- sampleSize # 3 \/ spacing <= 2,
    maxdelay <- db.maxdelay, curdelay <- db.curdelay,
    out <- [k \in Cells |-> out[k][0]]

ImplementsService == Service!Spec

\* The samples of the other channels in the interleaved buffer stay where
\* they are (delay.cpp:308-493); except that the 3-byte shift takes them
\* along.
OthersUntouched ==
  taken > 0 /\ (sampleSize # 3 \/ db.nFbufs > 0) =>
    \A k \in Cells : \A c \in Slots \ {0} : out[k][c] = -(k * spacing + c)

\* However the delay is changed, no update reads or writes past what
\* delay_allocate_buffer has allocated, unless the line was allocated with
\* an initial delay above a positive maximum (delay.cpp:72-137, 552-600).
StaysInBounds ==
  /\ TypeOK
  /\ status = "overrun" => db.maxdelay > 0 /\ initdelay > db.maxdelay

================================================================================

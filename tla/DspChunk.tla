-------------------------------- MODULE DspChunk --------------------------------
(***************************************************************************)
(* The DSP object of foobar2000, class dsp_bfir: the constructor, the      *)
(* destructor, flush() and on_chunk(), which sets the filter up when the   *)
(* format of the audio changes, collects frames into blocks of FilterLen   *)
(* and replaces each block by its filtered form.                           *)
(*                                                                         *)
(* The audio is a sequence of samples, a frame as many of them as there    *)
(* are channels.  A sample is known by its place in what the player        *)
(* delivers and by its format.  What the settings and the impulse files    *)
(* amount to when the filter is set up is chosen freely, for both change   *)
(* behind the object's back: see Setups.  The filter is the module         *)
(* Convolver; here a run succeeds or fails.                                *)
(***************************************************************************)
EXTENDS Naturals, Sequences, SequencesExt

CONSTANTS Formats,    \* the formats the player may deliver: channels and rate
          FilterLen,  \* FILTER_LEN, in frames
          ChunkSizes, \* the frames of a chunk
          MaxSamples  \* bound: samples delivered in all

ASSUME DspAssumption ==
  /\ \A f \in Formats : f.channels \in Nat \ {0}
  /\ FilterLen \in Nat \ {0} /\ ChunkSizes \subseteq Nat \ {0} /\ MaxSamples \in Nat

VARIABLES format,    \* m_channels and m_srate
          filter,    \* m_filter, and whether it is_initialized()
          equalizer, \* m_equalizer: "garbage" until it is first assigned
          buffer,    \* the samples of the first m_buffer_count frames of m_inbuf
          behind,    \* the samples of m_inbuf after them
          src,       \* the samples of the chunk that on_chunk has not taken yet
          pc,        \* "idle", "busy" in on_chunk, "gone", "crashed"
          passed,    \* what the last on_chunk returned
          setup,     \* history: the outcome of the last set-up
          out,       \* history: the samples the next DSP has got
          received,  \* history: how many samples were delivered
          clean,     \* history: nothing has happened yet that drops samples
          widened,   \* history: an unfinished block met a change to more channels
          blocks,    \* history: blocks run since the last set-up
          bare       \* history: a filter was deleted and none put in its place

memory == <<filter, equalizer>>
stream == <<buffer, behind, src, out, received, clean, widened, blocks>>
chunkVars == <<format, memory, stream, pc, passed, setup, bare>>

\* No impulse file is enabled, or none fits or can be preconvolved; the
\* file's parameters cannot be read; a filter is made but the coefficients
\* cannot be set; all is well.
Setups == {"nothing", "unreadable", "refused", "ok"}

\* m_channels and m_srate before the first chunk.
NoFormat == [channels |-> 0, rate |-> 0]

\* A sample; it is stale when it is in the buffer but was not put there since
\* the last block: see SetUp.  Memory that was never written has number 0.
Samples == [seq : 0 .. MaxSamples, format : Formats \cup {NoFormat}, stale : BOOLEAN]
Unwritten == [seq |-> 0, format |-> NoFormat, stale |-> TRUE]

Block == FilterLen * format.channels

ChunkTypeOK ==
  /\ format \in Formats \cup {NoFormat}
  /\ filter \in {"null", "ready", "uninitialized", "freed"}
  /\ equalizer \in {"garbage", "live"}
  /\ buffer \in Seq(Samples) /\ (buffer = <<>> \/ Len(buffer) < Block)
  /\ behind \in Seq(Samples) /\ src \in Seq(Samples) /\ out \in Seq(Samples)
  /\ pc \in {"idle", "busy", "gone", "crashed"} /\ passed \in BOOLEAN
  /\ setup \in Setups \cup {"none"}
  /\ received \in 0 .. MaxSamples /\ clean \in BOOLEAN /\ widened \in BOOLEAN
  /\ blocks \in Nat /\ bare \in BOOLEAN

\* dsp_bfir::dsp_bfir
ChunkInit ==
  /\ format = NoFormat /\ filter = "null" /\ equalizer = "garbage"
  /\ buffer = <<>> /\ behind = <<>> /\ src = <<>> /\ out = <<>> /\ received = 0
  /\ clean = TRUE /\ widened = FALSE /\ blocks = 0 /\ bare = FALSE
  /\ pc = "idle" /\ passed = FALSE /\ setup = "none"

-----------------------------------------------------------------------------
(* on_chunk: a chunk of k frames in format f.                              *)

Chunk(f, k) ==
  [i \in 1 .. k * f.channels |-> [seq |-> received + i, format |-> f, stale |-> FALSE]]

Deliver(f, k) ==
  /\ pc = "idle" /\ received + k * f.channels <= MaxSamples
  /\ src' = Chunk(f, k) /\ received' = received + k * f.channels
  /\ pc' = "busy"
  /\ UNCHANGED <<passed, out>>

OnChunkSameFormat(f, k) ==
  /\ f = format
  /\ Deliver(f, k)
  /\ UNCHANGED <<format, memory, buffer, behind, clean, widened, setup, blocks, bare>>

\* m_filter once the set-up has come out as s.  Without a new filter the
\* pointer keeps its value, though a re_init has deleted what it points to.
FilterAfter(s) ==
  IF s = "ok" THEN "ready"
  ELSE IF s = "refused" THEN "uninitialized"
  ELSE IF filter = "null" THEN "null" ELSE "freed"

\* m_buffer_count stays as it is and is from now on a number of frames of f:
\* m_inbuf, whose bytes _aligned_realloc keeps, is read anew.  With more
\* channels the count takes in samples behind the unfinished block, of a
\* block that was run or never written at all; with fewer it leaves the end of
\* the unfinished block behind.  Where m_inbuf is not reallocated there is no
\* filter, and either no count or no further set-up either.
Count == IF buffer = <<>> THEN 0 ELSE Len(buffer) \div format.channels

Kept(i) ==
  IF i <= Len(buffer) THEN buffer[i]
  ELSE IF i <= Len(buffer) + Len(behind) THEN [behind[i - Len(buffer)] EXCEPT !.stale = TRUE]
  ELSE Unwritten

ReadAnew(f) ==
  /\ buffer' = [i \in 1 .. Count * f.channels |-> Kept(i)]
  /\ behind' = [i \in 1 .. (FilterLen - Count) * f.channels |-> Kept(Count * f.channels + i)]
  /\ clean' = (clean /\ (buffer = <<>> \/ f.channels >= format.channels))
  /\ widened' = (widened \/ (buffer # <<>> /\ f.channels > format.channels))

\* Mutant: an equalizer is made only if there is an impulse to load.
SetUpLazyEqualizer(f, s) ==
  /\ format' = f /\ setup' = s
  /\ equalizer' = IF s = "nothing" THEN equalizer ELSE "live"
  /\ filter' = FilterAfter(s)
  /\ bare' = (bare \/ filter' = "freed")
  /\ blocks' = 0
  /\ ReadAnew(f)

SetUp(f, s) ==
  /\ format' = f /\ setup' = s
  /\ equalizer' = "live"
  /\ filter' = FilterAfter(s)
  /\ bare' = (bare \/ filter' = "freed")
  /\ blocks' = 0
  /\ ReadAnew(f)

OnChunkNewFormat(f, k, s) ==
  /\ f # format
  /\ filter # "freed"
  /\ Deliver(f, k)
  /\ SetUp(f, s)

Crash ==
  /\ pc' = "crashed"
  /\ UNCHANGED <<format, memory, stream, passed, setup, bare>>

\* re_init deletes m_filter, which is deleted already.
OnChunkDeletesTwice(f) ==
  /\ pc = "idle" /\ received < MaxSamples
  /\ f # format /\ filter = "freed"
  /\ Crash

Return(p) ==
  /\ pc' = "idle" /\ passed' = p
  /\ UNCHANGED <<format, memory, received, widened, setup, blocks, bare>>

PassThrough ==
  /\ pc = "busy" /\ filter = "null"
  /\ out' = out \o src /\ src' = <<>>
  /\ UNCHANGED <<buffer, behind, clean>>
  /\ Return(TRUE)

Swallow ==
  /\ src' = <<>> /\ clean' = FALSE
  /\ UNCHANGED <<buffer, behind, out>>
  /\ Return(FALSE)

\* A filter without coefficients: neither run nor passed through.
SwallowUninitialized == pc = "busy" /\ filter = "uninitialized" /\ Swallow

\* is_initialized() reads freed memory.  The process may crash, there, at the
\* copy into m_inbuf or in the run(); the flag may be found false; or, until
\* then, the filter may seem to be there still: see Usable.
UseFreed == pc = "busy" /\ filter = "freed" /\ (Crash \/ Swallow)

\* One round of the loop: as many frames as the block still has room for,
\* written over what is behind the unfinished block.  The variants are mutants:
\* the last frame of a block left out, src moved too little or too far.
RoomOffByOne == (Block - format.channels) - Len(buffer)
Room == Block - Len(buffer)
Todo == IF Room > Len(src) THEN Len(src) ELSE Room

Filled == buffer \o SubSeq(src, 1, Todo)
RestRepeats == SubSeq(src, Todo, Len(src))
RestSkips == SubSeq(src, Todo + 2, Len(src))
Rest == SubSeq(src, Todo + 1, Len(src))

Usable == filter \in {"ready", "freed"}
Looping == pc = "busy" /\ Usable /\ src # <<>>

Collect ==
  /\ Looping /\ Len(Filled) # Block
  /\ buffer' = Filled /\ behind' = SubSeq(behind, Todo + 1, Len(behind)) /\ src' = Rest
  /\ UNCHANGED <<format, memory, out, received, clean, widened, blocks, pc, passed, setup, bare>>

\* Mutant: the count is only reset when the run has succeeded.
RunBlockKeepsFailed ==
  /\ Looping /\ Len(Filled) = Block
  /\ src' = Rest /\ behind' = Filled
  /\ blocks' = blocks + 1
  /\ \/ out' = out \o Filled /\ clean' = clean /\ buffer' = <<>>
     \/ out' = out /\ clean' = FALSE /\ buffer' = Filled
  /\ UNCHANGED <<format, memory, received, widened, pc, passed, setup, bare>>

RunBlock ==
  /\ Looping /\ Len(Filled) = Block
  /\ src' = Rest /\ buffer' = <<>> /\ behind' = Filled
  /\ blocks' = blocks + 1
  /\ \/ out' = out \o Filled /\ clean' = clean
     \/ out' = out /\ clean' = FALSE
  /\ UNCHANGED <<format, memory, received, widened, pc, passed, setup, bare>>

ReturnReplaced ==
  /\ pc = "busy" /\ Usable /\ src = <<>>
  /\ UNCHANGED <<buffer, behind, src, out, clean>>
  /\ Return(FALSE)

-----------------------------------------------------------------------------

\* flush(), on a seek: the filter keeps its memory of the audio before.
Flush ==
  /\ pc = "idle"
  /\ buffer' = <<>> /\ behind' = buffer \o behind /\ clean' = (clean /\ buffer = <<>>)
  /\ UNCHANGED <<format, memory, src, out, received, widened, blocks, pc, passed, setup, bare>>

\* ~dsp_bfir(): deleting an equalizer that was never made is undefined.
Destroy ==
  /\ pc = "idle"
  /\ \/ pc' = "gone" /\ filter # "freed"
     \/ pc' = "crashed" /\ (equalizer = "garbage" \/ filter = "freed")
  /\ UNCHANGED <<format, memory, stream, passed, setup, bare>>

OnChunkStep ==
  PassThrough \/ SwallowUninitialized \/ UseFreed \/ Collect \/ RunBlock \/ ReturnReplaced

ChunkNext ==
  \/ \E f \in Formats : \E k \in ChunkSizes :
       \/ OnChunkSameFormat(f, k)
       \/ \E s \in Setups : OnChunkNewFormat(f, k, s)
  \/ \E f \in Formats : OnChunkDeletesTwice(f)
  \/ OnChunkStep
  \/ Flush
  \/ Destroy

ChunkSpec == ChunkInit /\ [][ChunkNext]_chunkVars

\* The player's thread goes on with on_chunk once it is in it.
ChunkFairSpec == ChunkSpec /\ WF_chunkVars(OnChunkStep)

-----------------------------------------------------------------------------
(* Properties.                                                             *)

InHand == (out \o buffer) \o src

\* However chunks and blocks fall together, no sample is put out twice or
\* before an earlier one, except that samples of a block already run are read
\* again where an unfinished block meets a change to more channels
\* (foo_dsp_bfir.cpp:291-293, 307-350).
InOrder ==
  /\ ChunkTypeOK
  /\ \A i, j \in 1 .. Len(InHand) :
       i < j /\ ~InHand[i].stale /\ ~InHand[j].stale => InHand[i].seq < InHand[j].seq
  /\ \A i \in 1 .. Len(InHand) : InHand[i].stale => widened

\* Unless a run fails, a filter has no coefficients, the player seeks or an
\* unfinished block meets a change to fewer channels, no sample is lost
\* (foo_dsp_bfir.cpp:291-293, 307-350).
NothingLost ==
  clean => \A n \in 1 .. received :
             \E i \in 1 .. Len(InHand) : ~InHand[i].stale /\ InHand[i].seq = n

\* A change of format leaves samples of the old one, and stale ones, in the
\* buffer; they go into the first block of the new filter and no further
\* (foo_dsp_bfir.cpp:106-150, 315-350).
OldFramesInFirstBlockOnly ==
  blocks > 0 => \A i \in DOMAIN buffer : buffer[i].format = format /\ ~buffer[i].stale

\* The pointers are sound for an object that gets a chunk before it is
\* destroyed, as long as no change of format finds the impulses gone
\* (foo_dsp_bfir.cpp:76-98, 143-290).
SoundWhileConfigured == pc = "crashed" => bare \/ format = NoFormat

\* on_chunk returns: its loop never waits with a full block.
ChunkReturns == pc = "busy" ~> pc # "busy"

=============================================================================

----------------------------- MODULE MCImpulseChain -----------------------------
(* Values for the constants of ImpulseChain that a configuration cannot    *)
(* write.                                                                  *)
EXTENDS ImpulseChain, TLC

MCSlots == <<"eq", "file1", "file2">>

MCNames == {<<"dir", <<"a">>>>, <<"dir", <<"b">>>>}

\* One that fits both channels and the first rate, one of the double rate,
\* and one that is short.
Long == [channels |-> 2, rate |-> 1, data |-> <<1, 2, -1>>]
Fast == [channels |-> 2, rate |-> 2, data |-> <<3, 1, 0, 2>>]
Short == [channels |-> 1, rate |-> 1, data |-> <<2>>]

MCContents == {Long, Fast, Short}
MCFiles == [n \in MCNames |-> IF n = <<"dir", <<"a">>>> THEN Long ELSE Fast]

Slot(enabled, name, resample, scale) ==
  [enabled |-> enabled, name |-> <<"dir", <<name>>>>, resample |-> resample, scale |-> scale]

\* The equalizer with one file, two files, all three; the second file is not
\* always resampled, so that no impulse may be left.
MCSettings ==
  {[mag |-> 1, eq |-> Slot(TRUE, "", FALSE, 2), file1 |-> Slot(FALSE, "a", FALSE, 1),
    file2 |-> Slot(TRUE, "b", TRUE, 3)],
   [mag |-> 2, eq |-> Slot(FALSE, "", FALSE, 1), file1 |-> Slot(TRUE, "a", TRUE, 3),
    file2 |-> Slot(TRUE, "b", FALSE, 1)],
   [mag |-> 1, eq |-> Slot(TRUE, "", FALSE, 1), file1 |-> Slot(TRUE, "a", TRUE, 1),
    file2 |-> Slot(TRUE, "b", FALSE, 1)]}

MCStreams == {[channels |-> 2, rate |-> 1], [channels |-> 2, rate |-> 2]}

MCSymmetry == Permutations(Instances)

\* The equalizer's impulse is as long as a block.
MCEqualized(mag) == <<mag, 1>>

================================================================================

---------------------------- MODULE MCSampleFormats ----------------------------
(* Values for the constants of SampleFormats that a configuration cannot   *)
(* write.                                                                  *)
EXTENDS SampleFormats

MCNumbers == -2 .. 1

\* Neighbours as different as they may be, once too different.
MCRandom(n) == <<1, -1, 1, -1, 1, -2, 1>>[(n % 7) + 1]

\* Every format on either side, a wider and a narrower one, both kinds.
MCPairs ==
  {<<"S8", "S8">>, <<"S8", "S16_LE">>, <<"S16_LE", "S24_BE">>, <<"S16_BE", "S16_BE">>,
   <<"S16_BE", "FLOAT_LE">>, <<"S24_LE", "S8">>, <<"S24_BE", "S24_LE">>, <<"S24_LE", "S32_BE">>,
   <<"S32_LE", "S32_LE">>, <<"S32_BE", "S16_BE">>, <<"FLOAT_LE", "FLOAT_LE">>,
   <<"FLOAT_LE", "S24_LE">>, <<"FLOAT_BE", "S32_LE">>, <<"FLOAT64_LE", "S16_LE">>,
   <<"FLOAT64_BE", "FLOAT64_LE">>, <<"FLOAT_BE", "FLOAT64_BE">>, <<"FLOAT64_LE", "FLOAT_BE">>}

\* The limits, values around zero and, among floats, some out of range.
MCSamples(name) ==
  LET top == Power[Format(name).bytes] \div 2 IN
  IF Format(name).isfloat
  THEN {<<-One, One \div 2, One>>, <<(3 * One) \div 2, -(One \div 3), 0>>,
        <<One \div 8, -(2 * One), -(One \div 16)>>}
  ELSE {<<-top, -1, top - 1>>, <<0, 1, 1 - top>>, <<top \div 2, -(top \div 2), -1>>}

================================================================================

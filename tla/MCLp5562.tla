------------------------------ MODULE MCLp5562 ------------------------------
(* Times at the edges of the encoding: below and at one step (15, 16 ms), at *)
(* one longest wait (982, 983) and two (1966), at and past the longest time  *)
(* accepted (61916, 61917), and at and past the one that wraps.              *)
EXTENDS Lp5562

\* 2^20 stands for 2^32: the smallest power of 2 no accepted time reaches, so
\* that TLC's integers hold ten times any time.
SmallWord == 1048576
LastRejected  == 104857
FirstWrapped  == 104858     \* comes out as 0.4 ms
WrappedSecond == 105858     \* comes out as 1000.4 ms

Blink(on, off) == [type |-> "BLINK", on |-> on, off |-> off]
SeqBlink(on, off1, count, off2) ==
  [type |-> "SEQ_BLINK", on |-> on, off1 |-> off1, count |-> count, off2 |-> off2]

Steady == [type : {"ON", "OFF"}]

Blinks == {Blink(on, off) : on \in {0, 16, 983}, off \in {15, 982, 1000}}
          \cup {Blink(61916, 1966), Blink(61917, 100), Blink(100, LastRejected)}

Rounds == {SeqBlink(200, 1000, n, off2) : n \in {0, 1, 2, 65}, off2 \in {0, 2000}}
              \cup {SeqBlink(61916, 61916, 64, 61916), SeqBlink(0, 0, 3, 0),
                    SeqBlink(61917, 16, 2, 16), SeqBlink(16, 61917, 2, 16),
                    SeqBlink(16, 16, 2, 61917)}

Wrapping == {Blink(FirstWrapped, 100), Blink(100, WrappedSecond),
             SeqBlink(16, 16, 2, WrappedSecond)}

Actions == Steady \cup Blinks \cup Rounds \cup Wrapping
=============================================================================

------------------------------ MODULE EtcdGateway ------------------------------
(***************************************************************************)
(* How EtcdClient talks to etcd's JSON gateway (etcdclient.cc): keys and   *)
(* values in base64, prefixes as ranges of keys, and a watch stream that   *)
(* is cut into lines.  Pure functions on sequences of bytes, checked       *)
(* against what they are for over small inputs.                            *)
(***************************************************************************)
LOCAL INSTANCE Integers
LOCAL INSTANCE Sequences
LOCAL INSTANCE SequencesExt

\* The characters of the encoding, by their codes.
Pad == 61
kB64Tab(d) == CASE d < 26 -> 65 + d
                [] d \in 26 .. 51 -> 97 + d - 26
                [] d \in 52 .. 61 -> 48 + d - 52
                [] d = 62 -> 43
                [] OTHER -> 47

b64Val(c) == CASE c \in 65 .. 90  -> c - 65
               [] c \in 97 .. 122 -> c - 97 + 26
               [] c \in 48 .. 57  -> c - 48 + 52
               [] c = 43 -> 62
               [] c = 47 -> 63
               [] OTHER -> -1

\* The k-th of the four six bit digits of n.
Digit(n, k) == (n \div 64 ^ (4 - k)) % 64

\* The byte at i, or 0 behind the end, and the 24 bits that start there.
ByteAt(in, i) == IF i <= Len(in) THEN in[i] ELSE 0
Group(in, i)  == ByteAt(in, i) * 65536 + ByteAt(in, i + 1) * 256 + ByteAt(in, i + 2)

\* Three bytes at a time; a group cut short is padded.
b64Encode(in) ==
    LET enc[i \in 1 .. Len(in) + 3] ==
            IF i > Len(in) THEN <<>>
            ELSE [k \in 1 .. 4 |-> IF i + k - 2 <= Len(in)
                                   THEN kB64Tab(Digit(Group(in, i), k)) ELSE Pad]
                 \o enc[i + 3]
    IN  enc[1]

\* val is an int that only ever grows; of its bits no more than the low
\* ValBits are looked at.
ValBits == 16

b64Decode(in) ==
    LET step(a, c) ==
            LET d    == b64Val(c)
                val  == (a.val * 64 + d) % 2 ^ ValBits
                bits == a.bits + 6
            IN  IF d < 0 THEN a
                ELSE IF bits < 0 THEN [a EXCEPT !.val = val, !.bits = bits]
                ELSE [val |-> val, bits |-> bits - 8,
                      out |-> Append(a.out, (val \div 2 ^ bits) % 256)]
    IN  FoldLeft(step, [val |-> 0, bits |-> -8, out |-> <<>>], in).out

\* The end of the range of keys with prefix p: its last byte below 255 plus
\* one, and the rest cut off; a single 0 when there is none.
prefixEnd(p) ==
    LET low == {i \in DOMAIN p : p[i] < 255}
        i   == CHOOSE j \in low : \A k \in low : k <= j
    IN  IF low = {} THEN <<0>> ELSE Append(SubSeq(p, 1, i - 1), p[i] + 1)

\* watchWrite: chunk is appended to the buffer and every line that is complete
\* is handed on, an empty one is not.
Newline == 10
watchWrite(ctx, chunk) ==
    LET step(a, c) ==
            IF c # Newline THEN [a EXCEPT !.buf = Append(@, c)]
            ELSE [buf |-> <<>>,
                  lines |-> IF a.buf = <<>> THEN a.lines ELSE Append(a.lines, a.buf)]
    IN  FoldLeft(step, ctx, chunk)
NewCtx == [buf |-> <<>>, lines |-> <<>>]

-----------------------------------------------------------------------------
\* The order of byte strings, and etcd's reading of a range.
Less(a, b) ==
    \E n \in 0 .. Len(a) :
       /\ n < Len(b) /\ SubSeq(a, 1, n) = SubSeq(b, 1, n)
       /\ n = Len(a) \/ a[n + 1] < b[n + 1]
InRange(k, from, end) == ~Less(k, from) /\ (end = <<0>> \/ Less(k, end))

Strings(B, n) == UNION {[1 .. k -> B] : k \in 0 .. n}

\* What is encoded is decoded again, whatever is left for the last group and
\* although val overflows; the encoding has whole groups and line breaks in
\* it do not matter.
ASSUME Base64RoundTrip ==
    \A s \in Strings({0, 62, 63, 255}, 5) :
       /\ Len(b64Encode(s)) % 4 = 0
       /\ b64Decode(b64Encode(s)) = s
       /\ b64Decode(<<Newline>> \o b64Encode(s) \o <<Newline>>) = s

\* The table and its inverse agree, and no digit is the padding.
ASSUME Base64Table ==
    \A d \in 0 .. 63 : b64Val(kB64Tab(d)) = d /\ kB64Tab(d) # Pad

\* RangePrefix and the watch see exactly the keys with the prefix: those of a
\* method whose name only begins like this one's are out of the range.
ASSUME PrefixRange ==
    \A p \in Strings({0, 1, 254, 255}, 2) \ {<<>>}, k \in Strings({0, 1, 254, 255}, 3) :
       InRange(k, p, prefixEnd(p)) <=> IsPrefix(p, k)

\* The lines do not depend on where curl cuts the stream.
ASSUME LinesWhole ==
    \A s \in Strings({1, Newline}, 6) : \A i \in 0 .. Len(s) :
       watchWrite(watchWrite(NewCtx, SubSeq(s, 1, i)), SubSeq(s, i + 1, Len(s)))
          = watchWrite(NewCtx, s)
===============================================================================

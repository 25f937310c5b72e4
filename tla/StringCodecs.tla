----------------------------- MODULE StringCodecs -----------------------------
(***************************************************************************)
(* The codecs of core/dfs_string.cpp that come in pairs, base64 and the    *)
(* escapes of URIs, and the decoder of UTF-8: a string of bytes is encoded *)
(* in one step and decoded in the next.                                    *)
(***************************************************************************)
EXTENDS Integers, SequencesExt

CONSTANTS
  Strings,       \* the strings that are encoded: sequences of 0 .. 255
  Points         \* the characters that are written in UTF-8

VARIABLES
  codec,         \* the codec that is tried
  src,           \* what is encoded
  dst,           \* what came out of the last step
  step           \* source, encoded, decoded or error

sc_vars == <<codec, src, dst, step>>

\* Every byte of a word of 8 bits.
u8(k) == k % 256

-----------------------------------------------------------------------------
\* Base64.  A character is its index in the table, which string_base64_decode turns back;
\* 64 stands for the sign =.
pad == 64

\* The characters of the up to three bytes from position i on.
base64_group(s, i) ==
  LET left == Len(s) - i + 1
      b(k) == IF k < left THEN s[i + k] ELSE 0
      c1 == b(0) \div 4
      c2 == (b(0) % 4) * 16 + b(1) \div 16
      c3 == (b(1) % 16) * 4 + b(2) \div 64
  IN <<c1, c2, IF left = 1 THEN pad ELSE c3, IF left < 3 THEN pad ELSE b(2) % 64>>

string_base64_encode(s) ==
  FlattenSeq([g \in 1 .. (Len(s) + 2) \div 3 |-> base64_group(s, 3 * g - 2)])

\* Mutant of base64_bytes: the last group is decoded as a whole one.
base64_bytes_whole(s, i, left) ==
  LET c(k) == IF k < left THEN s[i + k] ELSE 0
  IN <<u8(c(0) * 4 + c(1) \div 16), u8(c(1) * 16 + c(2) \div 4), u8(c(2) * 64 + c(3))>>

\* The bytes of the up to four characters from position i on, of which left are left.
base64_bytes(s, i, left) ==
  LET c(k) == s[i + k]
  IN (IF left > 1 THEN <<u8(c(0) * 4 + c(1) \div 16)>> ELSE << >>)
     \o (IF left > 2 THEN <<u8(c(1) * 16 + c(2) \div 4)>> ELSE << >>)
     \o (IF left > 3 THEN <<u8(c(2) * 64 + c(3))>> ELSE << >>)

\* The strings it decodes to: none where the length cannot be.
string_base64_decode(s) ==
  LET at == SelectInSeq(s, LAMBDA c : c = pad)
      len == IF at = 0 THEN Len(s) ELSE at - 1
  IN IF len % 4 = 1 THEN {}
     ELSE {FlattenSeq([g \in 1 .. (len + 3) \div 4 |->
                         base64_bytes(s, 4 * g - 3, len - 4 * g + 4)])}

-----------------------------------------------------------------------------
\* URIs.  The bytes the table of arguments marks are written as a percent sign and two
\* hexadecimal digits in lower case.
percent == 37

hex(k) == IF k < 10 THEN 48 + k ELSE 87 + k

args_marked(ch) == ch \in (0 .. 32) \cup {35, percent, 43, 63} \cup (127 .. 255)

string_escape_uri(s) ==
  FlattenSeq([i \in DOMAIN s |-> IF args_marked(s[i])
                                 THEN <<percent, hex(s[i] \div 16), hex(s[i] % 16)>>
                                 ELSE <<s[i]>>])

\* The digit a character stands for, or 16.  Upper case is taken for lower case.
unhex(ch) == CASE ch \in 48 .. 57 -> ch - 48
               [] ch \in 97 .. 102 -> ch - 87
               [] ch \in 65 .. 70 -> ch - 55
               [] OTHER -> 16

\* One character of string_unescape_uri with type 0: a is the state, the first digit and
\* the output so far.
unescape_char(a, ch) ==
  CASE a.state = "usual" ->
         IF ch = percent THEN [a EXCEPT !.state = "quoted"] ELSE [a EXCEPT !.d = Append(@, ch)]
    [] a.state = "quoted" ->
         IF unhex(ch) < 16 THEN [a EXCEPT !.state = "quoted_second", !.decoded = unhex(ch)]
         ELSE [a EXCEPT !.state = "usual", !.d = Append(@, ch)]
    [] a.state = "quoted_second" ->
         [a EXCEPT !.state = "usual",
                   !.d = IF unhex(ch) < 16 THEN Append(@, u8(a.decoded * 16 + unhex(ch)))
                         ELSE @]

string_unescape_uri(s) ==
  FoldLeft(unescape_char, [state |-> "usual", decoded |-> 0, d |-> << >>], s).d

-----------------------------------------------------------------------------
\* The bytes of a character of two and more bytes, by the definition of UTF-8.
Utf8(u) == CASE u < 2048 -> <<192 + u \div 64, 128 + (u % 64)>>
             [] u < 65536 -> <<224 + u \div 4096, 128 + ((u \div 64) % 64), 128 + (u % 64)>>
             [] OTHER -> <<240 + u \div 262144, 128 + ((u \div 4096) % 64),
                           128 + ((u \div 64) % 64), 128 + (u % 64)>>

\* How many bytes the first one announces, the bits of it that count, and the bound the
\* character has to exceed.
utf8_lead(b) == CASE b > 240 -> [len |-> 3, u |-> b % 8, valid |-> 65535]
                  [] b > 224 /\ b <= 240 -> [len |-> 2, u |-> b % 16, valid |-> 2047]
                  [] b > 192 /\ b <= 224 -> [len |-> 1, u |-> b % 32, valid |-> 127]

\* The characters it decodes to: none for an error or an incomplete sequence.
string_utf8_decode(s) ==
  IF s[1] <= 192 THEN {}
  ELSE LET lead == utf8_lead(s[1])
           rest == SubSeq(s, 2, lead.len + 1)
           u == FoldLeft(LAMBDA a, i : a * 64 + (i % 64), lead.u, rest)
       IN IF Len(s) - 1 < lead.len \/ (\E i \in DOMAIN rest : rest[i] < 128) \/ u <= lead.valid
          THEN {} ELSE {u}

-----------------------------------------------------------------------------
ScInit == /\ \/ codec \in {"base64", "uri"} /\ src \in Strings
             \/ codec = "utf8" /\ src \in {<<u>> : u \in Points}
          /\ dst = src /\ step = "source"

encode == /\ step = "source" /\ step' = "encoded"
          /\ dst' = CASE codec = "base64" -> string_base64_encode(src)
                      [] codec = "uri" -> string_escape_uri(src)
                      [] codec = "utf8" -> Utf8(src[1])
          /\ UNCHANGED <<codec, src>>

decode == /\ step = "encoded"
          /\ LET out == CASE codec = "base64" -> string_base64_decode(dst)
                          [] codec = "uri" -> {string_unescape_uri(dst)}
                          [] codec = "utf8" -> {<<u>> : u \in string_utf8_decode(dst)}
             IN IF out = {} THEN step' = "error" /\ UNCHANGED dst
                ELSE step' = "decoded" /\ dst' \in out
          /\ UNCHANGED <<codec, src>>

ScNext == encode \/ decode

ScSpec == ScInit /\ [][ScNext]_sc_vars

-----------------------------------------------------------------------------
\* The first bytes 0xe0 and 0xf0, which begin the characters from 0x800 and from 0x10000
\* on, are taken for the first bytes of shorter sequences.
Misread == codec = "utf8" /\ Utf8(src[1])[1] \in {224, 240}

\* What is encoded is decoded to itself, whatever its bytes and however many are left over
\* for the last group of base64, but for the characters of UTF-8 that are misread.
CodecsRoundTrip ==
  step \in {"decoded", "error"} /\ ~Misread => step = "decoded" /\ dst = src
=============================================================================

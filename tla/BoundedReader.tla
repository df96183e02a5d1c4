---------------------------- MODULE BoundedReader ----------------------------
(***************************************************************************)
(* The bounded reader, which the code has twice: read_bounded_body         *)
(* (src/src/http_execution.rs) and read_bounded (src/src/cargo_test.rs).   *)
(* It reads a stream to its end, a bufferful at most at a time, keeps the  *)
(* first bytes up to a maximum, and turns what it kept into text.          *)
(*                                                                         *)
(* A byte is what UTF-8 makes of it: a character of its own, the first or  *)
(* the second byte of a character of two (longer ones bring no case of     *)
(* their own: what is missing from one is replaced in the same way, by one *)
(* U+FFFD for one byte or more).                                           *)
(***************************************************************************)
EXTENDS Operation, Sequences, FiniteSets

CONSTANT BufferSize     \* 8192 in the code

ASSUME ReaderAssumption == BufferSize \in Nat \ {0}

VARIABLES
    received,   \* how many bytes of the stream have been read
    captured,   \* the bytes kept
    truncated   \* some were not

readerVars == <<received, captured, truncated>>

Bytes == {"ascii", "lead", "trail"}

ReaderInit == received = 0 /\ captured = <<>> /\ truncated = FALSE

StartReading == received' = 0 /\ captured' = <<>> /\ truncated' = FALSE

(* Mutant: a read that only just fills the buffer is taken for a cut.      *)
KeepTruncatingAtLimit(have, buffer, maximum) ==
    LET kept == Least(Len(buffer), maximum - Len(have)) IN
    [captured |-> have \o SubSeq(buffer, 1, kept),
     cut |-> Len(have) + Len(buffer) >= maximum]

(* What is kept of a read, and whether some of it was not.                 *)
Keep(have, buffer, maximum) ==
    LET kept == Least(Len(buffer), maximum - Len(have)) IN
    [captured |-> have \o SubSeq(buffer, 1, kept), cut |-> kept < Len(buffer)]

(* One turn of the loop: any number of bytes that are there may come.      *)
ReadSome(stream, maximum) ==
    \E n \in 1 .. Least(BufferSize, Len(stream) - received) :
        LET turn == Keep(captured, SubSeq(stream, received + 1, received + n),
                         maximum)
        IN
        /\ received' = received + n
        /\ captured' = turn.captured
        /\ truncated' = (truncated \/ turn.cut)

AllRead(stream) == received = Len(stream)

(* String::from_utf8_lossy: a byte that is no part of a whole character    *)
(* becomes U+FFFD, which takes three bytes.                                *)
Replaced == "U+FFFD"

PartOfCharacter(bytes, i) ==
    \/ bytes[i] = "ascii"
    \/ bytes[i] = "lead" /\ i < Len(bytes) /\ bytes[i + 1] = "trail"
    \/ bytes[i] = "trail" /\ i > 1 /\ bytes[i - 1] = "lead"

FromUtf8Lossy(bytes) ==
    [i \in 1 .. Len(bytes) |->
        IF PartOfCharacter(bytes, i) THEN bytes[i] ELSE Replaced]

Output == [text |-> FromUtf8Lossy(captured), truncated |-> truncated]

-----------------------------------------------------------------------------
(* The text's length in bytes.                                             *)
Size(text) ==
    LET replaced == {i \in DOMAIN text : text[i] = Replaced} IN
    Cardinality(DOMAIN text \ replaced) + 3 * Cardinality(replaced)

(* What the maximum means for a text: it is made of the stream's first     *)
(* bytes, `maximum` at most, each of them as it was unless it is part of   *)
(* no character or of one that the maximum cuts; the flag says whether     *)
(* there was more.  The text may be longer than the maximum, three times   *)
(* at most.                                                                *)
CutOff(stream, maximum, i) ==
    i = maximum /\ i < Len(stream) /\ stream[i] = "lead"

IsOutputOf(output, stream, maximum) ==
    /\ DOMAIN output.text = 1 .. Least(Len(stream), maximum)
    /\ \A i \in DOMAIN output.text :
          output.text[i] =
              IF PartOfCharacter(stream, i) /\ ~ CutOff(stream, maximum, i)
              THEN stream[i] ELSE Replaced
    /\ output.truncated <=> Len(stream) > maximum
    /\ Size(output.text) <= 3 * maximum
=============================================================================
